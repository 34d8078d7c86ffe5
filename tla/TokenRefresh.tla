---------------------------- MODULE TokenRefresh ----------------------------
(***************************************************************************)
(* The token refresh scheduler (src/vault/refresh-scheduler.ts): a tick    *)
(* takes a copy of all OAuth credentials and refreshes those that are      *)
(* about to expire, one after the other, awaiting the platform and the     *)
(* vault, while the user connects and disconnects accounts and another     *)
(* tick may have begun.  A vault operation is one step here (see Vault).   *)
(***************************************************************************)
EXTENDS Integers, FiniteSets

CONSTANTS
  OAuthPlatforms,
  Ticks,          \* the calls of tick()
  Handled,        \* the platforms of the RefreshRegistry
  Life,           \* how long a token lives
  RefreshWindow,  \* refreshWindowMs
  MaxClock,       \* bound on the clock
  MaxGrants,      \* bound on the tokens a platform grants
  NoToken         \* there is no credential, no platform

ASSUME TokenRefreshAssumption ==
  /\ Handled \subseteq OAuthPlatforms /\ NoToken \notin OAuthPlatforms
  /\ {Life, RefreshWindow, MaxClock, MaxGrants} \subseteq Nat

VARIABLES
  clockNow,
  accounts,   \* the credentials of the vault, or NoToken
  ticks,      \* per tick: where it is, its copy, what is left of it
  grants,     \* the platforms: the last token granted, the only one honoured
  blamed,     \* history: per platform, the tokens that could not be refreshed
  touched     \* history: platforms whose credential changed under a tick

refreshVars == <<clockNow, accounts, ticks, grants, blamed, touched>>

NoExpiry == -1
Cred(token, refreshable, expiresAt) ==
  [token |-> token, refreshable |-> refreshable, expiresAt |-> expiresAt, needsReconsent |-> FALSE]
Tick0 == [at |-> "idle", all |-> [p \in OAuthPlatforms |-> NoToken], todo |-> {}, platform |-> NoToken,
          result |-> NoToken]

RefreshInit ==
  /\ clockNow = 0
  /\ accounts = [p \in OAuthPlatforms |-> NoToken]
  /\ ticks = [k \in Ticks |-> Tick0]
  /\ grants = [p \in OAuthPlatforms |-> 0]
  /\ blamed = [p \in OAuthPlatforms |-> {}]
  /\ touched = {}

\* The ticks that work on a copy of this credential.
Holding(p) == {k \in Ticks : ticks[k].at # "idle" /\ (p \in ticks[k].todo \/ ticks[k].platform = p)}
Touch(p, others) == touched' = IF others # {} THEN touched \cup {p} ELSE touched

\* The user connects, which ends earlier grants, or disconnects.
connect(p, refreshable) ==
  /\ grants[p] < MaxGrants
  /\ grants' = [grants EXCEPT ![p] = @ + 1]
  /\ accounts' = [accounts EXCEPT ![p] = Cred(grants[p] + 1, refreshable, clockNow + Life)]
  /\ Touch(p, Holding(p))
  /\ UNCHANGED <<clockNow, ticks, blamed>>

disconnect(p) ==
  /\ accounts[p] # NoToken
  /\ accounts' = [accounts EXCEPT ![p] = NoToken]
  /\ Touch(p, Holding(p))
  /\ UNCHANGED <<clockNow, ticks, grants, blamed>>

Pass == clockNow < MaxClock /\ clockNow' = clockNow + 1 /\ UNCHANGED <<accounts, ticks, grants, blamed, touched>>

tick(k) ==
  /\ ticks[k].at = "idle"
  /\ ticks' = [ticks EXCEPT ![k].at = "scanning", ![k].all = accounts,
                            ![k].todo = {p \in OAuthPlatforms : accounts[p] # NoToken}]
  /\ UNCHANGED <<clockNow, accounts, grants, blamed, touched>>

isDue(cred) ==
  /\ ~cred.needsReconsent
  /\ cred.expiresAt # NoExpiry /\ cred.expiresAt - clockNow <= RefreshWindow

Handling(k, p, at) == ticks' = [ticks EXCEPT ![k].at = at, ![k].platform = p, ![k].todo = @ \ {p}]

\* The loop takes the next platform: skipped, expired at once for want of a
\* handler or of a refresh token, or sent to its handler.
scan(k, p) ==
  LET cred == ticks[k].all[p] IN
  /\ ticks[k].at = "scanning" /\ p \in ticks[k].todo
  /\ \/ /\ ~isDue(cred)
        /\ ticks' = [ticks EXCEPT ![k].todo = @ \ {p}]
        /\ UNCHANGED blamed
     \/ /\ isDue(cred) /\ (p \notin Handled \/ ~cred.refreshable)
        /\ Handling(k, p, "marking")
        /\ blamed' = [blamed EXCEPT ![p] = @ \cup {cred.token}]
     \/ /\ isDue(cred) /\ p \in Handled /\ cred.refreshable
        /\ Handling(k, p, "refreshing")
        /\ UNCHANGED blamed
  /\ UNCHANGED <<clockNow, accounts, grants, touched>>

\* The platform honours the last token it granted, and answers with the next.
handler(k) ==
  LET p == ticks[k].platform IN
  /\ ticks[k].at = "refreshing" /\ ticks[k].all[p].token = grants[p] /\ grants[p] < MaxGrants
  /\ grants' = [grants EXCEPT ![p] = @ + 1]
  /\ \E expiresAt \in {NoExpiry, clockNow + Life}, rotated \in BOOLEAN :
       ticks' = [ticks EXCEPT ![k].at = "updating",
                              ![k].result = [token |-> grants[p] + 1, refresh |-> rotated, expiresAt |-> expiresAt]]
  /\ UNCHANGED <<clockNow, accounts, blamed, touched>>

\* It refuses, or its answer is lost.
handlerFails(k) ==
  LET p == ticks[k].platform IN
  /\ ticks[k].at = "refreshing"
  /\ \/ UNCHANGED grants
     \/ ticks[k].all[p].token = grants[p] /\ grants[p] < MaxGrants /\ grants' = [grants EXCEPT ![p] = @ + 1]
  /\ ticks' = [ticks EXCEPT ![k].at = "marking"]
  /\ blamed' = [blamed EXCEPT ![p] = @ \cup {ticks[k].all[p].token}]
  /\ UNCHANGED <<clockNow, accounts, touched>>

refreshed_NoKeep(cred, old, result) ==
  [cred EXCEPT !.token = result.token, !.refreshable = result.refresh,
               !.expiresAt = result.expiresAt, !.needsReconsent = FALSE]

\* The patch of updateOAuth(): a refresh token that is not rotated is kept.
refreshed(cred, old, result) ==
  [cred EXCEPT !.token = result.token, !.refreshable = result.refresh \/ old.refreshable,
               !.expiresAt = result.expiresAt, !.needsReconsent = FALSE]

Continue(k) == ticks' = [ticks EXCEPT ![k].at = "scanning", ![k].platform = NoToken, ![k].result = NoToken]

\* Nothing is written for a platform that is gone.
update(k) ==
  LET p == ticks[k].platform IN
  /\ ticks[k].at = "updating"
  /\ accounts' = IF accounts[p] = NoToken THEN accounts
              ELSE [accounts EXCEPT ![p] = refreshed(@, ticks[k].all[p], ticks[k].result)]
  /\ Touch(p, Holding(p) \ {k})
  /\ Continue(k)
  /\ UNCHANGED <<clockNow, grants, blamed>>

\* The vault cannot be written: the catch block expires what was just granted.
updateFails(k) ==
  LET p == ticks[k].platform IN
  /\ ticks[k].at = "updating"
  /\ ticks' = [ticks EXCEPT ![k].at = "marking"]
  /\ blamed' = [blamed EXCEPT ![p] = @ \cup {ticks[k].all[p].token}]
  /\ UNCHANGED <<clockNow, accounts, grants, touched>>

markExpired(k) ==
  LET p == ticks[k].platform IN
  /\ ticks[k].at = "marking"
  /\ accounts' = IF accounts[p] = NoToken THEN accounts ELSE [accounts EXCEPT ![p].needsReconsent = TRUE]
  /\ Touch(p, Holding(p) \ {k})
  /\ Continue(k)
  /\ UNCHANGED <<clockNow, grants, blamed>>

\* The vault throws here: the tick rejects, and leaves the rest unchecked.
markFails(k) ==
  /\ ticks[k].at = "marking"
  /\ ticks' = [ticks EXCEPT ![k] = Tick0]
  /\ UNCHANGED <<clockNow, accounts, grants, blamed, touched>>

tickEnds(k) ==
  /\ ticks[k].at = "scanning" /\ ticks[k].todo = {}
  /\ ticks' = [ticks EXCEPT ![k] = Tick0]
  /\ UNCHANGED <<clockNow, accounts, grants, blamed, touched>>

RefreshNext ==
  \/ Pass
  \/ \E p \in OAuthPlatforms : disconnect(p) \/ \E refreshable \in BOOLEAN : connect(p, refreshable)
  \/ \E k \in Ticks : \/ tick(k) \/ tickEnds(k) \/ handler(k) \/ handlerFails(k)
                      \/ update(k) \/ updateFails(k) \/ markExpired(k) \/ markFails(k)
                      \/ \E p \in OAuthPlatforms : scan(k, p)

RefreshSpec == RefreshInit /\ [][RefreshNext]_refreshVars

-----------------------------------------------------------------------------
(* Properties.                                                             *)

\* The user is asked to consent again only for a credential that could not be
\* refreshed, and the stored token is the one the platform honours until a
\* refresh of it fails; unless the credential changed while a tick held a copy
\* of it, when the tick overwrites or expires the new one.
TokensAreHonoured ==
  \A p \in OAuthPlatforms :
    accounts[p] # NoToken /\ p \notin touched =>
      /\ accounts[p].needsReconsent => accounts[p].token \in blamed[p]
      /\ accounts[p].token = grants[p] \/ accounts[p].token \in blamed[p]
           \/ \E k \in Ticks : ticks[k].at = "updating" /\ ticks[k].platform = p

\* A refresh leaves an account able to be refreshed: it never drops the refresh
\* token, even when the platform sends none with the new access token.
RefreshTokenIsKept ==
  [][\A p \in OAuthPlatforms :
       /\ accounts[p] # NoToken /\ accounts'[p] # NoToken /\ accounts[p].refreshable /\ ~accounts'[p].refreshable
       => accounts'[p].token = grants[p] + 1 /\ accounts'[p].expiresAt = clockNow + Life]_refreshVars

\* Whatever ticks, users and platforms do to one credential, nobody is asked to consent
\* without cause, now or when the refresh token would have been needed.
RefreshIsFaithful == []TokensAreHonoured /\ RefreshTokenIsKept
=============================================================================
