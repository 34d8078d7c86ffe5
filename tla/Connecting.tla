----------------------------- MODULE Connecting -----------------------------
(***************************************************************************)
(* From the app credentials of a platform to a stored connection: what the *)
(* server registers for the platform at boot (src/connectors/*/index.ts,   *)
(* src/server/index.ts), the authorize URL of the wizard                   *)
(* (src/server/social-setup), and the token exchange of each connector     *)
(* (src/connectors/*/oauth.ts) with the write to the vault that follows    *)
(* (src/platform/oauth/router.ts).                                         *)
(*                                                                         *)
(* Module OAuth has the states and the callback route; here the state is   *)
(* accepted and the rest of the flow is in detail.  The platform and the   *)
(* saved app credentials may change at any time; app credentials are       *)
(* numbered in the order they were saved, 0 is none.                       *)
(***************************************************************************)
EXTENDS Integers

CONSTANTS MaxApps,    \* app credentials saved
          MaxCodes    \* consents given

ASSUME ConnectingAssumption == MaxApps \in Nat /\ MaxCodes \in Nat

VARIABLES site,       \* the platform, the server's host and the settings
          app,        \* the app credential in the vault
          booted,     \* what the last boot registered
          code,       \* the code the browser brought back, and how it was asked for
          exchange,   \* the exchange in progress
          cred        \* the credential in the vault

connectVars == <<site, app, booted, code, exchange, cred>>

META_PLATFORMS == {"instagram", "facebook", "threads"}
SOCIAL_PLATFORMS == META_PLATFORMS \cup {"linkedin", "pinterest", "tiktok", "twitter"}

-----------------------------------------------------------------------------
(* The exchangers.  `upgrade': a second request trades the short-lived      *)
(* token for a long-lived one; `pkce': the flow's metadata must hold the    *)
(* code verifier; `url': the token endpoint comes from the configuration.   *)

Exchanger(upgrade, pkce, url) == [upgrade |-> upgrade, pkce |-> pkce, url |-> url]

FacebookOAuthExchanger  == Exchanger(TRUE, FALSE, TRUE)
ThreadsOAuthExchanger   == Exchanger(TRUE, FALSE, TRUE)
LinkedInOAuthExchanger  == Exchanger(FALSE, FALSE, FALSE)
PinterestOAuthExchanger == Exchanger(FALSE, FALSE, TRUE)
TikTokOAuthExchanger    == Exchanger(FALSE, FALSE, TRUE)
TwitterOAuthExchanger   == Exchanger(FALSE, TRUE, TRUE)

ExchangerOf == CASE site.platform \in {"instagram", "facebook"} -> FacebookOAuthExchanger
                 [] site.platform = "threads"   -> ThreadsOAuthExchanger
                 [] site.platform = "linkedin"  -> LinkedInOAuthExchanger
                 [] site.platform = "pinterest" -> PinterestOAuthExchanger
                 [] site.platform = "tiktok"    -> TikTokOAuthExchanger
                 [] site.platform = "twitter"   -> TwitterOAuthExchanger

\* What a token endpoint may answer: a status, an error in the body, a token
\* and its stated life.
Answers == [ok : BOOLEAN, error : BOOLEAN, token : BOOLEAN, life : {"stated", "unstated"}]

\* The answers taken for a token.  X, LinkedIn and Pinterest do not look at an
\* error in the body of a 200; all of them need an access_token.
metaReadToken(a)      == a.ok /\ ~a.error /\ a.token
tiktokReadToken(a)    == a.ok /\ ~a.error /\ a.token
linkedinReadToken(a)  == a.ok /\ a.token
pinterestReadToken(a) == a.ok /\ a.token
twitterReadToken(a)   == a.ok /\ a.token

readToken(a) == CASE site.platform \in META_PLATFORMS -> metaReadToken(a)
                  [] site.platform = "tiktok"    -> tiktokReadToken(a)
                  [] site.platform = "linkedin"  -> linkedinReadToken(a)
                  [] site.platform = "pinterest" -> pinterestReadToken(a)
                  [] site.platform = "twitter"   -> twitterReadToken(a)

\* A platform issues a token with an answer, and only then; it refuses a code
\* that was asked for with another app or another redirect, or was used.
Honest(a) == a.token <=> a.ok /\ ~a.error

-----------------------------------------------------------------------------
(* Boot.                                                                    *)

\* The redirect URI in the exchange: the configured host ...
callbackUrl == site.host
\* ... and the one the wizard puts in the authorize URL.
publicBaseUrl == "localhost"

\* assertSafeUrl accepts the configured endpoints; a connector whose
\* registration throws is left out and the server goes on.
isDmEnabledForTier == site.paid /\ site.dmEnabled

\* The webhook handlers take the app secret of the moment of boot; the DM
\* sender is there if the tier permits it and the user opted in.
registerMetaConnectors     == [exchanger |-> site.safeUrl, webhooks |-> IF site.safeUrl THEN app ELSE 0, dm |-> FALSE]
registerLinkedInConnectors == [exchanger |-> TRUE, webhooks |-> 0, dm |-> FALSE]
registerPinterestConnectors == [exchanger |-> site.safeUrl, webhooks |-> 0, dm |-> FALSE]
registerTikTokConnectors   == [exchanger |-> site.safeUrl, webhooks |-> 0, dm |-> FALSE]
registerTwitterConnectors  == [exchanger |-> site.safeUrl, webhooks |-> 0,
                               dm |-> site.safeUrl /\ isDmEnabledForTier]

Unregistered == [exchanger |-> FALSE, webhooks |-> 0, dm |-> FALSE]

startServer == CASE ~site.enabled -> Unregistered
                 [] site.platform \in META_PLATFORMS -> registerMetaConnectors
                 [] site.platform = "linkedin"  -> registerLinkedInConnectors
                 [] site.platform = "pinterest" -> registerPinterestConnectors
                 [] site.platform = "tiktok"    -> registerTikTokConnectors
                 [] site.platform = "twitter"   -> registerTwitterConnectors

NoCode == [held |-> FALSE, app |-> 0, redirect |-> "none", used |-> FALSE, given |-> 0]
NoExchange == [at |-> "none", app |-> 0, token |-> "none", life |-> "unstated"]
NoCred == [token |-> "none", life |-> "unstated", app |-> 0, redirect |-> "none"]

\* How a server may be set up to connect a platform; the paid tiers and the DMs are X's.
Sites ==
    {s \in [platform : SOCIAL_PLATFORMS, host : {"127.0.0.1", "localhost"}, enabled : BOOLEAN,
            safeUrl : BOOLEAN, paid : BOOLEAN, dmEnabled : BOOLEAN] :
       (s.paid \/ s.dmEnabled) => s.platform = "twitter"}

ConnectInit ==
    /\ site \in Sites
    /\ app \in {0, 1}
    /\ booted = startServer
    /\ code = NoCode /\ exchange = NoExchange /\ cred = NoCred

restart == /\ booted # startServer
           /\ booted' = startServer /\ exchange' = NoExchange
           /\ UNCHANGED <<site, app, code, cred>>

-----------------------------------------------------------------------------
(* The wizard.                                                              *)

\* POST /meta/app, and the operator's edits for the other platforms.
saveApp == /\ app < MaxApps /\ app' = app + 1
           /\ UNCHANGED <<site, booted, code, exchange, cred>>

\* POST /:platform/authorize; the user consents and the browser comes back.
openWizard == /\ app > 0 /\ code.given < MaxCodes
              /\ code' = [held |-> TRUE, app |-> app, redirect |-> publicBaseUrl, used |-> FALSE,
                          given |-> code.given + 1]
              /\ UNCHANGED <<site, app, booted, exchange, cred>>

\* GET /status: is the platform shown as connected?
connected == cred.token # "none"

-----------------------------------------------------------------------------
(* exchangeCode.                                                            *)

Refused == exchange' = [exchange EXCEPT !.at = "refused"]

\* The callback route finds the exchanger and calls it; the app credential is
\* read from the vault now, and the wizard's metadata holds no code verifier.
exchangeCode ==
    /\ code.held /\ booted.exchanger /\ exchange.at \in {"none", "refused", "stored"}
    /\ IF app = 0 \/ ExchangerOf.pkce THEN Refused
       ELSE exchange' = [at |-> "short", app |-> app, token |-> "none", life |-> "unstated"]
    /\ UNCHANGED <<site, app, booted, code, cred>>

PlatformAccepts == ~code.used /\ code.app = exchange.app /\ code.redirect = callbackUrl

shortToken == \E a \in Answers :
    /\ exchange.at = "short" /\ Honest(a)
    /\ a.token => PlatformAccepts
    /\ code' = [code EXCEPT !.used = code.used \/ a.token]
    /\ IF ~readToken(a) THEN Refused
       ELSE exchange' = [exchange EXCEPT !.at = IF ExchangerOf.upgrade THEN "long" ELSE "storing",
                                         !.token = "short", !.life = IF a.life = "stated" THEN "short" ELSE a.life]
    /\ UNCHANGED <<site, app, booted, cred>>

upgraded_TokenKept(life) == [exchange EXCEPT !.at = "storing", !.life = IF life = "stated" THEN "long" ELSE exchange.life]

\* The long-lived token; its life is the short one's when none is stated.
upgraded(life) == [exchange EXCEPT !.at = "storing", !.token = "long",
                                   !.life = IF life = "stated" THEN "long" ELSE exchange.life]

longToken == \E a \in Answers :
    /\ exchange.at = "long" /\ Honest(a)
    /\ IF ~readToken(a) THEN Refused ELSE exchange' = upgraded(a.life)
    /\ UNCHANGED <<site, app, booted, code, cred>>

requestFails == /\ exchange.at \in {"short", "long"} /\ Refused
                /\ UNCHANGED <<site, app, booted, code, cred>>

\* The router stores the tokens; the write may fail.
setOAuth ==
    /\ exchange.at = "storing"
    /\ \/ /\ cred' = [token |-> exchange.token, life |-> exchange.life, app |-> exchange.app,
                      redirect |-> code.redirect]
          /\ exchange' = [exchange EXCEPT !.at = "stored"]
       \/ Refused /\ UNCHANGED cred
    /\ UNCHANGED <<site, app, booted, code>>

ConnectNext == \/ restart \/ saveApp \/ openWizard \/ exchangeCode
               \/ shortToken \/ longToken \/ requestFails \/ setOAuth

ConnectSpec == ConnectInit /\ [][ConnectNext]_connectVars

-----------------------------------------------------------------------------
(* Properties.                                                              *)

\* A platform shown as connected has the token its connector promises: the
\* long-lived one if the connector upgrades, whichever of the two requests or
\* the write failed on an earlier try; and its recorded expiry is not later
\* than the token's.
ConnectedTokenIsWhole ==
    connected => /\ ExchangerOf.upgrade => cred.token = "long"
                 /\ cred.life = "long" => cred.token = "long"
=============================================================================
