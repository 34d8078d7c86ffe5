-------------------------------- MODULE OAuth --------------------------------
(***************************************************************************)
(* Connecting an account: the wizard's authorize route                     *)
(* (src/server/social-setup/router.ts) issues a state, the browser comes   *)
(* back with it to the callback router (src/platform/oauth/router.ts),     *)
(* which consumes it (state-store.ts), exchanges the code and stores the   *)
(* credential in the vault.                                                *)
(*                                                                         *)
(* A browser repeats, mixes up or invents callbacks at will.  Both routers *)
(* are given a state store; the server (src/server/index.ts) constructs    *)
(* one for each of them.                                                   *)
(***************************************************************************)
EXTENDS Integers

CONSTANTS
  Platforms,
  Connectors,    \* the platforms with an exchanger in the registry
  States,        \* random states, each minted once
  Callbacks,     \* the requests to the callback route, a bound on them
  NoPlatform,    \* a state that was never issued
  Ttl,           \* lifetime of a state
  MaxTime,       \* bound on the clock
  SharedStore    \* do both routers work on the same store?

ASSUME OAuthAssumption ==
  /\ Platforms # {} /\ States # {}
  /\ Connectors \subseteq Platforms /\ NoPlatform \notin Platforms
  /\ Ttl \in Nat \ {0} /\ MaxTime \in Nat /\ SharedStore \in BOOLEAN

VARIABLES
  now,
  issued,      \* history: per state, the platform and the time of issue
  records,     \* per store, the states in it
  callback,    \* per request: where it is, its platform and its state
  exchanges,   \* history: per state, how many code exchanges it started
  oauth        \* the vault: the platforms with a credential

vars == <<now, issued, records, callback, exchanges, oauth>>

Stores == {"wizard", "callback"}
WizardStore == IF SharedStore THEN "callback" ELSE "wizard"

\* "404", "400" and "502" are refusals, "connected" and "failed" redirects.
Callback == [at : {"new", "exchanging", "404", "400 state", "400 code", "502", "storing",
                   "connected", "failed"},
             platform : Platforms, state : States, time : 0 .. MaxTime]

Init ==
  /\ now = 0
  /\ issued = [s \in States |-> [platform |-> NoPlatform, time |-> 0]]
  /\ records = [store \in Stores |-> {}]
  /\ callback = [c \in Callbacks |-> [at |-> "new", platform |-> CHOOSE p \in Platforms : TRUE,
                                      state |-> CHOOSE s \in States : TRUE, time |-> 0]]
  /\ exchanges = [s \in States |-> 0]
  /\ oauth = {}

\* expiresAt <= now.
Expired(s) == issued[s].time + Ttl <= now

\* POST /:platform/authorize: a state bound to the platform goes into the URL.
authorize(p, s) ==
  /\ issued[s].platform = NoPlatform
  /\ issued' = [issued EXCEPT ![s] = [platform |-> p, time |-> now]]
  /\ records' = [records EXCEPT ![WizardStore] = @ \cup {s}]
  /\ UNCHANGED <<now, callback, exchanges, oauth>>

\* Does consume(p, s) return a record?
Consumable(p, s) == s \in records["callback"] /\ ~Expired(s) /\ issued[s].platform = p

delete_Never(p, s) == UNCHANGED records

\* consume() deletes the record "regardless of outcome".
delete(p, s) == records' = [records EXCEPT !["callback"] = @ \ {s}]

\* GET /callback/:platform up to the exchange it awaits.
arrives(c, p, s, hasCode) ==
  LET goes(at) ==
        callback' = [callback EXCEPT ![c] = [at |-> at, platform |-> p, state |-> s, time |-> now]]
  IN
  /\ callback[c].at = "new"
  /\ IF p \notin Connectors
     THEN goes("404") /\ UNCHANGED <<records, exchanges>>
     ELSE /\ delete(p, s)
          /\ IF ~Consumable(p, s) THEN goes("400 state") /\ UNCHANGED exchanges
             ELSE IF ~hasCode THEN goes("400 code") /\ UNCHANGED exchanges
             ELSE goes("exchanging") /\ exchanges' = [exchanges EXCEPT ![s] = @ + 1]
  /\ UNCHANGED <<now, issued, oauth>>

\* The platform's token endpoint answers, or not: 502.
exchangeReturns(c) ==
  /\ callback[c].at = "exchanging"
  /\ \E at \in {"storing", "502"} : callback' = [callback EXCEPT ![c].at = at]
  /\ UNCHANGED <<now, issued, records, exchanges, oauth>>

\* vault.setOAuth() resolves, or throws and the browser is sent to the failure page.
stores(c) ==
  /\ callback[c].at = "storing"
  /\ \/ callback' = [callback EXCEPT ![c].at = "connected"]
        /\ oauth' = oauth \cup {callback[c].platform}
     \/ callback' = [callback EXCEPT ![c].at = "failed"] /\ UNCHANGED oauth
  /\ UNCHANGED <<now, issued, records, exchanges>>

\* Housekeeping.
prune(store) ==
  /\ records' = [records EXCEPT ![store] = {s \in @ : ~Expired(s)}]
  /\ UNCHANGED <<now, issued, callback, exchanges, oauth>>

clock ==
  /\ now < MaxTime
  /\ now' = now + 1
  /\ UNCHANGED <<issued, records, callback, exchanges, oauth>>

Next ==
  \/ \E p \in Platforms, s \in States :
       \/ authorize(p, s)
       \/ \E c \in Callbacks, hasCode \in BOOLEAN : arrives(c, p, s, hasCode)
  \/ \E c \in Callbacks : exchangeReturns(c) \/ stores(c)
  \/ \E store \in Stores : prune(store)
  \/ clock

Spec == Init /\ [][Next]_vars

-----------------------------------------------------------------------------
(* Properties.                                                             *)

\* The stores, the requests and the vault keep their shape.
TypeOK ==
  /\ now \in 0 .. MaxTime
  /\ issued \in [States -> [platform : Platforms \cup {NoPlatform}, time : 0 .. MaxTime]]
  /\ records \in [Stores -> SUBSET States]
  /\ callback \in [Callbacks -> Callback]
  /\ exchanges \in [States -> Nat]
  /\ oauth \subseteq Connectors

\* A state starts one exchange at most, however often the browser repeats the
\* callback and whatever comes between.
SingleUse == TypeOK /\ \A s \in States : exchanges[s] <= 1

\* A code is exchanged only for the platform whose consent the user began, within
\* the lifetime of its state.
ExchangeWasAsked ==
  \A c \in Callbacks : callback[c].at \in {"exchanging", "storing", "connected", "502", "failed"} =>
    LET asked == issued[callback[c].state] IN
    /\ asked.platform = callback[c].platform
    /\ asked.time <= callback[c].time /\ callback[c].time < asked.time + Ttl

\* The "back half of the flow" works "unchanged" (platforms.ts:10): a callback is
\* refused for its state only if that state was never issued, was issued for another
\* platform, was used before, or was too old.
RefusedForCause ==
  \A c \in Callbacks : callback[c].at = "400 state" =>
    LET asked == issued[callback[c].state] IN
    \/ asked.platform # callback[c].platform
    \/ asked.time + Ttl <= callback[c].time
    \/ asked.time >= callback[c].time   \* not issued yet
    \/ \E d \in Callbacks \ {c} :
         callback[d].at \notin {"new", "404"} /\ callback[d].state = callback[c].state

\* Every exchange answers one request of the user, and no other does.
ExchangeIsAskedOnce == SingleUse /\ ExchangeWasAsked
=============================================================================
