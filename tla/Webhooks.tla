------------------------------ MODULE Webhooks ------------------------------
(***************************************************************************)
(* The webhook receiver: the router (src/platform/webhooks/router.ts), the *)
(* table of events already received (event-store.ts) and the event id a    *)
(* connector extracts (src/connectors/meta/webhook-handler.ts).            *)
(*                                                                         *)
(* A platform delivers an event at least once: again when an answer is     *)
(* late, lost or not a 200.  A delivery runs without a break up to the     *)
(* connector's handle(), which is awaited.                                 *)
(***************************************************************************)
EXTENDS Integers

CONSTANTS
  Events,       \* what happened on the platform
  Deliveries,   \* the requests that arrive, a bound on the redeliveries
  Ids,          \* event ids
  NoId,         \* the payload has no id
  IdOf(_),      \* extractEventId() of an event's payload
  MaxCrashes    \* bound on how often the process is killed

ASSUME WebhooksAssumption ==
  /\ Events # {} /\ \A e \in Events : IdOf(e) \in Ids \cup {NoId}
  /\ NoId \notin Ids /\ MaxCrashes \in Nat

VARIABLES
  webhook_events,   \* the ids in the table; it outlives the process
  delivery,         \* per request: where it is, and the event it carries
  started,          \* history: per event, how many handle() calls began
  handled,          \* history: the events of the handle() calls that succeeded
  crashes

vars == <<webhook_events, delivery, started, handled, crashes>>

\* "ok" and "duplicate" are answers 200, "error" is 500, "refused" is 404, 401 or
\* 400; "cut" never got one.
Answer == {"ok", "duplicate", "error", "refused", "cut"}
Delivery == [at : {"new", "handling"} \cup Answer, event : Events]

Init ==
  /\ webhook_events = {}
  /\ delivery = [d \in Deliveries |-> [at |-> "new", event |-> CHOOSE e \in Events : TRUE]]
  /\ started = [e \in Events |-> 0]
  /\ handled = {}
  /\ crashes = 0

recordIfNew_Never(e) == UNCHANGED webhook_events

\* INSERT ... ON CONFLICT DO NOTHING.
recordIfNew(e) == webhook_events' = webhook_events \cup ({IdOf(e)} \ {NoId})

isNew(e) == IdOf(e) \notin webhook_events

\* An unknown platform, a bad signature or a malformed body is refused first.  Then
\* the event is recorded, and handled unless it was recorded before.
receive(d, e, accepted) ==
  /\ delivery[d].at = "new"
  /\ IF ~accepted
     THEN /\ delivery' = [delivery EXCEPT ![d] = [at |-> "refused", event |-> e]]
          /\ UNCHANGED <<webhook_events, started>>
     ELSE IF ~isNew(e)
     THEN /\ delivery' = [delivery EXCEPT ![d] = [at |-> "duplicate", event |-> e]]
          /\ UNCHANGED <<webhook_events, started>>
     ELSE /\ recordIfNew(e)
          /\ delivery' = [delivery EXCEPT ![d] = [at |-> "handling", event |-> e]]
          /\ started' = [started EXCEPT ![e] = @ + 1]
  /\ UNCHANGED <<handled, crashes>>

\* handle() resolves: 200.
handleReturns(d) ==
  /\ delivery[d].at = "handling"
  /\ delivery' = [delivery EXCEPT ![d].at = "ok"]
  /\ handled' = handled \cup {delivery[d].event}
  /\ UNCHANGED <<webhook_events, started, crashes>>

\* handle() rejects: 500, and the platform delivers again.
handleThrows(d) ==
  /\ delivery[d].at = "handling"
  /\ delivery' = [delivery EXCEPT ![d].at = "error"]
  /\ UNCHANGED <<webhook_events, started, handled, crashes>>

crash ==
  /\ crashes < MaxCrashes
  /\ crashes' = crashes + 1
  /\ delivery' = [d \in Deliveries |-> IF delivery[d].at = "handling"
                                       THEN [delivery[d] EXCEPT !.at = "cut"] ELSE delivery[d]]
  /\ UNCHANGED <<webhook_events, started, handled>>

Next ==
  \/ \E d \in Deliveries :
       \/ \E e \in Events, accepted \in BOOLEAN : receive(d, e, accepted)
       \/ handleReturns(d) \/ handleThrows(d)
  \/ crash

Spec == Init /\ [][Next]_vars

-----------------------------------------------------------------------------
(* Properties.                                                             *)

\* The table, the requests and the histories keep their shape.
TypeOK ==
  /\ webhook_events \subseteq Ids
  /\ delivery \in [Deliveries -> Delivery]
  /\ started \in [Events -> Nat]
  /\ handled \subseteq Events
  /\ crashes \in 0 .. MaxCrashes

\* However often events are delivered, at once or one after the other and across
\* restarts, the handler begins at most once per event id.
HandledOnce ==
  \A e, f \in Events :
    IdOf(e) = IdOf(f) /\ IdOf(e) # NoId /\ started[e] > 0 /\ started[f] > 0
      => e = f /\ started[e] = 1

\* Only an accepted delivery uses an event id up: a refused one never makes the
\* genuine delivery that follows look like a replay.
RefusalLeavesNoTrace ==
  /\ TypeOK
  /\ webhook_events = {IdOf(e) : e \in {f \in Events : started[f] > 0}} \ {NoId}

\* A delivery dismissed as a duplicate carries an event whose handler has begun, or
\* which shares its id with such an event ("Stable per-event id",
\* handler-registry.ts:15): an event whose id is its own is lost only if its handler
\* threw or was cut off.
DuplicateWasStarted ==
  \A d \in Deliveries : delivery[d].at = "duplicate" =>
    \E f \in Events : IdOf(f) = IdOf(delivery[d].event) /\ started[f] > 0

\* The table of ids holds the events that were begun, each begun once, and a delivery
\* is dismissed for no other reason.
TableTellsWhatBegan == HandledOnce /\ RefusalLeavesNoTrace /\ DuplicateWasStarted
=============================================================================
