---------------------------- MODULE ApprovalQueue ----------------------------
(***************************************************************************)
(* The shared approval queue (src/approvals/approval-queue.ts).  A request *)
(* is a promise that an id stands for until it is settled by a decision,   *)
(* by its timer or by clear().  After that the id may be used again.       *)
(***************************************************************************)
EXTENDS Integers, FiniteSets

CONSTANTS
  Requests,    \* the calls of request(), one promise each
  Ids,         \* ids a caller may pass (or randomUUID returns)
  MaxPending   \* maxPending

ASSUME QueueAssumption == MaxPending \in Nat \ {0}

VARIABLES
  entries,   \* the map of pending requests: [id, req]
  timers,    \* the armed timers: [id, req]
  outcome    \* what each promise is: not created, waiting, or its outcome

queueVars == <<entries, timers, outcome>>

Entry == [id : Ids, req : Requests]
Decision == {"approve", "reject"}
OutcomeDecision == Decision \cup {"timeout"}

QueueInit ==
  /\ entries = {}
  /\ timers = {}
  /\ outcome = [r \in Requests |-> "new"]

\* request() throws before it creates a promise: nothing changes then.
Accepts(id) ==
  /\ \A e \in entries : e.id # id
  /\ Cardinality(entries) < MaxPending

request(r, id, timed) ==
  LET e == [id |-> id, req |-> r] IN
  /\ outcome[r] = "new"
  /\ Accepts(id)
  /\ entries' = entries \cup {e}
  /\ timers' = IF timed THEN timers \cup {e} ELSE timers
  /\ outcome' = [outcome EXCEPT ![r] = "waiting"]

settle_TimerArmed(e, decision) ==
  /\ entries' = entries \ {e}
  /\ UNCHANGED timers
  /\ outcome' = [outcome EXCEPT ![e.req] = decision]

settle_NotRemoved(e, decision) ==
  /\ UNCHANGED <<entries, timers>>
  /\ outcome' = [outcome EXCEPT ![e.req] = decision]

\* settle() for an id that is pending; for any other it returns false.
settle(e, decision) ==
  /\ entries' = entries \ {e}
  /\ timers' = timers \ {e}
  /\ outcome' = [outcome EXCEPT ![e.req] = decision]

decide(id, decision) == \E e \in entries : e.id = id /\ settle(e, decision)

\* A timer fires: it settles whatever its id stands for now.
expire(t) ==
  /\ t \in timers
  /\ \E e \in entries : e.id = t.id /\ settle(e, "timeout")

clear_NoResolve ==
  /\ entries # {}
  /\ entries' = {}
  /\ timers' = timers \ entries
  /\ UNCHANGED outcome

\* clear() settles every pending request as timed out.
clear ==
  /\ entries # {}
  /\ entries' = {}
  /\ timers' = timers \ entries
  /\ outcome' = [r \in Requests |-> IF \E e \in entries : e.req = r THEN "timeout" ELSE outcome[r]]

QueueNext ==
  \/ \E r \in Requests, id \in Ids, timed \in BOOLEAN : request(r, id, timed)
  \/ \E id \in Ids, d \in Decision : decide(id, d)
  \/ \E t \in timers : expire(t)
  \/ clear

QueueSpec == QueueInit /\ [][QueueNext]_queueVars

\* setTimeout callbacks run.
LiveQueueSpec == QueueSpec /\ \A e \in Entry : WF_queueVars(expire(e))

-----------------------------------------------------------------------------
(* Properties.                                                             *)

\* The map, the timers and the promises keep their shape.
QueueTypeOK ==
  /\ entries \subseteq Entry
  /\ timers \subseteq Entry
  /\ outcome \in [Requests -> {"new", "waiting"} \cup OutcomeDecision]

\* No promise dangles: a caller waits exactly while an id in the map can settle
\* it, and no two pending requests share an id or a promise two ids.
PendingIffWaiting ==
  /\ \A r \in Requests : outcome[r] = "waiting" <=> \E e \in entries : e.req = r
  /\ \A e, f \in entries : e.id = f.id \/ e.req = f.req => e = f

\* A timer outlives neither its own request nor, when an id is used again, times
\* out the request that came after it.
TimerIsOwn == timers \subseteq entries

\* "Idempotent and race-safe": a decision, a timeout and clear() may race, but the
\* first one stands.
FirstOutcomeStands ==
  [][\A r \in Requests : outcome[r] \in OutcomeDecision => outcome'[r] = outcome[r]]_queueVars

\* A request with a timeout does not wait forever.
TimedRequestSettles ==
  \A e \in Entry : (e \in timers) ~> (outcome[e.req] \in OutcomeDecision)

\* The map, the promises and the timers stand for the same requests at every moment.
WaitersMatchEntries == PendingIffWaiting /\ TimerIsOwn
=============================================================================
