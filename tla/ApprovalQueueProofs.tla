------------------------ MODULE ApprovalQueueProofs -------------------------
(***************************************************************************)
(* Proofs about ApprovalQueue for any sets of requests and ids and any     *)
(* capacity.                                                               *)
(***************************************************************************)
EXTENDS ApprovalQueue, TLAPS

\* The three invariants together are inductive: that a settled promise has no id
\* left needs the one-to-one map, and that a timer finds its own request needs both.
QueueInv == QueueTypeOK /\ PendingIffWaiting /\ TimerIsOwn

LEMMA QueueStart == QueueInit => QueueInv
  BY DEF QueueInit, QueueInv, QueueTypeOK, PendingIffWaiting, TimerIsOwn, OutcomeDecision, Decision

LEMMA RequestStep ==
  ASSUME QueueInv, NEW r \in Requests, NEW id \in Ids, NEW timed \in BOOLEAN,
         request(r, id, timed)
  PROVE  QueueInv'
<1> DEFINE e == [id |-> id, req |-> r]
<1>1. /\ outcome[r] = "new"
      /\ entries' = entries \cup {e}
      /\ timers' \in {timers, timers \cup {e}}
      /\ outcome' = [outcome EXCEPT ![r] = "waiting"]
      /\ \A f \in entries : f.id # id
  BY DEF request, Accepts
<1>2. e \in Entry /\ e.id = id /\ e.req = r
  BY DEF Entry
<1> HIDE DEF e
<1> USE DEF QueueInv
<1>3. \A f \in entries : f.req # r
  BY <1>1 DEF PendingIffWaiting, QueueTypeOK, Entry
<1>4. QueueTypeOK'
  BY <1>1, <1>2 DEF QueueTypeOK
<1>5. PendingIffWaiting'
  <2>1. \A f, g \in entries' : f.id = g.id \/ f.req = g.req => f = g
    BY <1>1, <1>2, <1>3 DEF PendingIffWaiting
  <2>2. ASSUME NEW q \in Requests
        PROVE  outcome'[q] = "waiting" <=> \E f \in entries' : f.req = q
    <3>1. CASE q = r
      BY <1>1, <1>2, <3>1 DEF QueueTypeOK
    <3>2. CASE q # r
      <4>1. outcome'[q] = outcome[q]
        BY <1>1, <3>2 DEF QueueTypeOK
      <4> QED
        BY <1>1, <1>2, <3>2, <4>1 DEF PendingIffWaiting
    <3> QED
      BY <3>1, <3>2
  <2> QED
    BY <2>1, <2>2 DEF PendingIffWaiting
<1>6. TimerIsOwn'
  BY <1>1 DEF TimerIsOwn
<1> QED
  BY <1>4, <1>5, <1>6

\* Whoever settles a pending request, its entry, its timer and its promise go together.
LEMMA SettleStep ==
  ASSUME QueueInv, NEW e \in entries, NEW d \in OutcomeDecision, settle(e, d)
  PROVE  QueueInv'
<1> USE DEF QueueInv
<1>1. e \in Entry /\ e.req \in Requests
  BY DEF QueueTypeOK, Entry
<1>2. d # "waiting"
  BY DEF OutcomeDecision, Decision
<1>3. QueueTypeOK'
  BY <1>1 DEF QueueTypeOK, settle
<1>4. PendingIffWaiting'
  <2>1. \A f, g \in entries' : f.id = g.id \/ f.req = g.req => f = g
    BY DEF PendingIffWaiting, settle
  <2>2. ASSUME NEW q \in Requests
        PROVE  outcome'[q] = "waiting" <=> \E f \in entries' : f.req = q
    <3>1. CASE q = e.req
      <4>1. outcome'[q] = d
        BY <1>1, <3>1 DEF settle, QueueTypeOK
      <4>2. \A f \in entries' : f.req # q
        BY <3>1 DEF PendingIffWaiting, settle
      <4> QED
        BY <1>2, <4>1, <4>2
    <3>2. CASE q # e.req
      <4>1. outcome'[q] = outcome[q]
        BY <1>1, <3>2 DEF settle, QueueTypeOK
      <4>2. (\E f \in entries' : f.req = q) <=> \E f \in entries : f.req = q
        BY <3>2 DEF settle
      <4> QED
        BY <4>1, <4>2 DEF PendingIffWaiting
    <3> QED
      BY <3>1, <3>2
  <2> QED
    BY <2>1, <2>2 DEF PendingIffWaiting
<1>5. TimerIsOwn'
  BY DEF TimerIsOwn, settle
<1> QED
  BY <1>3, <1>4, <1>5

LEMMA ClearStep == ASSUME QueueInv, clear PROVE QueueInv'
<1> USE DEF QueueInv
<1>1. \A r \in Requests :
        outcome'[r] = IF \E e \in entries : e.req = r THEN "timeout" ELSE outcome[r]
  BY DEF clear
<1>2. QueueTypeOK'
  <2>1. outcome' \in [Requests -> {"new", "waiting"} \cup OutcomeDecision]
    BY DEF clear, QueueTypeOK, OutcomeDecision
  <2> QED
    BY <2>1 DEF clear, QueueTypeOK
<1>3. PendingIffWaiting'
  BY <1>1 DEF clear, PendingIffWaiting
<1>4. TimerIsOwn'
  BY DEF clear, TimerIsOwn
<1> QED
  BY <1>2, <1>3, <1>4

\* A step of the queue is a request, the settling of one entry, or clear().
LEMMA NextCases ==
  ASSUME QueueNext
  PROVE  \/ \E r \in Requests, id \in Ids, timed \in BOOLEAN : request(r, id, timed)
         \/ \E e \in entries, d \in OutcomeDecision : settle(e, d)
         \/ clear
  BY DEF QueueNext, decide, expire, OutcomeDecision

LEMMA QueueStep == QueueInv /\ [QueueNext]_queueVars => QueueInv'
<1> SUFFICES ASSUME QueueInv, [QueueNext]_queueVars PROVE QueueInv'
  OBVIOUS
<1>1. CASE QueueNext
  BY <1>1, NextCases, RequestStep, SettleStep, ClearStep
<1>2. CASE UNCHANGED queueVars
  BY <1>2 DEF queueVars, QueueInv, QueueTypeOK, PendingIffWaiting, TimerIsOwn
<1> QED
  BY <1>1, <1>2

LEMMA QueueAlways == QueueSpec => []QueueInv
  BY QueueStart, QueueStep, PTL DEF QueueSpec

\* No promise of request() dangles, for any ids that callers pass and use again.
THEOREM NoPromiseDangles == QueueSpec => []PendingIffWaiting
<1>1. QueueInv => PendingIffWaiting
  BY DEF QueueInv
<1> QED
  BY <1>1, QueueAlways, PTL

\* A timer that fires settles the request that armed it, although it looks its
\* request up by an id that may have been used again.
THEOREM TimersKeepToTheirRequest == QueueSpec => []TimerIsOwn
<1>1. QueueInv => TimerIsOwn
  BY DEF QueueInv
<1> QED
  BY <1>1, QueueAlways, PTL

\* "Idempotent and race-safe": decision, timeout and clear() settle a promise once.
THEOREM SettlingIsFinal == QueueSpec => FirstOutcomeStands
<1> DEFINE Stands == \A r \in Requests :
             outcome[r] \in OutcomeDecision => outcome'[r] = outcome[r]
<1>1. QueueInv /\ [QueueNext]_queueVars => [Stands]_queueVars
  <2> SUFFICES ASSUME QueueInv, QueueNext, NEW r \in Requests, outcome[r] \in OutcomeDecision
               PROVE  outcome'[r] = outcome[r]
    OBVIOUS
  <2> USE DEF QueueInv
  <2>1. outcome[r] \notin {"new", "waiting"}
    BY DEF OutcomeDecision, Decision
  <2>2. \A e \in entries : e.req # r
    BY <2>1 DEF PendingIffWaiting
  <2>3. ASSUME NEW q \in Requests, NEW id \in Ids, NEW timed \in BOOLEAN, request(q, id, timed)
        PROVE  outcome'[r] = outcome[r]
    BY <2>1, <2>3 DEF request, QueueTypeOK
  <2>4. ASSUME NEW e \in entries, NEW d \in OutcomeDecision, settle(e, d)
        PROVE  outcome'[r] = outcome[r]
    BY <2>2, <2>4 DEF settle, QueueTypeOK
  <2>5. CASE clear
    BY <2>2, <2>5 DEF clear
  <2> QED
    BY <2>3, <2>4, <2>5, NextCases
<1> QED
  BY <1>1, QueueAlways, PTL DEF QueueSpec, FirstOutcomeStands

\* The map, the promises and the timers always stand for the same requests.
THEOREM WaitersAlwaysMatch == QueueSpec => []WaitersMatchEntries
  BY NoPromiseDangles, TimersKeepToTheirRequest, PTL DEF WaitersMatchEntries
=============================================================================
