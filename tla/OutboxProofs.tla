---------------------------- MODULE OutboxProofs ----------------------------
(***************************************************************************)
(* Proofs about Outbox for any set of posts, any clock bound, any number   *)
(* of attempts and any batch size.                                         *)
(***************************************************************************)
EXTENDS Outbox, TLAPS

USE OutboxAssumption

-----------------------------------------------------------------------------
(* Type correctness.                                                       *)

\* Ending a publish takes it out of jobs and changes at most the tick of others.
LEMMA EndsType ==
  ASSUME TypeOK, NEW j \in jobs, returns(j) \/ throws(j)
  PROVE  jobs' \subseteq Job /\ running' \in BOOLEAN
<1>1. \A k \in Job : [k EXCEPT !.tick = "orphan"] \in Job
  BY DEF Job
<1>2. CASE returns(j)
  BY <1>2 DEF returns, TypeOK
<1>3. CASE throws(j)
  <2>1. jobs' \subseteq Job
    BY <1>1, <1>3 DEF throws, TypeOK
  <2>2. running' \in BOOLEAN
    BY <1>3 DEF throws, TypeOK
  <2> QED
    BY <2>1, <2>2
<1> QED
  BY <1>2, <1>3

LEMMA NoRowType == ASSUME NEW s \in NoRowStatus PROVE NoRow(s) \in OutboxRow
  BY DEF NoRow, OutboxRow, Times, NULL

LEMMA InitType == Init => TypeOK
<1> SUFFICES ASSUME Init PROVE TypeOK
  OBVIOUS
<1>1. outbox \in [Posts -> OutboxRow]
  BY NoRowType DEF Init, NoRowStatus
<1>2. copies \in [Posts -> 0 .. 2] /\ live \in [Posts -> SUBSET Bodies]
  BY DEF Init
<1>3. stops \in 0 .. MaxStops /\ now \in Times
  BY DEF Init, Times
<1> QED
  BY <1>1, <1>2, <1>3 DEF Init, TypeOK

\* The columns a handler may write keep their types.
LEMMA HandlerType ==
  ASSUME TypeOK, NEW p \in Posts, Handler(p)
  PROVE  TypeOK'
<1> USE DEF TypeOK, OutboxRow, Times, NULL, OutboxStatus, NoRowStatus, unchangedByHandler
<1>1. ASSUME NEW b \in Bodies, NEW at \in {NULL} \cup Times, create(p, b, at) PROVE TypeOK'
  BY <1>1 DEF create
<1>2. ASSUME NEW b \in Bodies, update(p, b) PROVE TypeOK'
  BY <1>2 DEF update
<1>3. ASSUME NEW at \in Times, schedule(p, at) PROVE TypeOK'
  BY <1>3, ZenonT(40) DEF schedule, transition
<1>4. ASSUME NEW at \in Times, retry(p, at) PROVE TypeOK'
  BY <1>4, ZenonT(40) DEF retry, transition
<1>5. ASSUME unschedule(p) PROVE TypeOK'
  BY <1>5, ZenonT(40) DEF unschedule, transition
<1>6. ASSUME NEW at \in Times, reschedule(p, at) PROVE TypeOK'
  BY <1>6, ZenonT(40) DEF reschedule
<1>7. ASSUME delete(p) PROVE TypeOK'
  BY <1>7, NoRowType DEF delete
<1> QED
  BY <1>1, <1>2, <1>3, <1>4, <1>5, <1>6, <1>7 DEF Handler

\* The steps of a publish keep every table and counter well typed.
LEMMA JobStepType ==
  ASSUME TypeOK, NEW j \in jobs, JobStep(j)
  PROVE  TypeOK'
<1> USE DEF TypeOK
<1>0. j \in Job
  OBVIOUS
<1>1. ASSUME NEW ph \in Phase, NEW at \in 1 .. MaxAttempts, Advance(j, ph, at)
      PROVE  jobs' \subseteq Job
  BY <1>0, <1>1 DEF Advance, Job
<1>2. ASSUME platformAccepts(j) PROVE TypeOK'
  <2>1. jobs' \subseteq Job
    BY <1>0, <1>1, <1>2 DEF platformAccepts, Phase, Job
  <2>2. copies' \in [Posts -> 0 .. 2] /\ live' \in [Posts -> SUBSET Bodies]
    BY <1>0, <1>2 DEF platformAccepts, Job
  <2> QED
    BY <1>2, <2>1, <2>2 DEF platformAccepts
<1>3. ASSUME retryLater(j) PROVE TypeOK'
  BY <1>0, <1>1, <1>3 DEF retryLater, Phase, Job
<1>4. ASSUME wake(j) PROVE TypeOK'
  <2>1. j.attempt + 1 \in 1 .. MaxAttempts
    BY <1>0, <1>4 DEF wake, Job
  <2> QED
    BY <1>0, <1>1, <1>4, <2>1 DEF wake, Phase, Job
<1>5. ASSUME landInDlq(j) PROVE TypeOK'
  BY <1>0, <1>1, <1>5 DEF landInDlq, Phase, Job
<1>6. ASSUME markPublished(j) PROVE TypeOK'
  <2>1. jobs' \subseteq Job /\ running' \in BOOLEAN
    BY <1>6, EndsType DEF markPublished
  <2>2. outbox' \in [Posts -> OutboxRow]
    <3>1. j.post \in Posts
      BY <1>0 DEF Job
    <3>2. [outbox[j.post] EXCEPT !.status = "published", !.lastError = "none"] \in OutboxRow
      BY <3>1, ZenonT(40) DEF OutboxRow, OutboxStatus
    <3> QED
      BY <1>6, <3>1, <3>2 DEF markPublished
  <2> QED
    BY <1>6, <2>1, <2>2 DEF markPublished
<1>7. ASSUME markFailed(j) PROVE TypeOK'
  <2>1. jobs' \subseteq Job /\ running' \in BOOLEAN
    BY <1>7, EndsType DEF markFailed
  <2>2. outbox' \in [Posts -> OutboxRow]
    <3>1. j.post \in Posts /\ j.attempt \in Nat
      BY <1>0 DEF Job
    <3>2. [outbox[j.post] EXCEPT !.status = "failed", !.lastError = "error",
                                 !.attempts = j.attempt] \in OutboxRow
      BY <3>1, ZenonT(40) DEF OutboxRow, OutboxStatus
    <3> QED
      BY <1>7, <3>1, <3>2 DEF markFailed
  <2> QED
    BY <1>7, <2>1, <2>2 DEF markFailed
<1> QED
  BY <1>2, <1>3, <1>4, <1>5, <1>6, <1>7 DEF JobStep

LEMMA TickType == ASSUME TypeOK, runTick PROVE TypeOK'
<1> USE DEF TypeOK
<1>1. PICK S \in Batches(Due) \ {{}} : outbox' = ClaimedRows(S) /\ jobs' = jobs \cup NewJobs(S)
  BY DEF runTick
<1>2. S \subseteq Posts
  BY DEF Batches, Due
<1>3. \A p \in Posts : [outbox[p] EXCEPT !.status = "publishing", !.attempts = outbox[p].attempts + 1]
                         \in OutboxRow
  <2> SUFFICES ASSUME NEW p \in Posts
               PROVE  [outbox[p] EXCEPT !.status = "publishing", !.attempts = outbox[p].attempts + 1]
                        \in OutboxRow
    OBVIOUS
  <2>1. outbox[p] \in OutboxRow
    OBVIOUS
  <2>2. outbox[p].attempts + 1 \in Nat
    BY <2>1 DEF OutboxRow
  <2> QED
    BY <2>1, <2>2 DEF OutboxRow, OutboxStatus
<1>4. outbox' \in [Posts -> OutboxRow]
  BY <1>1, <1>3 DEF ClaimedRows
<1>5. NewJobs(S) \subseteq Job
  BY <1>2 DEF NewJobs, Job, Phase, OutboxRow
<1> QED
  BY <1>1, <1>4, <1>5 DEF runTick

LEMMA NextType == TypeOK /\ [Next]_vars => TypeOK'
<1> SUFFICES ASSUME TypeOK, [Next]_vars PROVE TypeOK'
  OBVIOUS
<1>1. ASSUME NEW p \in Posts, Handler(p) PROVE TypeOK'
  BY <1>1, HandlerType
<1>2. ASSUME runTick PROVE TypeOK'
  BY <1>2, TickType
<1>3. ASSUME NEW j \in jobs, JobStep(j) PROVE TypeOK'
  BY <1>3, JobStepType
<1>4. ASSUME stop \/ start PROVE TypeOK'
  BY <1>4 DEF stop, start, TypeOK
<1>5. ASSUME exit PROVE TypeOK'
  <2>1. stops' \in 0 .. MaxStops
    BY <1>5 DEF exit, TypeOK
  <2> QED
    BY <1>5, <2>1 DEF exit, TypeOK
<1>7. ASSUME clock PROVE TypeOK'
  <2>1. now' \in Times
    BY <1>7 DEF clock, TypeOK, Times
  <2> QED
    BY <1>7, <2>1 DEF clock, TypeOK
<1>6. ASSUME UNCHANGED vars PROVE TypeOK'
  BY <1>6 DEF vars, TypeOK
<1> QED
  BY <1>1, <1>2, <1>3, <1>4, <1>5, <1>6, <1>7 DEF Next

\* The tables, the publishes in flight and the counters are well typed in every
\* reachable state, for any number of posts, attempts and restarts.
THEOREM TypeCorrect == Spec => []TypeOK
  BY InitType, NextType, PTL DEF Spec

-----------------------------------------------------------------------------
(* What a step does to the rows, seen from a claim.                        *)

\* A handler writes one row, and of a row that is publishing or published it can
\* only delete it.
LEMMA HandlerEffect ==
  ASSUME TypeOK, NEW p \in Posts, Handler(p)
  PROVE  /\ \A q \in Posts : q # p => outbox'[q] = outbox[q]
         /\ outbox[p].status # "deleted"
         /\ \/ /\ outbox[p].status \in OutboxStatus
               /\ outbox'[p].status = "deleted"
            \/ /\ outbox[p].status = "new"
               /\ outbox'[p].status \in {"draft", "scheduled"}
            \/ /\ outbox[p].status \in {"draft", "scheduled", "failed"}
               /\ outbox'[p].status = "scheduled"
            \/ /\ outbox[p].status = "scheduled"
               /\ outbox'[p].status = "draft"
            \/ /\ outbox[p].status \in {"draft", "scheduled", "failed"}
               /\ outbox'[p].status = outbox[p].status
               /\ outbox'[p].lastError = outbox[p].lastError
         /\ unchangedByHandler
<1> USE DEF TypeOK, OutboxRow, OutboxStatus, NoRowStatus, canTransition, Exists
<1> USE DEF OUTBOX_TRANSITIONS
<1>1. ASSUME NEW b \in Bodies, NEW at \in {NULL} \cup Times, create(p, b, at)
      PROVE  outbox[p].status = "new" /\ outbox'[p].status \in {"draft", "scheduled"}
  BY <1>1 DEF create
<1>2. ASSUME NEW b \in Bodies, update(p, b)
      PROVE  /\ outbox[p].status \in {"draft", "scheduled", "failed"}
             /\ outbox'[p].status = outbox[p].status
             /\ outbox'[p].lastError = outbox[p].lastError
  BY <1>2 DEF update
<1>3. ASSUME NEW at \in Times, schedule(p, at)
      PROVE  outbox[p].status \in {"draft", "failed"} /\ outbox'[p].status = "scheduled"
  BY <1>3 DEF schedule, transition
<1>4. ASSUME NEW at \in Times, retry(p, at)
      PROVE  outbox[p].status \in {"draft", "failed"} /\ outbox'[p].status = "scheduled"
  BY <1>4 DEF retry, transition
<1>5. ASSUME unschedule(p)
      PROVE  outbox[p].status = "scheduled" /\ outbox'[p].status = "draft"
  BY <1>5 DEF unschedule, transition
<1>6. ASSUME NEW at \in Times, reschedule(p, at)
      PROVE  outbox[p].status \in {"scheduled", "failed"} /\ outbox'[p].status = "scheduled"
  BY <1>6 DEF reschedule
<1>7. ASSUME delete(p)
      PROVE  outbox[p].status \in OutboxStatus /\ outbox'[p].status = "deleted"
  BY <1>7 DEF delete, NoRow
<1>8. \A q \in Posts : q # p => outbox'[q] = outbox[q]
  BY DEF Handler, create, update, schedule, retry, unschedule, transition, reschedule, delete
<1>9. unchangedByHandler
  BY DEF Handler, create, update, schedule, retry, unschedule, transition, reschedule, delete
<1> QED
  BY <1>1, <1>2, <1>3, <1>4, <1>5, <1>6, <1>7, <1>8, <1>9 DEF Handler

\* A publish that advances keeps its post and content; the others stay as they are.
LEMMA AdvanceEffect ==
  ASSUME TypeOK, NEW j \in jobs, NEW ph, NEW at, Advance(j, ph, at)
  PROVE  /\ j.post \in Posts
         /\ \E n \in jobs' : /\ n.post = j.post /\ n.body = j.body /\ n.tick = j.tick
                             /\ n.phase = ph
                             /\ jobs' = (jobs \ {j}) \cup {n}
<1> DEFINE n == [j EXCEPT !.phase = ph, !.attempt = at]
<1>1. j \in Job
  BY DEF TypeOK
<1>2. n.post = j.post /\ n.body = j.body /\ n.tick = j.tick /\ n.phase = ph
  BY <1>1 DEF Job
<1>3. jobs' = (jobs \ {j}) \cup {n} /\ n \in jobs'
  BY DEF Advance
<1>4. j.post \in Posts
  BY <1>1 DEF Job
<1> HIDE DEF n
<1> QED
  BY <1>2, <1>3, <1>4

\* When a publish ends, every one that is left was there before, with the same
\* post, content and phase, and no two of them were one.
LEMMA EndsEffect ==
  ASSUME TypeOK, NEW j \in jobs, returns(j) \/ throws(j)
  PROVE  \E f \in [jobs' -> jobs \ {j}] :
           /\ \A k \in jobs' : f[k].post = k.post /\ f[k].body = k.body /\ f[k].phase = k.phase
           /\ ExclusiveClaim => \A k, l \in jobs' : f[k] = f[l] => k = l
<1>1. CASE jobs' = jobs \ {j}
  <2> DEFINE f == [k \in jobs' |-> k]
  <2>1. f \in [jobs' -> jobs \ {j}]
    BY <1>1
  <2>2. \A k \in jobs' : f[k] = k
    OBVIOUS
  <2> HIDE DEF f
  <2> QED
    BY <2>1, <2>2
<1>2. CASE jobs' = {[k EXCEPT !.tick = "orphan"] : k \in jobs \ {j}}
  <2> DEFINE o(k) == [k EXCEPT !.tick = "orphan"]
             f == [k \in jobs' |-> CHOOSE m \in jobs \ {j} : k = o(m)]
  <2>1. \A k \in jobs' : f[k] \in jobs \ {j} /\ k = o(f[k])
    BY <1>2
  <2>2. \A m \in jobs : o(m).post = m.post /\ o(m).body = m.body /\ o(m).phase = m.phase
    BY DEF TypeOK, Job
  <2>3. f \in [jobs' -> jobs \ {j}]
    BY <2>1
  <2> HIDE DEF f, o
  <2> QED
    BY <2>1, <2>2, <2>3
<1> QED
  BY <1>1, <1>2 DEF returns, throws

-----------------------------------------------------------------------------
(* Exclusive claims.                                                       *)

LEMMA ExclusiveEnds ==
  ASSUME TypeOK, ExclusiveClaim, NEW j \in jobs, returns(j) \/ throws(j),
         \A k \in jobs \ {j} : outbox'[k.post] = outbox[k.post]
  PROVE  ExclusiveClaim'
<1>1. PICK f \in [jobs' -> jobs \ {j}] :
           /\ \A k \in jobs' : f[k].post = k.post /\ f[k].body = k.body /\ f[k].phase = k.phase
           /\ ExclusiveClaim => \A k, l \in jobs' : f[k] = f[l] => k = l
  BY EndsEffect
<1>2. \A k \in jobs' : f[k] \in jobs \ {j}
  BY <1>1
<1> QED
  BY <1>1, <1>2 DEF ExclusiveClaim

\* A row other than the ending publish's own belongs to another post.
LEMMA OtherRows ==
  ASSUME ExclusiveClaim, TypeOK, NEW j \in jobs, markPublished(j) \/ markFailed(j)
  PROVE  \A k \in jobs \ {j} : outbox'[k.post] = outbox[k.post]
<1> SUFFICES ASSUME NEW k \in jobs \ {j} PROVE outbox'[k.post] = outbox[k.post]
  OBVIOUS
<1>1. k.post # j.post /\ k.post \in Posts
  BY DEF ExclusiveClaim, TypeOK, Job
<1> QED
  BY <1>1 DEF markPublished, markFailed, TypeOK

LEMMA ExclusiveStep == TypeOK /\ ExclusiveClaim /\ [Next]_vars => ExclusiveClaim'
<1> SUFFICES ASSUME TypeOK, ExclusiveClaim, [Next]_vars PROVE ExclusiveClaim'
  OBVIOUS
<1>0. \A j \in jobs : j.post \in Posts
  BY DEF TypeOK, Job
<1>1. ASSUME NEW p \in Posts, Handler(p) PROVE ExclusiveClaim'
  BY <1>0, <1>1, HandlerEffect DEF unchangedByHandler, ExclusiveClaim
<1>2. ASSUME runTick PROVE ExclusiveClaim'
  <2>1. PICK S \in Batches(Due) \ {{}} : outbox' = ClaimedRows(S) /\ jobs' = jobs \cup NewJobs(S)
    BY <1>2 DEF runTick
  <2>2. \A p \in S : p \in Posts /\ outbox[p].status = "scheduled"
    BY DEF Batches, Due
  <2>3. \A p \in Posts : outbox'[p].status = IF p \in S THEN "publishing" ELSE outbox[p].status
    BY <2>1 DEF ClaimedRows, TypeOK, OutboxRow
  <2>4. \A j \in NewJobs(S) : j.post \in S /\ \A k \in NewJobs(S) : j.post = k.post => j = k
    BY DEF NewJobs
  <2>5. \A j \in jobs : j.post \notin S
    BY <2>2 DEF ExclusiveClaim
  <2> QED
    BY <1>0, <2>1, <2>2, <2>3, <2>4, <2>5 DEF ExclusiveClaim
<1>3. ASSUME NEW j \in jobs, platformAccepts(j) \/ retryLater(j) \/ wake(j) \/ landInDlq(j)
      PROVE  ExclusiveClaim'
  <2>1. PICK ph, at : Advance(j, ph, at)
    BY <1>3 DEF platformAccepts, retryLater, wake, landInDlq
  <2>2. PICK n \in jobs' : n.post = j.post /\ jobs' = (jobs \ {j}) \cup {n}
    BY <2>1, AdvanceEffect
  <2>3. outbox' = outbox
    BY <1>3 DEF platformAccepts, retryLater, wake, landInDlq
  <2> QED
    BY <2>2, <2>3 DEF ExclusiveClaim
<1>4. ASSUME NEW j \in jobs, markPublished(j) \/ markFailed(j) PROVE ExclusiveClaim'
  <2>1. returns(j) \/ throws(j)
    BY <1>4 DEF markPublished, markFailed
  <2> QED
    BY <1>4, <2>1, OtherRows, ExclusiveEnds
<1>5. ASSUME stop \/ start \/ clock \/ UNCHANGED vars PROVE ExclusiveClaim'
  BY <1>5 DEF stop, start, clock, vars, ExclusiveClaim
<1>6. ASSUME exit PROVE ExclusiveClaim'
  BY <1>6 DEF exit, ExclusiveClaim
<1> QED
  BY <1>1, <1>2, <1>3, <1>4, <1>5, <1>6 DEF Next, JobStep

\* No interleaving of ticks (overlapping ones included), handlers, timers, answers
\* and restarts ever gives a post two publishes at once, or lets anything but
\* deletion take its row out of "publishing" under the publish that claimed it.
THEOREM ClaimsAreExclusive == Spec => []ExclusiveClaim
<1>1. Init => ExclusiveClaim
  BY DEF Init, ExclusiveClaim
<1> QED
  BY <1>1, TypeCorrect, ExclusiveStep, PTL DEF Spec

-----------------------------------------------------------------------------
(* What a row says of the platform and of the dead letters.                *)

\* A claim's snapshot is the row's content while it is publishing; an accepted
\* publish put that content on the platform; a landed one left a dead letter.
ClaimInv ==
  \A j \in jobs :
    /\ outbox[j.post].status = "publishing" => j.body = outbox[j.post].body
    /\ j.phase = "accepted" => j.body \in live[j.post] /\ copies[j.post] > 0
    /\ j.phase = "landed" => j.post \in dlq

RowInv == ExclusiveClaim /\ ClaimInv /\ PublishedAsWritten /\ FailedIsDeadLettered

LEMMA RowTick == ASSUME TypeOK, RowInv, runTick PROVE RowInv'
<1>1. PICK S \in Batches(Due) \ {{}} : outbox' = ClaimedRows(S) /\ jobs' = jobs \cup NewJobs(S)
  BY DEF runTick
<1>2. \A p \in S : p \in Posts /\ outbox[p].status = "scheduled"
  BY DEF Batches, Due
<1>3. \A p \in Posts : IF p \in S
                        THEN outbox'[p].status = "publishing" /\ outbox'[p].body = outbox[p].body
                        ELSE outbox'[p] = outbox[p]
  BY <1>1 DEF ClaimedRows, TypeOK, OutboxRow
<1>4. \A j \in NewJobs(S) : j.post \in S /\ j.body = outbox[j.post].body /\ j.phase = "calling"
  BY DEF NewJobs
<1>5. \A j \in jobs : j.post \in Posts /\ j.post \notin S
  BY <1>2 DEF RowInv, ExclusiveClaim, TypeOK, Job
<1>6. live' = live /\ dlq' = dlq /\ copies' = copies
  BY DEF runTick
<1>7. ClaimInv'
  BY <1>1, <1>2, <1>3, <1>4, <1>5, <1>6 DEF RowInv, ClaimInv
<1>8. PublishedAsWritten' /\ FailedIsDeadLettered'
  BY <1>3, <1>6 DEF RowInv, PublishedAsWritten, FailedIsDeadLettered
<1> QED
  BY <1>7, <1>8, ExclusiveStep DEF RowInv, Next

LEMMA RowHandler == ASSUME TypeOK, RowInv, NEW p \in Posts, Handler(p) PROVE RowInv'
<1>1. \A j \in jobs : j.post \in Posts
  BY DEF TypeOK, Job
<1>2. ClaimInv'
  BY <1>1, HandlerEffect DEF RowInv, ClaimInv, ExclusiveClaim, unchangedByHandler
<1>3. PublishedAsWritten'
  BY HandlerEffect DEF RowInv, PublishedAsWritten, unchangedByHandler
<1>4. FailedIsDeadLettered'
  BY HandlerEffect DEF RowInv, FailedIsDeadLettered, unchangedByHandler
<1> QED
  BY <1>2, <1>3, <1>4, ExclusiveStep DEF RowInv, Next

LEMMA RowAdvance ==
  ASSUME TypeOK, RowInv, NEW j \in jobs,
         platformAccepts(j) \/ retryLater(j) \/ wake(j) \/ landInDlq(j)
  PROVE  RowInv'
<1>1. PICK ph, at : Advance(j, ph, at) /\ (ph = "accepted" => platformAccepts(j))
                                       /\ (ph = "landed" => landInDlq(j))
  BY DEF platformAccepts, retryLater, wake, landInDlq
<1>2. PICK n \in jobs' : /\ n.post = j.post /\ n.body = j.body /\ n.phase = ph
                         /\ jobs' = (jobs \ {j}) \cup {n}
  BY <1>1, AdvanceEffect
<1>3. outbox' = outbox
  BY DEF platformAccepts, retryLater, wake, landInDlq
<1>4. \A q \in Posts : live[q] \subseteq live'[q]
  BY DEF platformAccepts, retryLater, wake, landInDlq, TypeOK
<1>5. dlq \subseteq dlq'
  BY DEF platformAccepts, retryLater, wake, landInDlq
<1>6. \A k \in jobs : k.post \in Posts
  BY DEF TypeOK, Job
<1>7. ph = "accepted" => j.body \in live'[j.post] /\ copies'[j.post] > 0
  BY <1>1, <1>6 DEF platformAccepts, TypeOK
<1>8. ph = "landed" => j.post \in dlq'
  BY <1>1 DEF landInDlq
<1>9. ClaimInv'
  <2>1. \A q \in Posts : copies[q] > 0 => copies'[q] > 0
    BY <1>6 DEF platformAccepts, retryLater, wake, landInDlq, TypeOK
  <2> QED
    BY <1>2, <1>3, <1>4, <1>5, <1>6, <1>7, <1>8, <2>1 DEF RowInv, ClaimInv
<1>10. PublishedAsWritten' /\ FailedIsDeadLettered'
  BY <1>3, <1>4, <1>5 DEF RowInv, PublishedAsWritten, FailedIsDeadLettered
<1> QED
  BY <1>9, <1>10, ExclusiveStep DEF RowInv, Next, JobStep

LEMMA RowEnds ==
  ASSUME TypeOK, RowInv, NEW j \in jobs, markPublished(j) \/ markFailed(j)
  PROVE  RowInv'
<1>0. j.post \in Posts /\ outbox[j.post] \in OutboxRow
  BY DEF TypeOK, Job
<1>1. live' = live /\ dlq' = dlq /\ copies' = copies
  BY DEF markPublished, markFailed
<1>2. returns(j) \/ throws(j)
  BY DEF markPublished, markFailed
<1>3. PICK f \in [jobs' -> jobs \ {j}] :
        \A k \in jobs' : f[k].post = k.post /\ f[k].body = k.body /\ f[k].phase = k.phase
  BY <1>2, EndsEffect
<1>4. \A k \in jobs \ {j} : outbox'[k.post] = outbox[k.post]
  BY OtherRows DEF RowInv
<1>5. ClaimInv'
  <2>1. \A k \in jobs' : f[k] \in jobs \ {j}
    BY <1>3
  <2> QED
    BY <1>1, <1>3, <1>4, <2>1 DEF RowInv, ClaimInv
<1>6. \A q \in Posts : q # j.post => outbox'[q] = outbox[q]
  BY DEF markPublished, markFailed, TypeOK
<1>7. CASE markPublished(j)
  <2>1. ASSUME ~canTransition(j.post, "published")
        PROVE  PublishedAsWritten' /\ FailedIsDeadLettered'
    BY <1>1, <1>7, <2>1 DEF markPublished, RowInv, PublishedAsWritten, FailedIsDeadLettered
  <2>2. ASSUME canTransition(j.post, "published")
        PROVE  PublishedAsWritten' /\ FailedIsDeadLettered'
    <3>1. outbox[j.post].status = "publishing"
      BY <2>2 DEF canTransition, Exists, OutboxStatus, OUTBOX_TRANSITIONS
    <3>2. outbox'[j.post].status = "published" /\ outbox'[j.post].body = outbox[j.post].body
      <4>1. outbox'[j.post] = [outbox[j.post] EXCEPT !.status = "published", !.lastError = "none"]
        BY <1>0, <1>7, <2>2 DEF markPublished, TypeOK
      <4> QED
        BY <1>0, <4>1 DEF OutboxRow
    <3>3. j.body = outbox[j.post].body /\ j.body \in live[j.post]
      BY <1>7, <3>1 DEF RowInv, ClaimInv, markPublished
    <3> QED
      BY <1>1, <1>6, <3>2, <3>3 DEF RowInv, PublishedAsWritten, FailedIsDeadLettered
  <2>4. PublishedAsWritten' /\ FailedIsDeadLettered'
    BY <2>1, <2>2
  <2> QED
    BY <1>5, <1>7, <2>4, ExclusiveStep DEF RowInv, Next, JobStep
<1>8. CASE markFailed(j)
  <2>1. j.post \in dlq
    BY <1>8 DEF markFailed, RowInv, ClaimInv
  <2>2. ASSUME ~canTransition(j.post, "failed")
        PROVE  PublishedAsWritten' /\ FailedIsDeadLettered'
    BY <1>1, <1>8, <2>2 DEF markFailed, RowInv, PublishedAsWritten, FailedIsDeadLettered
  <2>3. ASSUME canTransition(j.post, "failed")
        PROVE  PublishedAsWritten' /\ FailedIsDeadLettered'
    <3>1. outbox'[j.post].status = "failed" /\ outbox'[j.post].lastError = "error"
      <4>1. outbox'[j.post] = [outbox[j.post] EXCEPT !.status = "failed", !.lastError = "error",
                                                     !.attempts = j.attempt]
        BY <1>0, <1>8, <2>3 DEF markFailed, TypeOK
      <4> QED
        BY <1>0, <4>1 DEF OutboxRow
    <3> QED
      BY <1>1, <1>6, <2>1, <3>1 DEF RowInv, PublishedAsWritten, FailedIsDeadLettered
  <2> QED
    BY <1>5, <1>8, <2>2, <2>3, ExclusiveStep DEF RowInv, Next, JobStep
<1> QED
  BY <1>7, <1>8

LEMMA RowStep == TypeOK /\ RowInv /\ [Next]_vars => RowInv'
<1> SUFFICES ASSUME TypeOK, RowInv, [Next]_vars PROVE RowInv'
  OBVIOUS
<1>1. ASSUME stop \/ start \/ clock \/ UNCHANGED vars PROVE RowInv'
  BY <1>1 DEF stop, start, clock, vars, RowInv, ExclusiveClaim, ClaimInv, PublishedAsWritten,
              FailedIsDeadLettered
<1>2. ASSUME exit PROVE RowInv'
  BY <1>2 DEF exit, RowInv, ExclusiveClaim, ClaimInv, PublishedAsWritten, FailedIsDeadLettered
<1> QED
  BY <1>1, <1>2, RowTick, RowHandler, RowAdvance, RowEnds DEF Next, JobStep

LEMMA RowAlways == Spec => []RowInv
<1>1. Init => RowInv
  BY DEF Init, RowInv, ExclusiveClaim, ClaimInv, PublishedAsWritten, FailedIsDeadLettered, NoRow
<1> QED
  BY <1>1, TypeCorrect, RowStep, PTL DEF Spec

\* A row that reads "published" is on the platform with the content it shows,
\* whatever edits, retries, lost answers and restarts came before.
THEOREM PublishedRowsAreLive == Spec => []PublishedAsWritten
  BY RowAlways, PTL DEF RowInv

\* A row that reads "failed" has its dead letter and its error, even after a
\* restart in the middle of the failure handling.
THEOREM FailedRowsAreDeadLettered == Spec => []FailedIsDeadLettered
  BY RowAlways, PTL DEF RowInv

-----------------------------------------------------------------------------
(* At most one copy, when an error from the platform means "not posted".   *)

\* A post that was not accepted is not on the platform: not while it waits in the
\* queue, and not while its publish is calling, sleeping or dead-lettered.
CopyInv ==
  /\ ExclusiveClaim
  /\ NoDoublePublish
  /\ UnsentIsNotLive
  /\ \A j \in jobs : j.phase # "accepted" => copies[j.post] = 0

LEMMA CopyStep == ~Lossy /\ TypeOK /\ CopyInv /\ [Next]_vars => CopyInv'
<1> SUFFICES ASSUME ~Lossy, TypeOK, CopyInv, [Next]_vars PROVE CopyInv'
  OBVIOUS
<1>0. ExclusiveClaim'
  BY ExclusiveStep DEF CopyInv
<1>1. \A j \in jobs : j.post \in Posts
  BY DEF TypeOK, Job
<1>2. ASSUME NEW p \in Posts, Handler(p) PROVE CopyInv'
  BY <1>0, <1>2, HandlerEffect
     DEF CopyInv, NoDoublePublish, UnsentIsNotLive, unchangedByHandler, TypeOK, OutboxRow
<1>3. ASSUME runTick PROVE CopyInv'
  <2>1. PICK S \in Batches(Due) \ {{}} : outbox' = ClaimedRows(S) /\ jobs' = jobs \cup NewJobs(S)
    BY <1>3 DEF runTick
  <2>2. \A p \in S : p \in Posts /\ outbox[p].status = "scheduled"
    BY DEF Batches, Due
  <2>3. \A p \in Posts : outbox'[p].status = IF p \in S THEN "publishing" ELSE outbox[p].status
    BY <2>1 DEF ClaimedRows, TypeOK, OutboxRow
  <2>4. \A j \in NewJobs(S) : copies[j.post] = 0
    BY <2>2 DEF NewJobs, CopyInv, UnsentIsNotLive
  <2>5. copies' = copies
    BY <1>3 DEF runTick
  <2> QED
    BY <1>0, <2>1, <2>3, <2>4, <2>5 DEF CopyInv, NoDoublePublish, UnsentIsNotLive
<1>4. ASSUME NEW j \in jobs, retryLater(j) \/ wake(j) \/ landInDlq(j) PROVE CopyInv'
  <2>1. j.phase # "accepted"
    BY <1>4 DEF retryLater, wake, landInDlq, AttemptFails
  <2>2. PICK ph, at : Advance(j, ph, at)
    BY <1>4 DEF retryLater, wake, landInDlq
  <2>3. PICK n \in jobs' : n.post = j.post /\ jobs' = (jobs \ {j}) \cup {n}
    BY <2>2, AdvanceEffect
  <2>4. outbox' = outbox /\ copies' = copies
    BY <1>4 DEF retryLater, wake, landInDlq
  <2> QED
    BY <1>0, <2>1, <2>3, <2>4 DEF CopyInv, NoDoublePublish, UnsentIsNotLive
<1>5. ASSUME NEW j \in jobs, platformAccepts(j) PROVE CopyInv'
  <2>1. copies[j.post] = 0
    BY <1>5 DEF platformAccepts, CopyInv
  <2>2. PICK n \in jobs' : /\ n.post = j.post /\ n.phase = "accepted"
                           /\ jobs' = (jobs \ {j}) \cup {n}
    BY <1>5, AdvanceEffect DEF platformAccepts
  <2>3. outbox' = outbox
    BY <1>5 DEF platformAccepts
  <2>4. copies' = [copies EXCEPT ![j.post] = 1]
    BY <1>1, <1>5, <2>1 DEF platformAccepts, TypeOK
  <2>5. \A q \in Posts : copies'[q] = IF q = j.post THEN 1 ELSE copies[q]
    BY <1>1, <2>4 DEF TypeOK
  <2>6. NoDoublePublish'
    BY <2>5 DEF CopyInv, NoDoublePublish
  <2>7. outbox[j.post].status \in {"publishing", "deleted"}
    BY DEF CopyInv, ExclusiveClaim
  <2>8. UnsentIsNotLive'
    BY <2>3, <2>5, <2>7 DEF CopyInv, UnsentIsNotLive
  <2>9. \A k \in jobs \ {j} : k.post # j.post
    BY DEF CopyInv, ExclusiveClaim
  <2> QED
    BY <1>0, <1>1, <2>2, <2>5, <2>6, <2>8, <2>9 DEF CopyInv
<1>6. ASSUME NEW j \in jobs, markPublished(j) \/ markFailed(j) PROVE CopyInv'
  <2>1. returns(j) \/ throws(j)
    BY <1>6 DEF markPublished, markFailed
  <2>2. PICK f \in [jobs' -> jobs \ {j}] :
          \A k \in jobs' : f[k].post = k.post /\ f[k].body = k.body /\ f[k].phase = k.phase
    BY <2>1, EndsEffect
  <2>3. \A k \in jobs' : f[k] \in jobs \ {j}
    BY <2>2
  <2>4. copies' = copies
    BY <1>6 DEF markPublished, markFailed
  <2>5. \A q \in Posts : q # j.post => outbox'[q] = outbox[q]
    BY <1>6 DEF markPublished, markFailed, TypeOK
  <2>6. markFailed(j) => copies[j.post] = 0
    BY DEF markFailed, CopyInv
  <2>7. markPublished(j) => outbox'[j.post].status \in {"published", "publishing", "deleted"}
    <3>1. outbox[j.post].status \in {"publishing", "deleted"} /\ outbox[j.post] \in OutboxRow
      BY <1>1 DEF CopyInv, ExclusiveClaim, TypeOK
    <3>2. CASE canTransition(j.post, "published")
      <4> SUFFICES ASSUME markPublished(j) PROVE outbox'[j.post].status = "published"
        OBVIOUS
      <4>1. outbox'[j.post] = [outbox[j.post] EXCEPT !.status = "published", !.lastError = "none"]
        BY <1>1, <3>2 DEF markPublished, TypeOK
      <4> QED
        BY <3>1, <4>1 DEF OutboxRow
    <3>3. CASE ~canTransition(j.post, "published")
      BY <3>1, <3>3 DEF markPublished
    <3> QED
      BY <3>2, <3>3
  <2>8. UnsentIsNotLive'
    BY <1>6, <2>4, <2>5, <2>6, <2>7 DEF CopyInv, UnsentIsNotLive
  <2> QED
    BY <1>0, <2>2, <2>3, <2>4, <2>8 DEF CopyInv, NoDoublePublish
<1>7. ASSUME stop \/ start \/ clock \/ UNCHANGED vars PROVE CopyInv'
  BY <1>7, <1>0 DEF stop, start, clock, vars, CopyInv, NoDoublePublish, UnsentIsNotLive
<1>8. ASSUME exit PROVE CopyInv'
  BY <1>8, <1>0 DEF exit, CopyInv, NoDoublePublish, UnsentIsNotLive
<1> QED
  BY <1>2, <1>3, <1>4, <1>5, <1>6, <1>7, <1>8 DEF Next, JobStep

LEMMA CopyAlways == ASSUME ~Lossy PROVE Spec => []CopyInv
<1>1. Init => CopyInv
  BY DEF Init, CopyInv, ExclusiveClaim, NoDoublePublish, UnsentIsNotLive
<1>2. TypeOK /\ CopyInv /\ [Next]_vars => CopyInv'
  BY CopyStep
<1> QED
  BY <1>1, <1>2, TypeCorrect, PTL DEF Spec

\* Provided a rejected publish means "not posted", the atomic claim alone rules
\* out double publishing: across overlapping ticks, manual retries, deletions and
\* restarts.  The scheduler's non-overlap guard is not needed for it.
THEOREM AtMostOneCopy == ASSUME ~Lossy PROVE Spec => []NoDoublePublish
  BY CopyAlways, PTL DEF CopyInv

\* Under the same assumption a post that the user can still edit or requeue is
\* never on the platform already.
THEOREM EditableIsNotLive == ASSUME ~Lossy PROVE Spec => []UnsentIsNotLive
  BY CopyAlways, PTL DEF CopyInv

-----------------------------------------------------------------------------
(* The non-overlap guard.                                                  *)

LEMMA GuardStep == TypeOK /\ GuardTracksTick /\ [Next]_vars => GuardTracksTick'
<1> SUFFICES ASSUME TypeOK, GuardTracksTick, [Next]_vars PROVE GuardTracksTick'
  OBVIOUS
<1> USE DEF GuardTracksTick
<1>1. ASSUME jobs' = jobs, running' = running PROVE GuardTracksTick'
  BY <1>1
<1>2. ASSUME NEW p \in Posts, Handler(p) PROVE GuardTracksTick'
  BY <1>1, <1>2, HandlerEffect DEF unchangedByHandler
<1>3. ASSUME runTick PROVE GuardTracksTick'
  <2>1. PICK S \in Batches(Due) \ {{}} : jobs' = jobs \cup NewJobs(S)
    BY <1>3 DEF runTick
  <2>2. PICK p \in S : TRUE
    BY <2>1
  <2>3. \E j \in NewJobs(S) : j.tick = "current"
    <3> DEFINE m == [post |-> p, body |-> outbox[p].body, attempt |-> 1, phase |-> "calling",
                     tick |-> "current"]
    <3>1. m \in NewJobs(S)
      BY DEF NewJobs
    <3>2. m.tick = "current"
      OBVIOUS
    <3> QED
      BY <3>1, <3>2
  <2>4. \E j \in jobs' : j.tick = "current"
    BY <2>1, <2>3
  <2>5. running' = TRUE
    BY <1>3 DEF runTick
  <2> QED
    BY <2>4, <2>5
<1>4. ASSUME NEW j \in jobs, NEW ph, NEW at, Advance(j, ph, at), running' = running
      PROVE  GuardTracksTick'
  <2>1. PICK n \in jobs' : n.tick = j.tick /\ jobs' = (jobs \ {j}) \cup {n}
    BY <1>4, AdvanceEffect
  <2>2. (\E k \in jobs' : k.tick = "current") <=> (\E k \in jobs : k.tick = "current")
    BY <2>1
  <2> QED
    BY <1>4, <2>2
<1>5. ASSUME NEW j \in jobs, platformAccepts(j) \/ retryLater(j) \/ wake(j) \/ landInDlq(j)
      PROVE  GuardTracksTick'
  BY <1>4, <1>5 DEF platformAccepts, retryLater, wake, landInDlq
<1>6. ASSUME NEW j \in jobs, returns(j) PROVE GuardTracksTick'
  <2>1. CASE j.tick = "current"
    BY <1>6, <2>1 DEF returns
  <2>2. CASE j.tick # "current"
    <3>1. (\E k \in jobs \ {j} : k.tick = "current") <=> (\E k \in jobs : k.tick = "current")
      BY <2>2
    <3> QED
      BY <1>6, <2>2, <3>1 DEF returns
  <2> QED
    BY <2>1, <2>2
<1>7. ASSUME NEW j \in jobs, throws(j) PROVE GuardTracksTick'
  <2>1. CASE j.tick = "current"
    <3>1. \A k \in jobs : [k EXCEPT !.tick = "orphan"].tick = "orphan"
      BY DEF TypeOK, Job
    <3>2. \A k \in jobs' : k.tick # "current"
      <4>1. jobs' = {[k EXCEPT !.tick = "orphan"] : k \in jobs \ {j}}
        BY <1>7, <2>1 DEF throws
      <4>2. \A k \in jobs' : \E m \in jobs : k = [m EXCEPT !.tick = "orphan"]
        BY <4>1
      <4> QED
        BY <3>1, <4>2
    <3>3. running' = FALSE
      BY <1>7, <2>1 DEF throws
    <3> QED
      BY <3>2, <3>3
  <2>2. CASE j.tick # "current"
    <3>1. (\E k \in jobs \ {j} : k.tick = "current") <=> (\E k \in jobs : k.tick = "current")
      BY <2>2
    <3> QED
      BY <1>7, <2>2, <3>1 DEF throws
  <2> QED
    BY <2>1, <2>2
<1>8. ASSUME NEW j \in jobs, markPublished(j) \/ markFailed(j) PROVE GuardTracksTick'
  BY <1>6, <1>7, <1>8 DEF markPublished, markFailed
<1>9. ASSUME exit PROVE GuardTracksTick'
  BY <1>9 DEF exit
<1>10. ASSUME stop \/ start \/ clock \/ UNCHANGED vars PROVE GuardTracksTick'
  BY <1>1, <1>10 DEF stop, start, clock, vars
<1> QED
  BY <1>2, <1>3, <1>5, <1>8, <1>9, <1>10 DEF Next, JobStep

\* The guard is never wedged and never released early: it is held exactly while
\* the current tick has a publish left, also after a publish threw.
THEOREM GuardIsNeverWedged == Spec => []GuardTracksTick
<1>1. Init => GuardTracksTick
  BY DEF Init, GuardTracksTick
<1> QED
  BY <1>1, TypeCorrect, GuardStep, PTL DEF Spec

-----------------------------------------------------------------------------
(* The outbox implements PostLifecycle.                                    *)

\* The set inFlight of the refinement mapping, after a publish advanced or ended.
LEMMA AdvancePosts ==
  ASSUME TypeOK, NEW j \in jobs, NEW ph, NEW at, Advance(j, ph, at)
  PROVE  {k.post : k \in jobs'} = {k.post : k \in jobs}
<1>1. PICK n \in jobs' : n.post = j.post /\ jobs' = (jobs \ {j}) \cup {n}
  BY AdvanceEffect
<1> QED
  BY <1>1

LEMMA EndsPosts ==
  ASSUME TypeOK, ExclusiveClaim, NEW j \in jobs, returns(j) \/ throws(j)
  PROVE  {k.post : k \in jobs'} = {k.post : k \in jobs} \ {j.post}
<1>1. {k.post : k \in jobs \ {j}} = {k.post : k \in jobs} \ {j.post}
  BY DEF ExclusiveClaim
<1>2. CASE jobs' = jobs \ {j}
  BY <1>1, <1>2
<1>3. CASE jobs' = {[k EXCEPT !.tick = "orphan"] : k \in jobs \ {j}}
  <2>1. \A k \in jobs : [k EXCEPT !.tick = "orphan"].post = k.post
    BY DEF TypeOK, Job
  <2>2. {k.post : k \in jobs'} = {k.post : k \in jobs \ {j}}
    <3> DEFINE o(k) == [k EXCEPT !.tick = "orphan"]
    <3>1. \A k \in jobs' : \E m \in jobs \ {j} : k = o(m)
      BY <1>3
    <3>2. \A m \in jobs \ {j} : o(m) \in jobs'
      BY <1>3
    <3>3. \A m \in jobs : o(m).post = m.post
      BY <2>1
    <3> HIDE DEF o
    <3> QED
      BY <3>1, <3>2, <3>3
  <2> QED
    BY <1>1, <2>2
<1> QED
  BY <1>2, <1>3 DEF returns, throws

LEMMA LifeStart == Init => Life!LifeInit
  BY DEF Init, Life!LifeInit, NoRow

LEMMA LifeHandler ==
  ASSUME TypeOK, NEW p \in Posts, Handler(p)
  PROVE  Life!LifeNext \/ UNCHANGED Life!lifeVars
<1> DEFINE st == [q \in Posts |-> outbox[q].status]
<1>0. outbox \in [Posts -> OutboxRow] /\ outbox[p].status \in OutboxStatus \cup NoRowStatus
  BY DEF TypeOK, OutboxRow
<1>1. jobs' = jobs /\ copies' = copies
  BY HandlerEffect DEF unchangedByHandler
<1>2. st' = [st EXCEPT ![p] = outbox'[p].status]
  BY HandlerEffect
<1>3. CASE outbox'[p].status = outbox[p].status
  <2>1. st' = st
    BY <1>2, <1>3
  <2> QED
    BY <1>1, <2>1 DEF Life!lifeVars
<1>4. CASE outbox'[p].status # outbox[p].status
  <2>1. outbox'[p].status \in {"draft", "scheduled", "deleted"}
    BY <1>4, HandlerEffect
  <2>2. <<outbox[p].status, outbox'[p].status>> \in Life!UserEdge
    BY <1>0, <1>4, HandlerEffect DEF Life!UserEdge, OutboxStatus
  <2>3. Life!UserMoves(p, outbox'[p].status)
    BY <1>1, <1>2, <2>2 DEF Life!UserMoves, Life!SetStatus
  <2> QED
    BY <2>1, <2>3 DEF Life!LifeNext
<1> QED
  BY <1>3, <1>4

LEMMA LifeTick ==
  ASSUME TypeOK, ExclusiveClaim, runTick
  PROVE  Life!LifeNext
<1>1. PICK S \in Batches(Due) \ {{}} : outbox' = ClaimedRows(S) /\ jobs' = jobs \cup NewJobs(S)
  BY DEF runTick
<1>2. \A p \in S : p \in Posts /\ outbox[p].status = "scheduled"
  BY DEF Batches, Due
<1>3. \A p \in Posts : outbox'[p].status = IF p \in S THEN "publishing" ELSE outbox[p].status
  BY <1>1 DEF ClaimedRows, TypeOK, OutboxRow
<1>4. \A p \in S : p \notin {j.post : j \in jobs}
  BY <1>2 DEF ExclusiveClaim
<1>5. {j.post : j \in jobs'} = {j.post : j \in jobs} \cup S
  <2> DEFINE m(p) == [post |-> p, body |-> outbox[p].body, attempt |-> 1, phase |-> "calling",
                      tick |-> "current"]
  <2>1. NewJobs(S) = {m(p) : p \in S}
    BY DEF NewJobs
  <2>2. \A p \in S : m(p).post = p
    OBVIOUS
  <2> HIDE DEF m
  <2> QED
    BY <1>1, <2>1, <2>2
<1>6. copies' = copies
  BY DEF runTick
<1>7. Life!Claim(S)
  BY <1>2, <1>3, <1>4, <1>5, <1>6 DEF Life!Claim
<1>8. S \in SUBSET Posts
  BY <1>2
<1> QED
  BY <1>7, <1>8 DEF Life!LifeNext

LEMMA LifeJob ==
  ASSUME TypeOK, RowInv, NEW j \in jobs, JobStep(j)
  PROVE  Life!LifeNext \/ UNCHANGED Life!lifeVars
<1>0. j.post \in Posts /\ j.post \in {k.post : k \in jobs}
  BY DEF TypeOK, Job
<1>1. CASE retryLater(j) \/ wake(j) \/ landInDlq(j)
  <2>1. PICK ph, at : Advance(j, ph, at)
    BY <1>1 DEF retryLater, wake, landInDlq
  <2>2. {k.post : k \in jobs'} = {k.post : k \in jobs}
    BY <2>1, AdvancePosts
  <2>3. outbox' = outbox /\ copies' = copies
    BY <1>1 DEF retryLater, wake, landInDlq
  <2> QED
    BY <2>2, <2>3 DEF Life!lifeVars
<1>2. CASE platformAccepts(j)
  <2>1. {k.post : k \in jobs'} = {k.post : k \in jobs}
    BY <1>2, AdvancePosts DEF platformAccepts
  <2>2. outbox' = outbox
    BY <1>2 DEF platformAccepts
  <2>3. {p \in Posts : copies'[p] > 0} = {p \in Posts : copies[p] > 0} \cup {j.post}
    BY <1>0, <1>2 DEF platformAccepts, TypeOK
  <2>4. Life!Appear(j.post)
    BY <1>0, <2>1, <2>2, <2>3 DEF Life!Appear
  <2> QED
    BY <1>0, <2>4 DEF Life!LifeNext
<1>3. CASE markPublished(j) \/ markFailed(j)
  <2> DEFINE st == [q \in Posts |-> outbox[q].status]
  <2>1. returns(j) \/ throws(j)
    BY <1>3 DEF markPublished, markFailed
  <2>2. {k.post : k \in jobs'} = {k.post : k \in jobs} \ {j.post}
    BY <2>1, EndsPosts DEF RowInv
  <2>3. copies' = copies
    BY <1>3 DEF markPublished, markFailed
  <2>4. outbox[j.post].status \in {"publishing", "deleted"} /\ outbox[j.post] \in OutboxRow
    BY <1>0 DEF RowInv, ExclusiveClaim, TypeOK
  <2>5. CASE outbox' = outbox
    <3>1. outbox[j.post].status = "deleted"
      <4>1. CASE outbox[j.post].status = "publishing"
        <5>1. canTransition(j.post, "published") /\ canTransition(j.post, "failed")
          BY <4>1 DEF canTransition, Exists, OutboxStatus, OUTBOX_TRANSITIONS
        <5>2. outbox'[j.post].status \in {"published", "failed"}
          <6>1. CASE markPublished(j)
            <7>1. outbox'[j.post] = [outbox[j.post] EXCEPT !.status = "published", !.lastError = "none"]
              BY <1>0, <5>1, <6>1 DEF markPublished, TypeOK
            <7> QED
              BY <2>4, <7>1 DEF OutboxRow
          <6>2. CASE markFailed(j)
            <7>1. outbox'[j.post] = [outbox[j.post] EXCEPT !.status = "failed", !.lastError = "error",
                                                           !.attempts = j.attempt]
              BY <1>0, <5>1, <6>2 DEF markFailed, TypeOK
            <7> QED
              BY <2>4, <7>1 DEF OutboxRow
          <6> QED
            BY <1>3, <6>1, <6>2
        <5> QED
          BY <2>5, <4>1, <5>2
      <4> QED
        BY <2>4, <4>1
    <3>2. Life!Abandon(j.post)
      BY <1>0, <2>2, <2>3, <2>5, <3>1 DEF Life!Abandon
    <3> QED
      BY <1>0, <3>2 DEF Life!LifeNext
  <2>6. CASE outbox' # outbox
    <3>1. outbox[j.post].status = "publishing"
      <4>1. canTransition(j.post, "published") \/ canTransition(j.post, "failed")
        BY <1>3, <2>6 DEF markPublished, markFailed
      <4> QED
        BY <2>4, <4>1 DEF canTransition, Exists, OutboxStatus
    <3>2. CASE markPublished(j)
      <4>1. outbox' = [outbox EXCEPT ![j.post] =
                         [outbox[j.post] EXCEPT !.status = "published", !.lastError = "none"]]
        BY <2>6, <3>2 DEF markPublished
      <4>2. outbox'[j.post].status = "published" /\ \A q \in Posts : q # j.post => outbox'[q] = outbox[q]
        BY <1>0, <2>4, <4>1 DEF TypeOK, OutboxRow
      <4>3. st' = [st EXCEPT ![j.post] = "published"]
        BY <1>0, <4>2
      <4>4. copies[j.post] > 0
        BY <3>2 DEF markPublished, RowInv, ClaimInv
      <4>5. Life!Publish(j.post)
        BY <1>0, <2>2, <2>3, <3>1, <4>3, <4>4 DEF Life!Publish, Life!SetStatus
      <4> QED
        BY <1>0, <4>5 DEF Life!LifeNext
    <3>3. CASE markFailed(j)
      <4>1. outbox' = [outbox EXCEPT ![j.post] =
                         [outbox[j.post] EXCEPT !.status = "failed", !.lastError = "error",
                                                !.attempts = j.attempt]]
        BY <2>6, <3>3 DEF markFailed
      <4>2. outbox'[j.post].status = "failed" /\ \A q \in Posts : q # j.post => outbox'[q] = outbox[q]
        BY <1>0, <2>4, <4>1 DEF TypeOK, OutboxRow
      <4>3. st' = [st EXCEPT ![j.post] = "failed"]
        BY <1>0, <4>2
      <4>4. Life!Fail(j.post)
        BY <1>0, <2>2, <2>3, <3>1, <4>3 DEF Life!Fail, Life!SetStatus
      <4> QED
        BY <1>0, <4>4 DEF Life!LifeNext
    <3> QED
      BY <1>3, <3>2, <3>3
  <2> QED
    BY <2>5, <2>6
<1> QED
  BY <1>1, <1>2, <1>3 DEF JobStep

LEMMA LifeStep == TypeOK /\ RowInv /\ [Next]_vars => [Life!LifeNext]_(Life!lifeVars)
<1> SUFFICES ASSUME TypeOK, RowInv, [Next]_vars
             PROVE  Life!LifeNext \/ UNCHANGED Life!lifeVars
  OBVIOUS
<1>1. CASE exit
  <2>1. Life!Forget
    BY <1>1 DEF exit, Life!Forget
  <2> QED
    BY <2>1 DEF Life!LifeNext
<1>2. CASE stop \/ start \/ clock \/ UNCHANGED vars
  BY <1>2 DEF stop, start, clock, vars, Life!lifeVars
<1> QED
  BY <1>1, <1>2, LifeHandler, LifeTick, LifeJob DEF Next, RowInv

\* Every behaviour of the outbox is one of PostLifecycle: rows move only along
\* OUTBOX_TRANSITIONS (or are created or deleted), posts reach the platform only
\* under an open claim, and a row is marked published only for a post that did.
THEOREM OutboxImplementsLifecycle == Spec => ImplementsLifecycle
<1>1. Spec => Life!LifeInit /\ [][Life!LifeNext]_(Life!lifeVars)
  BY LifeStart, LifeStep, TypeCorrect, RowAlways, PTL DEF Spec
<1> QED
  BY <1>1 DEF ImplementsLifecycle, Life!LifeSpec

-----------------------------------------------------------------------------
\* Under that assumption the rows tell what is on the platform.
THEOREM RowsAreTrusted == ASSUME ~Lossy PROVE Spec => []RowsMatchPlatform
  BY AtMostOneCopy, EditableIsNotLive, PTL DEF RowsMatchPlatform
=============================================================================
