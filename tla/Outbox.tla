------------------------------- MODULE Outbox -------------------------------
(***************************************************************************)
(* The outbox of openzigs-social: the table `outbox` and its repository    *)
(* (src/outbox/repository.ts), the HTTP handlers that edit it              *)
(* (src/server/outbox/router.ts), the poller that publishes due posts      *)
(* (src/outbox/poller.ts) through the shared retry helper                  *)
(* (src/platform/retry), and the cron driver (src/outbox/scheduler.ts).    *)
(*                                                                         *)
(* The server is one Node process.  A handler and every stretch of the     *)
(* poller between two awaits runs to completion, so each is one step; the  *)
(* steps of different publishes, of the handlers and of the cron           *)
(* interleave.  The process may stop between any two steps; the tables     *)
(* survive it, the in-flight publishes do not.                             *)
(***************************************************************************)
EXTENDS Integers, FiniteSets

CONSTANTS
  Posts,        \* ids AUTOINCREMENT can hand out; an id is never handed out twice
  Bodies,       \* post contents that validatePost accepts
  MaxTime,      \* bound on the clock
  MaxAttempts,  \* schedule.length + 1 publish attempts per claim
  BatchSize,    \* config.outbox.batchSize
  Lossy,        \* may a publish be reported as failed after the platform took it?
  MaxStops      \* bound on how often the process exits or is killed

ASSUME OutboxAssumption ==
  /\ Bodies # {}
  /\ MaxTime \in Nat \ {0}
  /\ MaxAttempts \in Nat \ {0}
  /\ BatchSize \in Nat \ {0}
  /\ Lossy \in BOOLEAN
  /\ MaxStops \in Nat

VARIABLES
  outbox,    \* the table: one row per id
  dlq,       \* ids with a dead letter in outbox_dlq
  jobs,      \* the publishOne calls in flight
  running,   \* OutboxScheduler.running
  proc,      \* "serving", "closing" (close() was called) or "down"
  stops,     \* how often the process went down
  now,       \* the clock
  copies,    \* how many copies of a post the platform holds: 0, 1, 2 = "several"
  live       \* the contents under which the platform holds it

vars == <<outbox, dlq, jobs, running, proc, stops, now, copies, live>>

Times == 1 .. MaxTime
NULL == 0
OutboxStatus == {"draft", "scheduled", "publishing", "published", "failed"}
\* "new": the id was not handed out yet; "deleted": its row was removed.
NoRowStatus == {"new", "deleted"}

OutboxRow ==
  [status : OutboxStatus \cup NoRowStatus, publishAt : {NULL} \cup Times,
   body : Bodies, lastError : {"none", "error"}, attempts : Nat]

Phase == {"calling", "accepted", "sleeping", "landed"}
Job == [post : Posts, body : Bodies, attempt : 1 .. MaxAttempts, phase : Phase,
        tick : {"current", "orphan"}]

\* A row that is not in the table; its other columns mean nothing.
NoRow(status) == [status |-> status, publishAt |-> NULL, body |-> CHOOSE b \in Bodies : TRUE,
                  lastError |-> "none", attempts |-> 0]

Init ==
  /\ outbox = [p \in Posts |-> NoRow("new")]
  /\ dlq = {}
  /\ jobs = {}
  /\ running = FALSE
  /\ proc = "serving"
  /\ stops = 0
  /\ now = 1
  /\ copies = [p \in Posts |-> 0]
  /\ live = [p \in Posts |-> {}]

-----------------------------------------------------------------------------
(* The repository and the handlers of /api/outbox.                         *)

OUTBOX_TRANSITIONS_Republish ==
  [draft |-> {"scheduled"},
   scheduled |-> {"draft", "publishing"},
   publishing |-> {"published", "failed"},
   published |-> {"scheduled"},
   failed |-> {"scheduled"}]

OUTBOX_TRANSITIONS ==
  [draft |-> {"scheduled"},
   scheduled |-> {"draft", "publishing"},
   publishing |-> {"published", "failed"},
   published |-> {},
   failed |-> {"scheduled"}]

Exists(p) == outbox[p].status \in OutboxStatus

canTransition(p, to) == Exists(p) /\ to \in OUTBOX_TRANSITIONS[outbox[p].status]

\* dispatchWithDlq returns and publishOne resumes within one macrotask: no
\* handler, timer or response runs between the dead letter and markFailed.
MicrotaskPending == \E j \in jobs : j.phase = "landed"

Macrotask == proc # "down" /\ ~MicrotaskPending

unchangedByHandler == UNCHANGED <<dlq, jobs, running, proc, stops, now, copies, live>>

create(p, body, at) ==
  /\ Macrotask
  /\ outbox[p].status = "new"
  /\ outbox' = [outbox EXCEPT ![p] =
       [status |-> IF at = NULL THEN "draft" ELSE "scheduled", publishAt |-> at,
        body |-> body, lastError |-> "none", attempts |-> 0]]
  /\ unchangedByHandler

update_WhilePublishing(p, body) ==
  /\ Macrotask
  /\ Exists(p)
  /\ outbox[p].status # "published"
  /\ outbox' = [outbox EXCEPT ![p].body = body]
  /\ unchangedByHandler

update(p, body) ==
  /\ Macrotask
  /\ Exists(p)
  /\ outbox[p].status \notin {"publishing", "published"}
  /\ outbox' = [outbox EXCEPT ![p].body = body]
  /\ unchangedByHandler

transition(p, to, at, clearError) ==
  /\ Macrotask
  /\ canTransition(p, to)
  /\ outbox' = [outbox EXCEPT ![p] =
       [@ EXCEPT !.status = to, !.publishAt = at,
                 !.lastError = IF clearError THEN "none" ELSE outbox[p].lastError]]
  /\ unchangedByHandler

schedule(p, at) == transition(p, "scheduled", at, FALSE)

unschedule(p) == transition(p, "draft", NULL, FALSE)

\* The handler's default time, Date.now(), is one of the times at.
retry(p, at) == transition(p, "scheduled", at, TRUE)

reschedule_AnyStatus(p, at) ==
  /\ Macrotask
  /\ Exists(p)
  /\ outbox' = [outbox EXCEPT ![p] =
       [@ EXCEPT !.status = "scheduled", !.publishAt = at, !.lastError = "none"]]
  /\ unchangedByHandler

reschedule(p, at) ==
  /\ Macrotask
  /\ outbox[p].status \in {"scheduled", "failed"}
  /\ outbox' = [outbox EXCEPT ![p] =
       [@ EXCEPT !.status = "scheduled", !.publishAt = at, !.lastError = "none"]]
  /\ unchangedByHandler

delete(p) ==
  /\ Macrotask
  /\ Exists(p)
  /\ outbox' = [outbox EXCEPT ![p] = NoRow("deleted")]
  /\ unchangedByHandler

-----------------------------------------------------------------------------
(* The scheduler and the poller.                                           *)

Due == {p \in Posts : /\ outbox[p].status = "scheduled"
                      /\ outbox[p].publishAt # NULL
                      /\ outbox[p].publishAt <= now}

\* The batches the claim's ORDER BY publish_at LIMIT may select from due.
Batches(due) ==
  {S \in SUBSET due :
     /\ Cardinality(S) = IF Cardinality(due) < BatchSize THEN Cardinality(due) ELSE BatchSize
     /\ \A p \in S, q \in due \ S : outbox[p].publishAt <= outbox[q].publishAt}

ClaimedRows(S) ==
  [p \in Posts |-> IF p \in S
                   THEN [outbox[p] EXCEPT !.status = "publishing", !.attempts = @ + 1]
                   ELSE outbox[p]]

NewJobs(S) ==
  {[post |-> p, body |-> outbox[p].body, attempt |-> 1, phase |-> "calling",
    tick |-> "current"] : p \in S}

runTick_NoFlip ==
  /\ proc = "serving" /\ ~MicrotaskPending
  /\ ~running
  /\ \E S \in Batches(Due) \ {{}} : jobs' = jobs \cup NewJobs(S)
  /\ running' = TRUE
  /\ UNCHANGED <<outbox, dlq, proc, stops, now, copies, live>>

\* runTick, OutboxPoller.tick and claimDue up to the first await.  A tick that
\* finds nothing due returns with running reset and changes no state.
runTick ==
  /\ proc = "serving" /\ ~MicrotaskPending
  /\ ~running
  /\ \E S \in Batches(Due) \ {{}} :
       /\ outbox' = ClaimedRows(S)
       /\ jobs' = jobs \cup NewJobs(S)
  /\ running' = TRUE
  /\ UNCHANGED <<dlq, proc, stops, now, copies, live>>

Advance(j, phase, attempt) ==
  jobs' = (jobs \ {j}) \cup {[j EXCEPT !.phase = phase, !.attempt = attempt]}

\* The platform creates the post; its answer is still on the way.
platformAccepts(j) ==
  /\ proc # "down" /\ ~MicrotaskPending
  /\ j.phase = "calling"
  /\ Advance(j, "accepted", j.attempt)
  /\ copies' = [copies EXCEPT ![j.post] = IF @ = 2 THEN 2 ELSE @ + 1]
  /\ live' = [live EXCEPT ![j.post] = @ \cup {j.body}]
  /\ UNCHANGED <<outbox, dlq, running, proc, stops, now>>

\* publish() rejects: the platform refused, no token, no publisher, or (Lossy)
\* the answer to a post that was created never arrived.
AttemptFails(j) == j.phase = "calling" \/ (Lossy /\ j.phase = "accepted")

\* retry(): every error is transient for the poller, so it sleeps and tries again.
retryLater(j) ==
  /\ Macrotask
  /\ AttemptFails(j)
  /\ j.attempt < MaxAttempts
  /\ Advance(j, "sleeping", j.attempt)
  /\ UNCHANGED <<outbox, dlq, running, proc, stops, now, copies, live>>

wake(j) ==
  /\ Macrotask
  /\ j.phase = "sleeping"
  /\ j.attempt < MaxAttempts
  /\ Advance(j, "calling", j.attempt + 1)
  /\ UNCHANGED <<outbox, dlq, running, proc, stops, now, copies, live>>

landInDlq_Nothing(j) ==
  /\ Macrotask
  /\ AttemptFails(j)
  /\ j.attempt = MaxAttempts
  /\ Advance(j, "landed", j.attempt)
  /\ UNCHANGED <<outbox, dlq, running, proc, stops, now, copies, live>>

\* dispatchWithDlq after the last attempt: the dead letter lands first.
landInDlq(j) ==
  /\ Macrotask
  /\ AttemptFails(j)
  /\ j.attempt = MaxAttempts
  /\ Advance(j, "landed", j.attempt)
  /\ dlq' = dlq \cup {j.post}
  /\ UNCHANGED <<outbox, running, proc, stops, now, copies, live>>

\* publishOne returns.  The tick, and with it running, ends with its last publish.
returns(j) ==
  LET rest == jobs \ {j} IN
  /\ jobs' = rest
  /\ running' = IF j.tick = "current" THEN \E k \in rest : k.tick = "current" ELSE running

throws_NoFinally(j) ==
  LET rest == jobs \ {j} IN
  /\ jobs' = rest
  /\ running' = running

\* publishOne throws.  Promise.all rejects at the first throw: the tick ends,
\* running is reset, and the publishes it still waited for go on unobserved, as
\* orphans.  The outcome of an orphan reaches nobody.
throws(j) ==
  LET rest == jobs \ {j} IN
  IF j.tick = "current"
  THEN /\ jobs' = {[k EXCEPT !.tick = "orphan"] : k \in rest}
       /\ running' = FALSE
  ELSE /\ jobs' = rest
       /\ running' = running

markPublished(j) ==
  /\ Macrotask
  /\ j.phase = "accepted"
  /\ IF canTransition(j.post, "published")
     THEN /\ outbox' = [outbox EXCEPT ![j.post] =
                          [@ EXCEPT !.status = "published", !.lastError = "none"]]
          /\ returns(j)
     ELSE UNCHANGED outbox /\ throws(j)
  /\ UNCHANGED <<dlq, proc, stops, now, copies, live>>

markFailed(j) ==
  /\ proc # "down"
  /\ j.phase = "landed"
  /\ IF canTransition(j.post, "failed")
     THEN /\ outbox' = [outbox EXCEPT ![j.post] =
                          [@ EXCEPT !.status = "failed", !.lastError = "error",
                                    !.attempts = j.attempt]]
          /\ returns(j)
     ELSE UNCHANGED outbox /\ throws(j)
  /\ UNCHANGED <<dlq, proc, stops, now, copies, live>>

-----------------------------------------------------------------------------
(* The process and the clock.                                              *)

\* close(): the cron task stops; publishes in flight go on until the exit.
stop ==
  /\ proc = "serving" /\ ~MicrotaskPending
  /\ stops < MaxStops
  /\ proc' = "closing"
  /\ UNCHANGED <<outbox, dlq, jobs, running, stops, now, copies, live>>

\* The process exits after close(), or is killed at any point.
exit ==
  /\ proc # "down"
  /\ stops < MaxStops
  /\ proc' = "down"
  /\ stops' = stops + 1
  /\ jobs' = {}
  /\ running' = FALSE
  /\ UNCHANGED <<outbox, dlq, now, copies, live>>

start ==
  /\ proc = "down"
  /\ proc' = "serving"
  /\ UNCHANGED <<outbox, dlq, jobs, running, stops, now, copies, live>>

clock ==
  /\ now < MaxTime
  /\ now' = now + 1
  /\ UNCHANGED <<outbox, dlq, jobs, running, proc, stops, copies, live>>

Handler(p) ==
  \/ \E b \in Bodies : (\E at \in {NULL} \cup Times : create(p, b, at)) \/ update(p, b)
  \/ \E at \in Times : schedule(p, at) \/ retry(p, at) \/ reschedule(p, at)
  \/ unschedule(p)
  \/ delete(p)

JobStep(j) ==
  \/ platformAccepts(j)
  \/ retryLater(j)
  \/ wake(j)
  \/ landInDlq(j)
  \/ markPublished(j)
  \/ markFailed(j)

Next ==
  \/ \E p \in Posts : Handler(p)
  \/ runTick
  \/ \E j \in jobs : JobStep(j)
  \/ stop
  \/ exit
  \/ start
  \/ clock

Spec == Init /\ [][Next]_vars

\* The cron fires again and again, awaited calls and timers settle, and the clock
\* advances.  No handler need be called.
Fairness ==
  /\ WF_vars(runTick)
  /\ WF_vars(clock)
  /\ \A p \in Posts : WF_vars(\E j \in jobs : j.post = p /\ JobStep(j))

LiveSpec == Spec /\ Fairness

-----------------------------------------------------------------------------
(* Properties.                                                             *)

\* The tables, the publishes in flight and the counters keep their shape.
TypeOK ==
  /\ outbox \in [Posts -> OutboxRow]
  /\ dlq \subseteq Posts
  /\ jobs \subseteq Job
  /\ running \in BOOLEAN
  /\ proc \in {"serving", "closing", "down"}
  /\ stops \in 0 .. MaxStops
  /\ now \in Times
  /\ copies \in [Posts -> 0 .. 2]
  /\ live \in [Posts -> SUBSET Bodies]

\* claimDue hands a post to one publishOne at a time: no two publishes of a post
\* are in flight, and its row stays in "publishing" until that one settles it,
\* whatever ticks, handlers and timers do meanwhile (unless the row is deleted).
ExclusiveClaim ==
  /\ \A j, k \in jobs : j.post = k.post => j = k
  /\ \A j \in jobs : outbox[j.post].status \in {"publishing", "deleted"}

\* "Double-publish impossible" (scheduler.ts:9): the platform never holds two
\* copies of a post.  It needs a platform whose errors mean "not posted".
NoDoublePublish == \A p \in Posts : copies[p] <= 1

\* A row says "published" only when the platform holds the post with the content
\* the row shows: an edit cannot slip between the claim's snapshot and markPublished.
PublishedAsWritten ==
  \A p \in Posts : outbox[p].status = "published" => outbox[p].body \in live[p]

\* A row says "failed" only with a dead letter on record and an error to show,
\* even if the process died between the dead letter and markFailed.
FailedIsDeadLettered ==
  \A p \in Posts : outbox[p].status = "failed" => p \in dlq /\ outbox[p].lastError = "error"

\* The non-overlap guard is never wedged: it is held exactly while a tick still
\* waits for one of its publishes.
GuardTracksTick == running <=> \E j \in jobs : j.tick = "current"

\* A post the user sees as not yet out (draft, scheduled, failed) is not on the
\* platform; again only if an error means "not posted".
UnsentIsNotLive ==
  \A p \in Posts :
    outbox[p].status \in {"new", "draft", "scheduled", "failed"} => copies[p] = 0

\* The outbox keeps the promises of PostLifecycle: ticks, attempts, the guard,
\* dead letters and restarts are only a way of working through that machine.
Life == INSTANCE PostLifecycle WITH
  status <- [p \in Posts |-> outbox[p].status],
  inFlight <- {j.post : j \in jobs},
  onPlatform <- {p \in Posts : copies[p] > 0}

ImplementsLifecycle == Life!LifeSpec

\* While the server is up, a due post, or one that a publish works on, is settled: a
\* tick claims it and its publish leaves the row published, failed or gone, whatever
\* fails and whatever the handlers change.  (A row left in "publishing" by a process
\* that ended has no publish: nothing settles it.)
DueIsSettled ==
  \A p \in Posts :
    ((p \in Due \/ \E j \in jobs : j.post = p) /\ proc = "serving")
      ~> (\/ proc # "serving"
          \/ p \notin Due /\ outbox[p].status # "publishing" /\ \A j \in jobs : j.post # p)

\* What the rows say of the platform is so: one copy at most of any post, and none
\* of a post that the user may still edit, requeue or schedule.
RowsMatchPlatform == NoDoublePublish /\ UnsentIsNotLive
=============================================================================
