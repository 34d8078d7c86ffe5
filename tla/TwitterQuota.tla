---------------------------- MODULE TwitterQuota -----------------------------
(***************************************************************************)
(* The monthly write quota of the X connector: the ledger                  *)
(* twitter_credit_usage (src/connectors/twitter/credit-tracker.ts), the    *)
(* guard over it (quota-guard.ts) and the writes that go through both      *)
(* (publisher.ts and dm.ts over dispatcher.ts).  A write checks the        *)
(* ledger, waits for its rate-limit slot, posts with retries, and is       *)
(* entered in the ledger when its answer is there.  Writes interleave      *)
(* between any two of these.                                               *)
(***************************************************************************)
EXTENDS Integers, FiniteSets

CONSTANTS
  Writes,       \* the calls of publish(), reply() and sendDm()
  Dms,          \* those of sendDm()
  Cap,          \* the tier's monthly cap
  WarnAt,       \* the usage at which the ratio reaches warnThreshold
  MaxMonth,     \* bound on the months that pass
  MaxTries,     \* attempts of dispatchWithDlq
  MaxRestarts   \* bound on the restarts of the process

ASSUME TwitterAssumption ==
  /\ Cap \in Nat \ {0} /\ WarnAt \in 1 .. Cap /\ MaxMonth \in Nat \ {0}
  /\ MaxTries \in Nat \ {0} /\ MaxRestarts \in Nat
  /\ IsFiniteSet(Writes) /\ Dms \subseteq Writes

VARIABLES
  write,      \* where each write is
  tries,    \* its attempt
  usage,     \* entries [write, month]; the dedupe key is the created tweet's id
  month,      \* the current UTC month
  fired,      \* TwitterQuotaGuard.warned and .blocked: [level, month]
  alerts,     \* the alerts sent since the process started: [level, month, n]
  together,   \* history: the writes in flight when the last one was admitted
  restarts

quotaVars == <<write, tries, usage, month, fired, alerts, together, restarts>>

Months == 1 .. MaxMonth
Level == {"warning", "exceeded"}
Phase == {"new", "blocked", "waiting", "calling", "answered", "recorded", "delivered", "failed"}
InFlightWrites == {"waiting", "calling", "answered"}

QuotaInit ==
  /\ write = [w \in Writes |-> "new"]
  /\ tries = [w \in Writes |-> 1]
  /\ usage = {}
  /\ month = 1
  /\ fired = {}
  /\ alerts = [k \in Level \X Months |-> 0]
  /\ together = 0
  /\ restarts = 0

-----------------------------------------------------------------------------

EntriesOf(entries, m) == {e \in entries : e.month = m}
UnderWay == {w \in Writes : write[w] \in InFlightWrites}
Used(entries, m) == Cardinality(EntriesOf(entries, m))

\* One alert per level and month: edge-triggered.
fire(level) ==
  /\ fired' = fired \cup {<<level, month>>}
  /\ alerts' = IF <<level, month>> \in fired THEN alerts
               ELSE [alerts EXCEPT ![<<level, month>>] = IF @ = 2 THEN 2 ELSE @ + 1]

ensureWithinQuota_OffByOne(w) ==
  /\ write[w] = "new"
  /\ IF Used(usage, month) > Cap
     THEN write' = [write EXCEPT ![w] = "blocked"] /\ fire("exceeded") /\ UNCHANGED together
     ELSE write' = [write EXCEPT ![w] = "waiting"] /\ UNCHANGED <<fired, alerts>>
          /\ together' = Cardinality(UnderWay) + 1
  /\ UNCHANGED <<tries, usage, month, restarts>>

\* Before the first await of a write: throws at the cap.
ensureWithinQuota(w) ==
  /\ write[w] = "new"
  /\ IF Used(usage, month) >= Cap
     THEN write' = [write EXCEPT ![w] = "blocked"] /\ fire("exceeded") /\ UNCHANGED together
     ELSE write' = [write EXCEPT ![w] = "waiting"] /\ UNCHANGED <<fired, alerts>>
          /\ together' = Cardinality(UnderWay) + 1
  /\ UNCHANGED <<tries, usage, month, restarts>>

Moves(w, phase) ==
  /\ write' = [write EXCEPT ![w] = phase]
  /\ UNCHANGED <<usage, month, fired, alerts, together, restarts>>

\* broker.acquire is answered; a denied slot lands in the DLQ and fails the write.
acquired(w) ==
  /\ write[w] = "waiting"
  /\ Moves(w, "calling") \/ Moves(w, "failed")
  /\ UNCHANGED tries

\* X creates the tweet; its answer is on the way.
creates(w) ==
  /\ write[w] = "calling"
  /\ Moves(w, "answered")
  /\ UNCHANGED tries

\* The attempt fails, with or without a tweet: a transient error is tried again, up
\* to MaxAttempts.
attemptFails(w) ==
  /\ write[w] \in {"calling", "answered"}
  /\ \/ tries[w] < MaxTries /\ Moves(w, "calling")
        /\ tries' = [tries EXCEPT ![w] = @ + 1]
     \/ Moves(w, "failed") /\ UNCHANGED tries

\* An answer without an id is no entry: a post has failed, a DM is taken as delivered.
noId(w) ==
  /\ write[w] = "answered"
  /\ Moves(w, IF w \in Dms THEN "delivered" ELSE "failed")
  /\ UNCHANGED tries

\* The answer arrives: the ledger entry, and the alert its new usage calls for.
recordWrite(w) ==
  LET used == Used(usage', month) IN
  /\ write[w] = "answered"
  /\ write' = [write EXCEPT ![w] = "recorded"]
  /\ usage' = usage \cup {[write |-> w, month |-> month]}
  /\ IF used >= Cap THEN fire("exceeded")
     ELSE IF used >= WarnAt THEN fire("warning") ELSE UNCHANGED <<fired, alerts>>
  /\ UNCHANGED <<tries, month, together, restarts>>

rollover ==
  /\ month < MaxMonth
  /\ month' = month + 1
  /\ UNCHANGED <<write, tries, usage, fired, alerts, together, restarts>>

\* The ledger survives; the guard's memory and the writes under way do not.
quotaRestart ==
  /\ restarts < MaxRestarts
  /\ restarts' = restarts + 1
  /\ write' = [w \in Writes |-> IF write[w] \in InFlightWrites THEN "failed" ELSE write[w]]
  /\ fired' = {}
  /\ alerts' = [k \in Level \X Months |-> 0]
  /\ UNCHANGED <<tries, usage, month, together>>

QuotaNext ==
  \/ \E w \in Writes : \/ ensureWithinQuota(w)
                       \/ acquired(w)
                       \/ creates(w)
                       \/ attemptFails(w)
                       \/ noId(w)
                       \/ recordWrite(w)
  \/ rollover
  \/ quotaRestart

QuotaSpec == QuotaInit /\ [][QuotaNext]_quotaVars

-----------------------------------------------------------------------------
(* Properties.                                                             *)

\* The ledger, the guard and the writes keep their shape.
QuotaTypeOK ==
  /\ write \in [Writes -> Phase]
  /\ tries \in [Writes -> 1 .. MaxTries]
  /\ usage \subseteq [write : Writes, month : Months]
  /\ month \in Months
  /\ fired \subseteq Level \X Months
  /\ alerts \in [Level \X Months -> 0 .. 2]
  /\ together \in Nat
  /\ restarts \in 0 .. MaxRestarts

\* A write is in the ledger once at most, and exactly if it succeeded with an id: no
\* retry and no month end inflates or loses usage.  Only a DM succeeds without one, and
\* is not counted.
LedgerIsExact ==
  /\ QuotaTypeOK
  /\ \A w \in Writes :
       /\ Cardinality({e \in usage : e.write = w}) = IF write[w] = "recorded" THEN 1 ELSE 0
       /\ write[w] = "delivered" => w \in Dms

\* Each threshold is announced once a month while the process runs, and usage at the
\* cap, whichever write took it there, was announced unless a restart forgot it.
CapIsAnnouncedOnce ==
  \A m \in Months :
    /\ \A l \in Level : alerts[<<l, m>>] <= 1
    /\ restarts = 0 /\ Used(usage, m) >= Cap => alerts[<<"exceeded", m>>] = 1

\* The connector "fails closed rather than incurring overage" (docs/ARCHITECTURE.md:635)
\* but for writes in flight together: the cap is never overshot by more than one
\* less than there were when the last write was let through.
OvershootIsConcurrent ==
  Used(usage, month) + Cardinality(UnderWay) <= Cap - 1 + together

\* The month's writes that have ids are counted, announced and capped, whatever retries,
\* restarts and writes in flight meet.
QuotaIsKept == LedgerIsExact /\ CapIsAnnouncedOnce /\ OvershootIsConcurrent
=============================================================================
