------------------------------ MODULE RateLimit ------------------------------
(***************************************************************************)
(* One platform of the rate-limit broker (src/platform/rate-limit): a      *)
(* token bucket, a hard quota and the warning at 80 % utilisation.         *)
(* acquire() checks the quota once, then sleeps until the bucket can pay;  *)
(* other calls run while it sleeps.                                        *)
(*                                                                         *)
(* Tokens and costs are counted in units of what one tick of the clock     *)
(* refills.  The code refills when it looks at the bucket, here the clock  *)
(* does: what a look finds is the same capped sum.                         *)
(***************************************************************************)
EXTENDS Integers

CONSTANTS
  Calls,       \* the acquire() and tryAcquire() calls
  Costs,       \* opts.cost, in units
  Timeouts,    \* opts.timeoutMs, in ticks
  Capacity,    \* of the bucket, in units
  WarnAt,      \* the units used at which utilisation reaches warnThreshold
  Quota,       \* the hard quota, in units
  MaxTime      \* bound on the clock

ASSUME RateLimitAssumption ==
  /\ Capacity \in Nat \ {0} /\ WarnAt \in 1 .. Capacity /\ Quota \in Nat /\ MaxTime \in Nat
  /\ Costs \subseteq Nat \ {0} /\ Costs # {} /\ Timeouts \subseteq Nat

VARIABLES
  tokens,          \* in the bucket
  quotaRemaining,
  warned,          \* PlatformState.warned
  warnings,        \* how many warnings were emitted
  call,            \* per call: where it is, and with what
  now,
  spent,           \* history: units granted so far
  spentAsleep      \* history: those granted to calls that had slept

rateVars == <<tokens, quotaRemaining, warned, warnings, call, now, spent, spentAsleep>>

Outcome == {"granted", "quota", "timeout"}
CallState ==
  [at : {"new", "sleeping"} \cup Outcome, cost : Costs, deadline : Nat, wakeAt : Nat]

RateInit ==
  /\ tokens = Capacity
  /\ quotaRemaining = Quota
  /\ warned = FALSE
  /\ warnings = 0
  /\ call = [c \in Calls |-> [at |-> "new", cost |-> CHOOSE k \in Costs : TRUE,
                              deadline |-> 0, wakeAt |-> 0]]
  /\ now = 0
  /\ spent = 0
  /\ spentAsleep = 0

-----------------------------------------------------------------------------

High(left) == Capacity - left >= WarnAt

\* maybeWarn with left tokens in the bucket: the flag follows the utilisation, and
\* a warning goes out when it rises from w.
Emits(w, left) == IF High(left) /\ ~w THEN 1 ELSE 0

Ends(c, entry, outcome) == call' = [call EXCEPT ![c] = [entry EXCEPT !.at = outcome]]

\* tryConsume succeeds: bucket and quota pay, the new utilisation is looked at.
consume(c, entry) ==
  /\ tokens >= entry.cost
  /\ tokens' = tokens - entry.cost
  /\ quotaRemaining' = quotaRemaining - entry.cost
  /\ warned' = High(tokens - entry.cost)
  /\ spent' = spent + entry.cost
  /\ Ends(c, entry, "granted")

msUntilAvailable(cost) == cost - tokens

waitOrGiveUp_NoDeadline(c, entry) ==
  /\ tokens < entry.cost
  /\ call' = [call EXCEPT ![c] =
       [entry EXCEPT !.at = "sleeping", !.wakeAt = now + msUntilAvailable(entry.cost)]]
  /\ UNCHANGED <<tokens, quotaRemaining, spent, spentAsleep>>

\* It fails: sleep for as long as the refill takes, unless that passes the deadline.
waitOrGiveUp(c, entry) ==
  LET remaining == entry.deadline - now
      waitMs == msUntilAvailable(entry.cost) IN
  /\ tokens < entry.cost
  /\ IF remaining <= 0 \/ waitMs > remaining
     THEN Ends(c, entry, "timeout")
     ELSE call' = [call EXCEPT ![c] =
            [entry EXCEPT !.at = "sleeping", !.wakeAt = now + waitMs]]
  /\ UNCHANGED <<tokens, quotaRemaining, spent, spentAsleep>>

\* The calls that start now; their deadlines lie within the bound of the clock.
Entries == [at : {"new"}, cost : Costs,
            deadline : {now + t : t \in Timeouts} \cap 0 .. MaxTime, wakeAt : {0}]

denyQuota(c, entry) ==
  /\ quotaRemaining < entry.cost
  /\ Ends(c, entry, "quota")
  /\ UNCHANGED <<tokens, quotaRemaining, warned, warnings, spent, spentAsleep>>

\* The utilisation is looked at before and after.
grantAtOnce(c, entry) ==
  /\ consume(c, entry)
  /\ warnings' = warnings + Emits(warned, tokens) + Emits(High(tokens), tokens - entry.cost)
  /\ UNCHANGED spentAsleep

looksOnly ==
  /\ warned' = High(tokens)
  /\ warnings' = warnings + Emits(warned, tokens)

\* acquire() up to its first await.
acquire(c, entry) ==
  /\ call[c].at = "new"
  /\ \/ denyQuota(c, entry)
     \/ quotaRemaining >= entry.cost /\ grantAtOnce(c, entry)
     \/ quotaRemaining >= entry.cost /\ waitOrGiveUp(c, entry) /\ looksOnly
  /\ UNCHANGED now

tryAcquire_NoQuota(c, entry) ==
  /\ call[c].at = "new"
  /\ grantAtOnce(c, entry)
  /\ UNCHANGED now

tryAcquire(c, entry) ==
  /\ call[c].at = "new"
  /\ \/ denyQuota(c, entry)
     \/ quotaRemaining >= entry.cost /\ grantAtOnce(c, entry)
     \/ /\ quotaRemaining >= entry.cost
        /\ tokens < entry.cost
        /\ Ends(c, entry, "timeout")
        /\ looksOnly
        /\ UNCHANGED <<tokens, quotaRemaining, spent, spentAsleep>>
  /\ UNCHANGED now

\* The sleep ends, at its time or later, and the loop tries again; the utilisation
\* is looked at only after it paid.
wakes(c) ==
  /\ call[c].at = "sleeping"
  /\ now >= call[c].wakeAt
  /\ \/ /\ consume(c, call[c])
        /\ warnings' = warnings + Emits(warned, tokens - call[c].cost)
        /\ spentAsleep' = spentAsleep + call[c].cost
     \/ waitOrGiveUp(c, call[c]) /\ UNCHANGED <<warned, warnings>>
  /\ UNCHANGED now

clock ==
  /\ now < MaxTime
  /\ now' = now + 1
  /\ tokens' = IF tokens < Capacity THEN tokens + 1 ELSE Capacity
  /\ UNCHANGED <<quotaRemaining, warned, warnings, call, spent, spentAsleep>>

RateNext ==
  \/ \E c \in Calls : \/ \E e \in Entries : acquire(c, e) \/ tryAcquire(c, e)
                      \/ wakes(c)
  \/ clock

RateSpec == RateInit /\ [][RateNext]_rateVars

\* Time passes and setTimeout callbacks run.
LiveRateSpec == RateSpec /\ WF_rateVars(clock) /\ \A c \in Calls : WF_rateVars(wakes(c))

-----------------------------------------------------------------------------
(* Properties.                                                             *)

\* The bucket holds neither less than nothing nor more than its capacity; the
\* calls keep their shape.
RateTypeOK ==
  /\ tokens \in 0 .. Capacity
  /\ quotaRemaining \in Int
  /\ warned \in BOOLEAN
  /\ warnings \in Nat
  /\ call \in [Calls -> CallState]
  /\ now \in Nat
  /\ spent \in Nat
  /\ spentAsleep \in Nat

\* However calls, sleeps and wake-ups interleave, at most one full bucket and what
\* has been refilled since the start is granted, and the bucket never goes negative.
WithinBudget == RateTypeOK /\ tokens + spent <= Capacity + now

\* While usage is at the threshold the flag is set, whichever call pushed it there.
HighUseIsWarned == High(tokens) => warned

\* The quota is overdrawn by no more than went to calls that slept after their check.
OverdraftIsSlept == quotaRemaining + spentAsleep >= 0

\* Every call that waits is answered.
Answered == \A c \in Calls : (call[c].at = "sleeping") ~> (call[c].at \in Outcome)

\* No interleaving of calls, sleeps and wake-ups spends what the bucket, its warning
\* or the quota does not account for.
BudgetIsKept == WithinBudget /\ HighUseIsWarned /\ OverdraftIsSlept
=============================================================================
