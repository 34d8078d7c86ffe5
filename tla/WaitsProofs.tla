----------------------------- MODULE WaitsProofs -----------------------------
(* Proofs about what callers wait for and what is metered: the rate-limit    *)
(* broker, YouTube's daily quota, the chats with a language model, and the   *)
(* specification in which they rest beside each other.                       *)
EXTENDS MCWaits, Induction

(***************************************************************************)
(* The rate-limit broker.                                                  *)
(***************************************************************************)
\* A call asleep was let past the quota and can be paid for.
RateInv == BudgetIsKept

LEMMA RateStart == RateInit => RateInv
<1> SUFFICES ASSUME RateInit PROVE RateInv
  OBVIOUS
<1>1. RateTypeOK
  <2>1. (CHOOSE k \in Costs : TRUE) \in Costs
    BY RateLimitAssumption
  <2>2. call \in [Calls -> CallState]
    BY <2>1 DEF RateInit, CallState
  <2>3. tokens = Capacity /\ quotaRemaining = Quota /\ warned = FALSE /\ warnings = 0 /\ now = 0 /\ spent = 0 /\ spentAsleep = 0
    BY DEF RateInit
  <2>4. tokens \in 0 .. Capacity /\ quotaRemaining \in Int
    BY <2>3, RateLimitAssumption
  <2>5. warned \in BOOLEAN
    BY <2>3, Zenon
  <2> QED
    BY <2>2, <2>3, <2>4, <2>5 DEF RateTypeOK
<1> QED
  BY <1>1, RateLimitAssumption DEF RateInit, RateInv, BudgetIsKept, WithinBudget, HighUseIsWarned, OverdraftIsSlept, High

\* What a call is asked for is a cost and a deadline; it ends, or sleeps until later.
LEMMA CallKeepsShape ==
  ASSUME RateInv, NEW c \in Calls, NEW cost \in Costs, NEW deadline \in Nat, NEW wakeAt \in Nat,
         NEW at \in {"new", "sleeping"} \cup Outcome,
         call' = [call EXCEPT ![c] = [at |-> at, cost |-> cost, deadline |-> deadline, wakeAt |-> wakeAt]]
  PROVE  call' \in [Calls -> CallState]
  BY DEF RateInv, BudgetIsKept, WithinBudget, RateTypeOK, CallState

LEMMA EndsKeepsShape ==
  ASSUME RateInv, NEW c \in Calls, NEW e \in CallState, NEW at \in Outcome, Ends(c, e, at)
  PROVE  call' \in [Calls -> CallState]
  BY DEF RateInv, BudgetIsKept, WithinBudget, RateTypeOK, CallState, Ends

\* A call asks for something, and for no more than what a full bucket may come to.
LEMMA EntryHasShape == ASSUME RateInv, NEW e \in Entries PROVE e \in CallState
  BY RateLimitAssumption DEF RateInv, BudgetIsKept, WithinBudget, RateTypeOK, Entries, CallState

\* A payment leaves bucket and quota within what was given out.
LEMMA ConsumeStep ==
  ASSUME RateInv, NEW c \in Calls, NEW e \in CallState, consume(c, e), UNCHANGED now,
         \/ quotaRemaining >= e.cost /\ UNCHANGED spentAsleep
         \/ spentAsleep' = spentAsleep + e.cost,
         warnings' \in Nat
  PROVE  RateInv'
<1> USE DEF RateInv, BudgetIsKept
<1>1. e.cost \in Nat \ {0}
  BY RateLimitAssumption DEF CallState
<1>2. call' \in [Calls -> CallState]
  BY EndsKeepsShape DEF consume, Outcome
<1>3. RateTypeOK'
  BY <1>1, <1>2, RateLimitAssumption DEF consume, WithinBudget, RateTypeOK, High
<1>4. WithinBudget'
  BY <1>1, <1>3, RateLimitAssumption DEF consume, WithinBudget, RateTypeOK
<1>5. HighUseIsWarned'
  BY DEF consume, HighUseIsWarned, High
<1>6. OverdraftIsSlept'
  BY <1>1 DEF consume, OverdraftIsSlept, WithinBudget, RateTypeOK
<1> QED
  BY <1>4, <1>5, <1>6

\* A call that is not paid leaves the bucket alone; the flag follows its use.
LEMMA UnpaidStep ==
  ASSUME RateInv, UNCHANGED <<tokens, quotaRemaining, spent, spentAsleep, now>>,
         call' \in [Calls -> CallState], warned' = warned \/ warned' = High(tokens), warnings' \in Nat
  PROVE  RateInv'
<1>h. High(tokens) \in BOOLEAN
  BY DEF High
<1>w. warned \in BOOLEAN
  BY DEF RateInv, BudgetIsKept, WithinBudget, RateTypeOK
<1>1. warned' \in BOOLEAN
  BY <1>h, <1>w, Zenon
<1> USE DEF RateInv, BudgetIsKept
<1>2. RateTypeOK'
  BY <1>1 DEF WithinBudget, RateTypeOK
<1> QED
  BY <1>2 DEF WithinBudget, RateTypeOK, HighUseIsWarned, OverdraftIsSlept, High

LEMMA WarningsCount == ASSUME RateInv, NEW w, NEW l, NEW v, NEW m PROVE warnings + Emits(w, l) \in Nat /\ warnings + Emits(w, l) + Emits(v, m) \in Nat
<1>1. Emits(w, l) \in {0, 1} /\ Emits(v, m) \in {0, 1}
  BY DEF Emits
<1> QED
  BY <1>1 DEF RateInv, BudgetIsKept, WithinBudget, RateTypeOK

LEMMA WaitKeepsShape ==
  ASSUME RateInv, NEW c \in Calls, NEW e \in CallState, waitOrGiveUp(c, e)
  PROVE  call' \in [Calls -> CallState] /\ UNCHANGED <<tokens, quotaRemaining, spent, spentAsleep>>
<1>1. CASE e.deadline - now <= 0 \/ msUntilAvailable(e.cost) > e.deadline - now
  BY <1>1, EndsKeepsShape DEF waitOrGiveUp, Outcome
<1>2. CASE ~ (e.deadline - now <= 0 \/ msUntilAvailable(e.cost) > e.deadline - now)
  <2>1. now + msUntilAvailable(e.cost) \in Nat
    BY RateLimitAssumption DEF waitOrGiveUp, msUntilAvailable, RateInv, BudgetIsKept, WithinBudget, RateTypeOK, CallState
  <2>2. [e EXCEPT !.at = "sleeping", !.wakeAt = now + msUntilAvailable(e.cost)] \in CallState
    BY <2>1 DEF CallState
  <2>3. call' = [call EXCEPT ![c] = [e EXCEPT !.at = "sleeping", !.wakeAt = now + msUntilAvailable(e.cost)]]
        /\ UNCHANGED <<tokens, quotaRemaining, spent, spentAsleep>>
    BY <1>2 DEF waitOrGiveUp
  <2> QED
    BY <2>2, <2>3 DEF RateInv, BudgetIsKept, WithinBudget, RateTypeOK
<1> QED
  BY <1>1, <1>2

\* A call that starts: acquire() or tryAcquire().
LEMMA StartStep ==
  ASSUME RateInv, NEW c \in Calls, NEW e \in Entries, acquire(c, e) \/ tryAcquire(c, e)
  PROVE  RateInv'
<1>1. e \in CallState /\ UNCHANGED now
  BY EntryHasShape DEF acquire, tryAcquire
<1>2. warnings \in Nat
  BY DEF RateInv, BudgetIsKept, WithinBudget, RateTypeOK
<1>3. CASE denyQuota(c, e)
  BY <1>1, <1>2, <1>3, EndsKeepsShape, UnpaidStep DEF denyQuota, Outcome
<1>4. CASE quotaRemaining >= e.cost /\ grantAtOnce(c, e)
  BY <1>1, <1>4, WarningsCount, ConsumeStep DEF grantAtOnce
<1>5. CASE waitOrGiveUp(c, e) /\ looksOnly
  BY <1>1, <1>5, WarningsCount, WaitKeepsShape, UnpaidStep DEF looksOnly
<1>6. CASE Ends(c, e, "timeout") /\ looksOnly /\ UNCHANGED <<tokens, quotaRemaining, spent, spentAsleep>>
  BY <1>1, <1>6, WarningsCount, EndsKeepsShape, UnpaidStep DEF looksOnly, Outcome
<1> QED
  BY <1>3, <1>4, <1>5, <1>6 DEF acquire, tryAcquire

LEMMA WakeStep == ASSUME RateInv, NEW c \in Calls, wakes(c) PROVE RateInv'
<1>1. call[c] \in CallState /\ warnings \in Nat
  BY DEF RateInv, BudgetIsKept, WithinBudget, RateTypeOK
<1>2. CASE consume(c, call[c]) /\ warnings' = warnings + Emits(warned, tokens - call[c].cost) /\ spentAsleep' = spentAsleep + call[c].cost
  BY <1>1, <1>2, WarningsCount, ConsumeStep DEF wakes
<1>3. CASE waitOrGiveUp(c, call[c]) /\ UNCHANGED <<warned, warnings>>
  BY <1>1, <1>3, WaitKeepsShape, UnpaidStep DEF wakes
<1> QED
  BY <1>2, <1>3 DEF wakes

LEMMA ClockStep == ASSUME RateInv, clock PROVE RateInv'
<1> USE DEF RateInv, BudgetIsKept
<1>1. RateTypeOK'
  BY RateLimitAssumption DEF clock, WithinBudget, RateTypeOK
<1>2. WithinBudget'
  BY <1>1, RateLimitAssumption DEF clock, WithinBudget, RateTypeOK
<1>3. HighUseIsWarned'
  BY RateLimitAssumption DEF clock, HighUseIsWarned, High, WithinBudget, RateTypeOK
<1>4. OverdraftIsSlept'
  BY DEF clock, OverdraftIsSlept
<1> QED
  BY <1>2, <1>3, <1>4

LEMMA RateStep == RateInv /\ [RateNext]_rateVars => RateInv'
<1> SUFFICES ASSUME RateInv, [RateNext]_rateVars PROVE RateInv'
  OBVIOUS
<1>1. CASE UNCHANGED rateVars
  BY <1>1 DEF rateVars, RateInv, BudgetIsKept, WithinBudget, RateTypeOK, HighUseIsWarned, OverdraftIsSlept, High
<1> QED
  BY <1>1, StartStep, WakeStep, ClockStep DEF RateNext

\* For any calls, costs, timeouts and clock: at most one bucket and the refills are
\* given out, heavy use is announced, and the quota is overdrawn by sleepers alone.
THEOREM BudgetIsAlwaysKept == RateSpec => []BudgetIsKept
  BY RateStart, RateStep, PTL DEF RateSpec, RateInv

(***************************************************************************)
(* YouTube's daily quota.                                                  *)
(***************************************************************************)
MeterState == [at : {"new", "queued", "notifying", "done", "failed"}, cost : Nat, day : UtcDays]

YouTubeTyped ==
  /\ today \in UtcDays /\ quota_units \in [UtcDays -> Nat] /\ alert_sent \subseteq UtcDays
  /\ meter \in [YouTubeCalls -> MeterState]
  /\ shown \in [UtcDays -> Nat] /\ marred \subseteq UtcDays /\ alerting \in BOOLEAN

\* What the calls were charged, by call.
CostOf == [c \in YouTubeCalls |-> meter[c].cost]

LedgerAddsUp == Total(quota_units, UtcDays) = Total(CostOf, YouTubeCalls)

\* Days to come are not charged, and none beyond its ceiling; a call that was not
\* charged has no cost, and one put off has its row.
ChargesAreOrderly ==
  /\ \A d \in UtcDays : quota_units[d] <= YOUTUBE_DAILY_QUOTA /\ (d > today => quota_units[d] = 0)
  /\ \A c \in YouTubeCalls :
       /\ meter[c].at \in {"new", "queued"} => meter[c].cost = 0
       /\ meter[c].at = "queued" => \E p \in laterPosts : p.of = c

\* Of a day on which no alerts met or failed: one alert is under way, or was shown and
\* set the flag, or none is due.
AlertsAreOrderly ==
  \A d \in UtcDays \ marred :
    /\ \/ shown[d] = 1 /\ d \in alert_sent /\ Notifying(d) = {}
       \/ shown[d] = 0 /\ d \notin alert_sent /\ \A b, c \in Notifying(d) : b = c
    /\ alerting /\ 10 * quota_units[d] >= 8 * YOUTUBE_DAILY_QUOTA => shown[d] = 1 \/ Notifying(d) # {}

YouTubeInv == YouTubeTyped /\ LedgerAddsUp /\ ChargesAreOrderly /\ AlertsAreOrderly

LEMMA Days ==
  /\ IsFiniteSet(UtcDays) /\ UtcDays \subseteq Nat /\ 0 \in UtcDays
  /\ {YOUTUBE_DAILY_QUOTA, READ_COST, WRITE_COST} \subseteq Nat
  /\ YOUTUBE_DAILY_QUOTA > 0
  /\ \A cost \in {READ_COST, WRITE_COST} : cost \in Nat /\ 10 * cost < 8 * YOUTUBE_DAILY_QUOTA
<1>1. MaxDay \in Nat
  BY YouTubeAssumption
<1>2. IsFiniteSet(UtcDays)
  BY <1>1, FS_Interval DEF UtcDays
<1>3. UtcDays \subseteq Nat /\ 0 \in UtcDays
  BY <1>1 DEF UtcDays
<1> QED
  BY <1>2, <1>3, YouTubeAssumption

\* Nothing costs nothing together.
LEMMA TotalOfZeros ==
  ASSUME NEW f, NEW S, IsFiniteSet(S), \A x \in S : f[x] = 0
  PROVE  Total(f, S) = 0
<1> DEFINE Fine == {k \in Nat : \A s \in SUBSET S : IsFiniteSet(s) /\ Cardinality(s) = k => Total(f, s) = 0}
<1>1. 0 \in Fine
  BY FS_EmptySet, TotalOfNothing
<1>2. ASSUME NEW k \in Nat, k \in Fine PROVE k + 1 \in Fine
  <2> SUFFICES ASSUME NEW s \in SUBSET S, IsFiniteSet(s), Cardinality(s) = k + 1 PROVE Total(f, s) = 0
    OBVIOUS
  <2>1. s # {}
    BY FS_EmptySet
  <2>2. PICK p, t : p = Pick(s) /\ t = s \ {p}
    OBVIOUS
  <2>3. p \in s /\ t \in SUBSET S /\ IsFiniteSet(t) /\ Cardinality(t) = k
    BY <2>1, <2>2, Smaller, PickIsIn
  <2>4. Total(f, s) = f[p] + Total(f, t)
    BY <2>1, <2>2, TotalPicks
  <2>5. Total(f, t) = 0 /\ f[p] = 0
    BY <1>2, <2>3
  <2> QED
    BY <2>4, <2>5
<1> HIDE DEF Fine
<1>3. Nat \subseteq Fine
  BY <1>1, <1>2, InductiveSet
<1>4. Cardinality(S) \in Fine
  BY <1>3, FS_CardinalityType
<1> QED
  BY <1>4 DEF Fine

LEMMA YouTubeStart == YouTubeInit => YouTubeInv
<1> SUFFICES ASSUME YouTubeInit PROVE YouTubeInv
  OBVIOUS
<1>1. YouTubeTyped
  BY Days DEF YouTubeInit, YouTubeTyped, MeterState
<1>2. LedgerAddsUp
  <2>1. Total(quota_units, UtcDays) = 0
    BY Days, TotalOfZeros DEF YouTubeInit
  <2>2. \A c \in YouTubeCalls : CostOf[c] = 0
    BY DEF YouTubeInit, CostOf
  <2>3. Total(CostOf, YouTubeCalls) = 0
    BY <2>2, YouTubeAssumption, TotalOfZeros
  <2> QED
    BY <2>1, <2>3 DEF LedgerAddsUp
<1>3. ChargesAreOrderly
  BY Days DEF YouTubeInit, ChargesAreOrderly
<1>4. AlertsAreOrderly
  <2>1. \A d \in UtcDays : quota_units[d] = 0 /\ shown[d] = 0 /\ d \notin alert_sent /\ Notifying(d) = {}
    BY DEF YouTubeInit, Notifying
  <2> QED
    BY <2>1, Days DEF AlertsAreOrderly
<1> QED
  BY <1>1, <1>2, <1>3, <1>4 DEF YouTubeInv

LEMMA MidnightStep == ASSUME YouTubeInv, midnight PROVE YouTubeInv'
<1>1. today < MaxDay /\ today' = today + 1 /\ UNCHANGED <<alerting, quota_units, alert_sent, meter, laterPosts, shown, marred>>
  BY DEF midnight
<1>2. YouTubeTyped'
  BY <1>1, YouTubeAssumption DEF YouTubeInv, YouTubeTyped, UtcDays
<1>3. ChargesAreOrderly'
  BY <1>1, Days DEF YouTubeInv, YouTubeTyped, ChargesAreOrderly
<1>4. LedgerAddsUp' /\ AlertsAreOrderly'
  BY <1>1 DEF YouTubeInv, LedgerAddsUp, CostOf, AlertsAreOrderly, Notifying
<1> QED
  BY <1>2, <1>3, <1>4 DEF YouTubeInv

\* A step that changes neither the ledger nor a cost.
LEMMA SameCosts ==
  ASSUME YouTubeInv, UNCHANGED quota_units, \A c \in YouTubeCalls : meter'[c].cost = meter[c].cost
  PROVE  LedgerAddsUp'
<1>1. CostOf' = CostOf
  BY DEF CostOf
<1> QED
  BY <1>1 DEF YouTubeInv, LedgerAddsUp

LEMMA EnqueueStep ==
  ASSUME YouTubeInv, NEW c \in YouTubeCalls, NEW cost \in {READ_COST, WRITE_COST}, enqueue(c, cost)
  PROVE  YouTubeInv'
<1> DEFINE e == [meter[c] EXCEPT !.at = "queued"]
<1>1. /\ meter[c].at = "new" /\ laterPosts' = laterPosts \cup {[of |-> c, publishAt |-> today + 1]}
      /\ meter' = [meter EXCEPT ![c] = e]
      /\ UNCHANGED <<alerting, today, quota_units, alert_sent, shown, marred, quotaKills>>
  BY DEF enqueue
<1>2. meter[c] \in MeterState /\ meter \in [YouTubeCalls -> MeterState]
  BY DEF YouTubeInv, YouTubeTyped
<1>3. e \in MeterState /\ e.at = "queued" /\ e.cost = meter[c].cost
  BY <1>2 DEF MeterState
<1> HIDE DEF e
<1>4. YouTubeTyped'
  BY <1>1, <1>3 DEF YouTubeInv, YouTubeTyped
<1>5. LedgerAddsUp'
  BY <1>1, <1>2, <1>3, SameCosts
<1>6. ChargesAreOrderly'
  <2>1. \A d \in UtcDays : quota_units'[d] <= YOUTUBE_DAILY_QUOTA /\ (d > today' => quota_units'[d] = 0)
    BY <1>1 DEF YouTubeInv, ChargesAreOrderly
  <2> DEFINE p == [of |-> c, publishAt |-> today + 1]
  <2>2. p \in laterPosts' /\ p.of = c /\ \A q \in laterPosts : q \in laterPosts'
    BY <1>1
  <2> HIDE DEF p
  <2>3. \A b \in YouTubeCalls : /\ meter'[b].at \in {"new", "queued"} => meter'[b].cost = 0
                                /\ meter'[b].at = "queued" => \E q \in laterPosts' : q.of = b
    BY <1>1, <1>2, <1>3, <2>2 DEF YouTubeInv, ChargesAreOrderly
  <2> QED
    BY <2>1, <2>3 DEF ChargesAreOrderly
<1>7. \A d \in UtcDays : Notifying(d)' = Notifying(d)
  BY <1>1, <1>2, <1>3 DEF Notifying
<1>8. AlertsAreOrderly'
  BY <1>1, <1>7 DEF YouTubeInv, AlertsAreOrderly
<1> QED
  BY <1>4, <1>5, <1>6, <1>8 DEF YouTubeInv

LEMMA ChargeStep ==
  ASSUME YouTubeInv, NEW c \in YouTubeCalls, NEW cost \in {READ_COST, WRITE_COST}, charge(c, cost)
  PROVE  YouTubeInv'
<1>1. PICK d \in {today, today + 1} \cap UtcDays :
       /\ today' = d
       /\ quota_units' = [quota_units EXCEPT ![d] = quota_units[d] + cost]
       /\ LET due == alertDue(quota_units', today) IN
          /\ meter' = [meter EXCEPT ![c] = [at |-> IF due THEN "notifying" ELSE "done", cost |-> cost, day |-> today]]
          /\ marred' = IF due /\ Notifying(today) # {} THEN marred \cup {today} ELSE marred
  BY DEF charge
<1> DEFINE due == alertDue(quota_units', today)
           e == [at |-> IF due THEN "notifying" ELSE "done", cost |-> cost, day |-> today]
<1>2. /\ meter[c].at = "new" /\ quota_units[today] + cost <= YOUTUBE_DAILY_QUOTA
      /\ UNCHANGED <<alerting, alert_sent, laterPosts, shown>>
  BY Days DEF charge, isQuotaExhausted, YouTubeInv, YouTubeTyped
<1>3. /\ today \in UtcDays /\ quota_units \in [UtcDays -> Nat] /\ meter \in [YouTubeCalls -> MeterState]
      /\ d \in UtcDays /\ d \in Nat /\ today \in Nat /\ cost \in Nat /\ 10 * cost < 8 * YOUTUBE_DAILY_QUOTA
      /\ meter[c].cost = 0
  BY <1>2, Days DEF YouTubeInv, YouTubeTyped, ChargesAreOrderly
<1>4. e \in MeterState /\ e.at = (IF due THEN "notifying" ELSE "done") /\ e.cost = cost /\ e.day = today
  BY <1>3 DEF MeterState
<1>5. /\ meter' = [meter EXCEPT ![c] = e] /\ quota_units' \in [UtcDays -> Nat] /\ today' = d
      /\ \A k \in UtcDays : quota_units'[k] = IF k = d THEN quota_units[k] + cost ELSE quota_units[k]
      /\ marred' = IF due /\ Notifying(today) # {} THEN marred \cup {today} ELSE marred
  BY <1>1, <1>3
<1>6. due <=> alerting /\ 10 * quota_units'[today] >= 8 * YOUTUBE_DAILY_QUOTA /\ today \notin alert_sent
  BY DEF alertDue
<1> HIDE DEF due, e
<1>7. YouTubeTyped'
  BY <1>2, <1>3, <1>4, <1>5 DEF YouTubeInv, YouTubeTyped
<1>8. LedgerAddsUp'
  <2>1. Total(quota_units', UtcDays) = Total(quota_units, UtcDays) - quota_units[d] + quota_units'[d]
    <3>1. PICK f, g : f = quota_units /\ g = quota_units'
      OBVIOUS
    <3>2. (\A k \in UtcDays : f[k] \in Nat) /\ g[d] \in Nat /\ \A k \in UtcDays \ {d} : g[k] = f[k]
      BY <1>3, <1>5, <3>1
    <3>3. Total(g, UtcDays) = Total(f, UtcDays) - f[d] + g[d]
      <4>1. IsFiniteSet(UtcDays) /\ d \in UtcDays
        BY <1>3, Days
      <4> QED
        BY <3>2, <4>1, TotalChanges
    <3> QED
      BY <3>1, <3>3
  <2>2. /\ \A b \in YouTubeCalls : CostOf[b] \in Nat
        /\ CostOf'[c] = cost /\ CostOf[c] = 0
        /\ \A b \in YouTubeCalls \ {c} : CostOf'[b] = CostOf[b]
    BY <1>3, <1>4, <1>5 DEF CostOf, MeterState
  <2>3. Total(CostOf', YouTubeCalls) = Total(CostOf, YouTubeCalls) - CostOf[c] + CostOf'[c]
    BY <1>3, <2>2, YouTubeAssumption, TotalChanges
  <2>4. Total(CostOf, YouTubeCalls) \in Nat
    BY <2>2, YouTubeAssumption, TotalIsNat
  <2>5. Total(quota_units', UtcDays) = Total(CostOf', YouTubeCalls)
    BY <1>3, <1>5, <2>1, <2>2, <2>3, <2>4 DEF YouTubeInv, LedgerAddsUp
  <2> QED
    BY <2>5 DEF LedgerAddsUp
<1>9. ChargesAreOrderly'
  <2>1. ASSUME NEW k \in UtcDays PROVE quota_units'[k] <= YOUTUBE_DAILY_QUOTA /\ (k > today' => quota_units'[k] = 0)
    BY <1>1, <1>2, <1>3, <1>5, Days DEF YouTubeInv, ChargesAreOrderly
  <2>2. \A b \in YouTubeCalls :
       /\ meter'[b].at \in {"new", "queued"} => meter'[b].cost = 0
       /\ meter'[b].at = "queued" => \E p \in laterPosts' : p.of = b
    BY <1>2, <1>3, <1>4, <1>5 DEF YouTubeInv, ChargesAreOrderly
  <2> QED
    BY <2>1, <2>2 DEF ChargesAreOrderly
<1>10. AlertsAreOrderly'
  <2> SUFFICES ASSUME NEW k \in UtcDays, k \notin marred'
               PROVE  /\ \/ shown[k] = 1 /\ k \in alert_sent /\ Notifying(k)' = {}
                         \/ shown[k] = 0 /\ k \notin alert_sent /\ \A a, b \in Notifying(k)' : a = b
                      /\ alerting /\ 10 * quota_units'[k] >= 8 * YOUTUBE_DAILY_QUOTA
                           => shown[k] = 1 \/ Notifying(k)' # {}
    BY <1>2 DEF AlertsAreOrderly
  <2>1. k \notin marred
    BY <1>5
  <2>2. Notifying(k)' = IF due /\ k = today THEN Notifying(k) \cup {c} ELSE Notifying(k)
    BY <1>2, <1>3, <1>4, <1>5 DEF Notifying
  <2>3. CASE due /\ k = today
    <3>1. Notifying(k) = {}
      BY <1>5, <2>3
    <3> QED
      BY <1>6, <2>1, <2>2, <2>3, <3>1 DEF YouTubeInv, AlertsAreOrderly
  <2>4. CASE ~due /\ k = today
    BY <1>6, <2>1, <2>2, <2>4 DEF YouTubeInv, AlertsAreOrderly
  <2>5. CASE k # today
    <3>1. Notifying(k)' = Notifying(k)
      BY <2>2, <2>5
    <3>2. 10 * quota_units'[k] >= 8 * YOUTUBE_DAILY_QUOTA => 10 * quota_units[k] >= 8 * YOUTUBE_DAILY_QUOTA
      BY <1>1, <1>3, <1>5, <2>5, Days DEF YouTubeInv, ChargesAreOrderly
    <3> QED
      BY <2>1, <3>1, <3>2 DEF YouTubeInv, AlertsAreOrderly
  <2> QED
    BY <2>3, <2>4, <2>5
<1> QED
  BY <1>7, <1>8, <1>9, <1>10 DEF YouTubeInv

\* Alerts end: those of the calls in gone, whose days are marred or were shown one.
LEMMA AlertEnds ==
  ASSUME YouTubeInv, UNCHANGED <<alerting, today, quota_units, laterPosts>>,
         NEW gone \in SUBSET YouTubeCalls, \A c \in gone : meter[c].at = "notifying",
         NEW at \in {"done", "failed"},
         meter' = [c \in YouTubeCalls |-> IF c \in gone THEN [meter[c] EXCEPT !.at = at] ELSE meter[c]],
         shown' \in [UtcDays -> Nat], alert_sent' \subseteq UtcDays, marred' \subseteq UtcDays, marred \subseteq marred',
         \A d \in UtcDays \ marred' : \A c \in gone : meter[c].day = d => shown'[d] = shown[d] + 1 /\ d \in alert_sent',
         \A d \in UtcDays \ marred' : (\A c \in gone : meter[c].day # d) => shown'[d] = shown[d] /\ (d \in alert_sent' <=> d \in alert_sent)
  PROVE  YouTubeInv'
<1>0. meter \in [YouTubeCalls -> MeterState]
  BY DEF YouTubeInv, YouTubeTyped
<1>1. \A c \in YouTubeCalls : /\ meter'[c] \in MeterState /\ meter'[c].cost = meter[c].cost
                              /\ meter'[c].day = meter[c].day
                              /\ meter'[c].at = IF c \in gone THEN at ELSE meter[c].at
  BY <1>0 DEF MeterState
<1>2. YouTubeTyped'
  BY <1>1 DEF YouTubeInv, YouTubeTyped
<1>3. LedgerAddsUp'
  BY <1>1, SameCosts
<1>4. ChargesAreOrderly'
  BY <1>1 DEF YouTubeInv, ChargesAreOrderly
<1>5. \A d \in UtcDays : Notifying(d)' = Notifying(d) \ gone
  BY <1>1 DEF Notifying
<1>6. AlertsAreOrderly'
  <2> SUFFICES ASSUME NEW d \in UtcDays, d \notin marred'
               PROVE  /\ \/ shown'[d] = 1 /\ d \in alert_sent' /\ Notifying(d)' = {}
                         \/ shown'[d] = 0 /\ d \notin alert_sent' /\ \A a, b \in Notifying(d)' : a = b
                      /\ alerting /\ 10 * quota_units[d] >= 8 * YOUTUBE_DAILY_QUOTA
                           => shown'[d] = 1 \/ Notifying(d)' # {}
    BY DEF AlertsAreOrderly
  <2>1. CASE \E c \in gone : meter[c].day = d
    <3>1. PICK c \in gone : meter[c].day = d
      BY <2>1
    <3>2. c \in Notifying(d)
      BY <3>1 DEF Notifying
    <3>3. shown[d] = 0 /\ \A b \in Notifying(d) : b = c
      BY <3>2 DEF YouTubeInv, AlertsAreOrderly
    <3> QED
      BY <1>5, <3>1, <3>3
  <2>2. CASE \A c \in gone : meter[c].day # d
    <3>1. Notifying(d)' = Notifying(d)
      BY <1>5, <2>2 DEF Notifying
    <3> QED
      BY <2>2, <3>1 DEF YouTubeInv, AlertsAreOrderly
  <2> QED
    BY <2>1, <2>2
<1> QED
  BY <1>2, <1>3, <1>4, <1>6 DEF YouTubeInv

LEMMA NotifiedStep == ASSUME YouTubeInv, NEW c \in YouTubeCalls, notified(c) PROVE YouTubeInv'
<1>1. /\ meter \in [YouTubeCalls -> MeterState] /\ meter[c].day \in UtcDays /\ shown \in [UtcDays -> Nat]
      /\ alert_sent \subseteq UtcDays /\ marred \subseteq UtcDays
  BY DEF YouTubeInv, YouTubeTyped, MeterState
<1>2. /\ meter[c].at = "notifying" /\ shown' = [shown EXCEPT ![meter[c].day] = shown[meter[c].day] + 1]
      /\ alert_sent' = alert_sent \cup {meter[c].day}
      /\ meter' = [meter EXCEPT ![c].at = "done"]
      /\ UNCHANGED <<alerting, today, quota_units, laterPosts, marred, quotaKills>>
  BY DEF notified
<1>3. meter' = [b \in YouTubeCalls |-> IF b \in {c} THEN [meter[b] EXCEPT !.at = "done"] ELSE meter[b]]
  BY <1>1, <1>2
<1>4. shown' \in [UtcDays -> Nat] /\ \A d \in UtcDays : shown'[d] = IF d = meter[c].day THEN shown[d] + 1 ELSE shown[d]
  BY <1>1, <1>2
<1>5. {c} \in SUBSET YouTubeCalls /\ "done" \in {"done", "failed"} /\ \A b \in {c} : meter[b].at = "notifying"
  BY <1>2
<1>6. /\ UNCHANGED <<alerting, today, quota_units, laterPosts>>
      /\ alert_sent' \subseteq UtcDays /\ marred' \subseteq UtcDays /\ marred \subseteq marred'
  BY <1>1, <1>2
<1>7. ASSUME NEW d \in UtcDays \ marred'
      PROVE  /\ \A b \in {c} : meter[b].day = d => shown'[d] = shown[d] + 1 /\ d \in alert_sent'
             /\ (\A b \in {c} : meter[b].day # d) => shown'[d] = shown[d] /\ (d \in alert_sent' <=> d \in alert_sent)
  BY <1>1, <1>2, <1>4
<1> QED
  BY <1>3, <1>4, <1>5, <1>6, <1>7, AlertEnds

LEMMA NotifyFailsStep == ASSUME YouTubeInv, NEW c \in YouTubeCalls, notifyFails(c) PROVE YouTubeInv'
<1>1. /\ meter \in [YouTubeCalls -> MeterState] /\ meter[c].day \in UtcDays /\ shown \in [UtcDays -> Nat]
      /\ alert_sent \subseteq UtcDays /\ marred \subseteq UtcDays
  BY DEF YouTubeInv, YouTubeTyped, MeterState
<1>2. /\ meter[c].at = "notifying"
      /\ \E seen \in {0, 1} : shown' = [shown EXCEPT ![meter[c].day] = shown[meter[c].day] + seen]
      /\ meter' = [meter EXCEPT ![c].at = "failed"] /\ marred' = marred \cup {meter[c].day}
      /\ UNCHANGED <<alerting, today, quota_units, alert_sent, laterPosts, quotaKills>>
  BY DEF notifyFails
<1>3. meter' = [b \in YouTubeCalls |-> IF b \in {c} THEN [meter[b] EXCEPT !.at = "failed"] ELSE meter[b]]
  BY <1>1, <1>2
<1>4. shown' \in [UtcDays -> Nat] /\ \A d \in UtcDays : d # meter[c].day => shown'[d] = shown[d]
  BY <1>1, <1>2
<1>5. {c} \in SUBSET YouTubeCalls /\ "failed" \in {"done", "failed"}
  OBVIOUS
<1> QED
  BY <1>1, <1>2, <1>3, <1>4, <1>5, AlertEnds, ZenonT(40)

LEMMA KilledStep == ASSUME YouTubeInv, quotaKilled PROVE YouTubeInv'
<1> DEFINE gone == {c \in YouTubeCalls : meter[c].at = "notifying"}
           of(seen, d) == {c \in seen : meter[c].day = d}
<1>1. /\ meter \in [YouTubeCalls -> MeterState] /\ shown \in [UtcDays -> Nat]
      /\ alert_sent \subseteq UtcDays /\ marred \subseteq UtcDays
  BY DEF YouTubeInv, YouTubeTyped
<1>2. PICK seen \in SUBSET gone : shown' = [d \in UtcDays |-> shown[d] + Cardinality(of(seen, d))]
  BY DEF quotaKilled, Quantify
<1>3. /\ meter' = [c \in YouTubeCalls |-> IF c \in gone THEN [meter[c] EXCEPT !.at = "failed"] ELSE meter[c]]
      /\ marred' = marred \cup {meter[c].day : c \in gone}
      /\ UNCHANGED <<alerting, today, quota_units, alert_sent, laterPosts>>
  BY DEF quotaKilled
<1>4. ASSUME NEW d \in UtcDays
      PROVE Cardinality(of(seen, d)) \in Nat /\ (d \notin marred' => Cardinality(of(seen, d)) = 0)
  <2>1. of(seen, d) \subseteq YouTubeCalls /\ (d \notin marred' => of(seen, d) = {})
    BY <1>3
  <2>2. IsFiniteSet(of(seen, d))
    BY <2>1, YouTubeAssumption, FS_Subset
  <2> HIDE DEF of
  <2> QED
    BY <2>1, <2>2, FS_CardinalityType, FS_EmptySet
<1> HIDE DEF of
<1>5. shown' \in [UtcDays -> Nat] /\ \A d \in UtcDays \ marred' : shown'[d] = shown[d]
  <2>1. \A d \in UtcDays : shown'[d] \in Nat /\ (d \notin marred' => shown'[d] = shown[d])
    BY <1>1, <1>2, <1>4
  <2> QED
    BY <1>2, <2>1
<1>6. marred' \subseteq UtcDays /\ \A c \in gone : meter[c].day \in marred'
  BY <1>1, <1>3 DEF MeterState
<1>7. gone \in SUBSET YouTubeCalls /\ (\A c \in gone : meter[c].at = "notifying") /\ "failed" \in {"done", "failed"}
  OBVIOUS
<1> HIDE DEF gone
<1> QED
  BY <1>1, <1>3, <1>5, <1>6, <1>7, AlertEnds, ZenonT(40)

LEMMA YouTubeStep == YouTubeInv /\ [YouTubeNext]_youtubeVars => YouTubeInv'
<1> SUFFICES ASSUME YouTubeInv, [YouTubeNext]_youtubeVars PROVE YouTubeInv'
  OBVIOUS
<1>1. CASE UNCHANGED youtubeVars
  BY <1>1 DEF youtubeVars, YouTubeInv, YouTubeTyped, LedgerAddsUp, CostOf, ChargesAreOrderly, AlertsAreOrderly, Notifying
<1> QED
  BY <1>1, MidnightStep, EnqueueStep, ChargeStep, NotifiedStep, NotifyFailsStep, KilledStep DEF YouTubeNext

\* What the inductive invariant says, in the words of the property.
LEMMA LedgerIsProperty == YouTubeInv => DailyQuotaIsKept
<1> SUFFICES ASSUME YouTubeInv PROVE DailyQuotaIsKept
  OBVIOUS
<1>1. MapThenSumSet(LAMBDA d : quota_units[d], UtcDays) = Total([d \in UtcDays |-> quota_units[d]], UtcDays)
  BY DEF MapThenSumSet, MapThenFoldSet, FoldFunctionOnSet, Total
<1>2. MapThenSumSet(LAMBDA c : meter[c].cost, YouTubeCalls) = Total([c \in YouTubeCalls |-> meter[c].cost], YouTubeCalls)
  BY DEF MapThenSumSet, MapThenFoldSet, FoldFunctionOnSet, Total
<1>3. [d \in UtcDays |-> quota_units[d]] = quota_units
  BY DEF YouTubeInv, YouTubeTyped
<1>4. UnitsAreCounted
  BY <1>1, <1>2, <1>3 DEF YouTubeInv, LedgerAddsUp, CostOf, ChargesAreOrderly, UnitsAreCounted
<1>5. AlertedOnce
  BY DEF YouTubeInv, AlertsAreOrderly, AlertedOnce
<1> QED
  BY <1>4, <1>5 DEF DailyQuotaIsKept

\* The units charged are what the calls passed on cost, within each day's ceiling, and a
\* day alerts once, for any calls and costs and any order of midnight, alerts and kills.
THEOREM DailyQuotaIsAlwaysKept == YouTubeSpec => []DailyQuotaIsKept
  BY YouTubeStart, YouTubeStep, LedgerIsProperty, PTL DEF YouTubeSpec

(***************************************************************************)
(* The chats with a language model.                                        *)
(***************************************************************************)
Message == [role : {"system"}] \cup [role : {"user", "assistant"}, of : Sends]
Chat == [at : {"absent", "kept", "deleted"}, messages : Seq(Message), prompt : Nat, completion : Nat, total : Nat]
Over == [at : {"done", "failed"}, chat : Chats, usage : Nat]
Running ==
  [at : {"opening", "streaming"}, chat : Chats, usage : {0}, to : Providers, given : {"none", "openai"},
   chosen : PrivacyModes, since : Nat, mode : PrivacyModes, read : Nat, chunks : Nat, seen : Seq(Message)]
Prompt(x) == [role |-> "user", of |-> x]

ConversationTyped ==
  /\ privacy \in PrivacyModes /\ cloud \in {"none"} \cup Providers /\ switches \in Nat
  /\ chats \in [Chats -> Chat]
  /\ sends \in [Sends -> [at : {"new"}] \cup Over \cup Running]

\* What is said of one send's provider and mode, and what it rests on: the mode is the one
\* it was chosen in as long as nothing was switched.
InMode(e) ==
  e.to # Local /\ e.given = "none" =>
    e.chosen = "off" /\ (e.mode = "off" \/ (e.to = "copilot" /\ e.since < e.read))
Marked(e) ==
  /\ e.since <= switches
  /\ e.at = "opening" => e.to = "copilot" /\ (e.since = switches => privacy = e.chosen)
ModesAreMarked == \A x \in Called : InMode(sends[x]) /\ Marked(sends[x])

\* A send begins only on a session that is kept.
CalledHaveChats == \A x \in Called : chats[sends[x].chat].at # "absent"

\* A session that was not crowded has one send at a time, whose prompt is its last
\* message; every answer stands behind its prompt.
OneAtATime ==
  \A s \in Chats \ crowded :
    LET m == chats[s].messages IN
    /\ \A x, y \in Called : sends[x].chat = s /\ sends[y].chat = s => x = y
    /\ \A x \in Called : sends[x].chat = s =>
         /\ Len(m) > 0 /\ m[Len(m)] = Prompt(x)
         /\ sends[x].at = "streaming" => Last(sends[x].seen) = Prompt(x)
    /\ \A i \in 1 .. Len(m) : m[i].role = "assistant" => i > 1 /\ m[i - 1] = Prompt(m[i].of)

\* The prompt tokens that the sends of a session were told.
SendsOf(s) == {x \in Begun : sends[x].chat = s}
Spent(s) == Total([x \in Begun |-> sends[x].usage], SendsOf(s))

TokensAreCounted ==
  \A s \in Chats : /\ s \notin uneven => chats[s].total = chats[s].prompt + chats[s].completion
                   /\ chats[s].prompt = Spent(s)

ConversationInv ==
  ConversationTyped /\ ModesAreMarked /\ CalledHaveChats /\ OneAtATime /\ TokensAreCounted

LEMMA SendsOfFinite == \A s : IsFiniteSet(SendsOf(s)) /\ SendsOf(s) \subseteq Begun
<1> TAKE s
<1>1. SendsOf(s) \subseteq 1 .. MaxSends
  BY DEF SendsOf, Begun, Sends
<1>2. IsFiniteSet(1 .. MaxSends)
  BY FS_Interval, ConversationsAssumption
<1> QED
  BY <1>1, <1>2, FS_Subset DEF SendsOf

LEMMA UsageIsNat == ASSUME ConversationInv, NEW x \in Begun
  PROVE /\ x \in Sends /\ sends[x] \in Over \cup Running /\ sends[x].usage \in Nat /\ sends[x].chat \in Chats
        /\ x \in Called => sends[x] \in Running
        /\ x \notin Called => sends[x] \in Over
  BY DEF ConversationInv, ConversationTyped, Begun, Over, Running, Called

LEMMA ConversationStart == ConversationInit => ConversationInv
<1> SUFFICES ASSUME ConversationInit PROVE ConversationInv
  OBVIOUS
<1>1. ConversationTyped
  <2>1. <<>> \in Seq(Message)
    OBVIOUS
  <2> QED
    BY <2>1 DEF ConversationInit, ConversationTyped, Chat
<1>2. Called = {} /\ Begun = {}
  BY DEF ConversationInit, Called, Begun
<1>3. TokensAreCounted
  <2>1. ASSUME NEW s \in Chats PROVE Spent(s) = 0
    BY <1>2, TotalOfNothing DEF Spent, SendsOf
  <2> QED
    BY <2>1 DEF ConversationInit, TokensAreCounted
<1>4. OneAtATime
  BY <1>2 DEF ConversationInit, OneAtATime
<1> QED
  BY <1>1, <1>2, <1>3, <1>4 DEF ConversationInv, ModesAreMarked, CalledHaveChats, Marked

\* Where no send of a session changes what it was told, the sum stays.
LEMMA SpentSame ==
  ASSUME ConversationInv, NEW s, SendsOf(s)' = SendsOf(s), \A x \in SendsOf(s) : sends'[x].usage = sends[x].usage
  PROVE  Spent(s)' = Spent(s)
<1>1. PICK f, e, S : f = [x \in Begun |-> sends[x].usage] /\ e = [x \in Begun' |-> sends'[x].usage] /\ S = SendsOf(s)
  OBVIOUS
<1>2. \A x \in S : f[x] = e[x]
  <2>1. \A x \in S : x \in Begun /\ x \in Begun'
    BY <1>1 DEF SendsOf
  <2> QED
    BY <1>1, <2>1
<1>3. IsFiniteSet(S)
  BY <1>1, SendsOfFinite
<1>4. Total(f, S) = Total(e, S)
  BY <1>2, <1>3, TotalSame
<1> QED
  BY <1>1, <1>4 DEF Spent

\* One send is told its usage, which was nothing before.
LEMMA SpentGrows ==
  ASSUME ConversationInv, NEW s, NEW x \in SendsOf(s), sends[x].usage = 0, NEW n \in Nat, sends'[x].usage = n,
         SendsOf(s)' = SendsOf(s), \A y \in SendsOf(s) \ {x} : sends'[y].usage = sends[y].usage
  PROVE  Spent(s)' = Spent(s) + n
<1>1. PICK f, e, S : f = [y \in Begun |-> sends[y].usage] /\ e = [y \in Begun' |-> sends'[y].usage] /\ S = SendsOf(s)
  OBVIOUS
<1>2. \A y \in S : y \in Begun /\ y \in Begun' /\ f[y] \in Nat
  BY <1>1, UsageIsNat DEF SendsOf
<1>3. f[x] = 0 /\ e[x] = n /\ x \in S /\ \A y \in S \ {x} : e[y] = f[y]
  BY <1>1, <1>2
<1>4. IsFiniteSet(S)
  BY <1>1, SendsOfFinite
<1>5. Total(e, S) = Total(f, S) - f[x] + e[x]
  BY <1>2, <1>3, <1>4, TotalChanges
<1>6. Total(f, S) \in Nat
  BY <1>2, <1>4, TotalIsNat
<1>7. Total(e, S) = Total(f, S) + n
  BY <1>3, <1>5, <1>6
<1> QED
  BY <1>1, <1>7 DEF Spent

\* A send that begins was told nothing yet.
LEMMA SpentBegins ==
  ASSUME ConversationInv, NEW s, NEW x, x \notin SendsOf(s), sends'[x].usage = 0,
         SendsOf(s)' = SendsOf(s) \cup {x}, \A y \in SendsOf(s) : sends'[y].usage = sends[y].usage
  PROVE  Spent(s)' = Spent(s)
<1>1. PICK f, e, S : f = [y \in Begun |-> sends[y].usage] /\ e = [y \in Begun' |-> sends'[y].usage] /\ S = SendsOf(s)
  OBVIOUS
<1>2. \A y \in S : y \in Begun /\ y \in Begun' /\ f[y] \in Nat
  BY <1>1, UsageIsNat DEF SendsOf
<1>3. x \in Begun'
  BY DEF SendsOf
<1>4. e[x] = 0 /\ x \notin S /\ \A y \in S : e[y] = f[y]
  BY <1>1, <1>2, <1>3
<1>5. IsFiniteSet(S) /\ \A y \in S \cup {x} : e[y] \in Nat
  BY <1>1, <1>2, <1>4, SendsOfFinite
<1>6. Total(e, S \cup {x}) = Total(e, S) + e[x]
  BY <1>4, <1>5, TotalAdds
<1>7. Total(e, S) = Total(f, S) /\ Total(f, S) \in Nat
  BY <1>2, <1>4, <1>5, TotalSame, TotalIsNat
<1>8. Total(e, S \cup {x}) = Total(f, S)
  BY <1>4, <1>6, <1>7
<1> QED
  BY <1>1, <1>8 DEF Spent

\* Where the mode stays, a send is marked as before or anew.
LEMMA MarksStay ==
  ASSUME ConversationInv, UNCHANGED <<privacy, switches>>, Called \subseteq Sends,
         \A y \in Called' : (y \notin Called \/ sends'[y] # sends[y]) => InMode(sends'[y]) /\ Marked(sends'[y])
  PROVE  ModesAreMarked'
<1>1. \A y \in Called' : InMode(sends'[y]) /\ Marked(sends'[y])
  BY DEF ConversationInv, ModesAreMarked
<1>2. \A e : Marked(e) => Marked(e)'
  BY DEF Marked
<1> QED
  BY <1>1, <1>2 DEF ModesAreMarked, Marked

LEMMA CreateStep == ASSUME ConversationInv, NEW s \in Chats, create(s) PROVE ConversationInv'
<1>1. PICK m \in {<<>>, <<[role |-> "system"]>>} :
        chats' = [chats EXCEPT ![s].at = "kept", ![s].messages = m]
  BY DEF create
<1> DEFINE c == [chats[s] EXCEPT !.at = "kept", !.messages = m]
<1>2. chats' = [chats EXCEPT ![s] = c] /\ UNCHANGED <<privacy, cloud, sends, switches, crowded, uneven>> /\ chats[s].at = "absent"
  BY <1>1 DEF create, ConversationInv, ConversationTyped
<1>3. chats \in [Chats -> Chat] /\ chats[s] \in Chat
  BY DEF ConversationInv, ConversationTyped
<1>4. m \in Seq(Message) /\ \A i \in 1 .. Len(m) : m[i].role # "assistant"
  <2>1. [role |-> "system"] \in Message
    BY DEF Message
  <2>2. CASE m = <<>>
    BY <2>2
  <2>3. CASE m = <<[role |-> "system"]>>
    BY <2>1, <2>3
  <2> QED
    BY <2>2, <2>3
<1>5. /\ c \in Chat /\ c.at = "kept" /\ c.messages = m /\ c.prompt = chats[s].prompt
      /\ c.completion = chats[s].completion /\ c.total = chats[s].total
  BY <1>3, <1>4 DEF Chat
<1> HIDE DEF c
<1>6. ConversationTyped'
  BY <1>2, <1>5 DEF ConversationInv, ConversationTyped
<1>7. Called' = Called /\ Begun' = Begun /\ \A x \in Called : sends[x].chat # s
  BY <1>2 DEF Called, Begun, ConversationInv, CalledHaveChats
<1>8. ModesAreMarked' /\ CalledHaveChats'
  BY <1>2, <1>3, <1>5, <1>7, MarksStay DEF ConversationInv, CalledHaveChats, Called
<1>9. OneAtATime'
  <2> SUFFICES ASSUME NEW t \in Chats \ crowded
               PROVE  LET k == chats'[t].messages IN
                      /\ \A x, y \in Called : sends[x].chat = t /\ sends[y].chat = t => x = y
                      /\ \A x \in Called : sends[x].chat = t =>
                           /\ Len(k) > 0 /\ k[Len(k)] = Prompt(x)
                           /\ sends[x].at = "streaming" => Last(sends[x].seen) = Prompt(x)
                      /\ \A i \in 1 .. Len(k) : k[i].role = "assistant" => i > 1 /\ k[i - 1] = Prompt(k[i].of)
    BY <1>2, <1>7 DEF OneAtATime
  <2>1. CASE t = s
    BY <1>2, <1>3, <1>4, <1>5, <1>7, <2>1
  <2>2. CASE t # s
    BY <1>2, <1>3, <2>2 DEF ConversationInv, OneAtATime
  <2> QED
    BY <2>1, <2>2
<1>10. TokensAreCounted'
  <2>1. \A t \in Chats : Spent(t)' = Spent(t)
    BY <1>2, <1>7, SpentSame DEF SendsOf
  <2> QED
    BY <1>2, <1>3, <1>5, <2>1 DEF ConversationInv, TokensAreCounted
<1> QED
  BY <1>6, <1>8, <1>9, <1>10 DEF ConversationInv

LEMMA DeleteChatStep == ASSUME ConversationInv, NEW s \in Chats, deleteChat(s) PROVE ConversationInv'
<1> DEFINE c == [chats[s] EXCEPT !.at = "deleted"]
<1>1. chats' = [chats EXCEPT ![s] = c] /\ UNCHANGED <<privacy, cloud, sends, switches, crowded, uneven>>
  BY DEF deleteChat
<1>2. chats \in [Chats -> Chat] /\ chats[s] \in Chat
  BY DEF ConversationInv, ConversationTyped
<1>3. /\ c \in Chat /\ c.at = "deleted" /\ c.messages = chats[s].messages /\ c.prompt = chats[s].prompt
      /\ c.completion = chats[s].completion /\ c.total = chats[s].total
  BY <1>2 DEF Chat
<1> HIDE DEF c
<1>4. ConversationTyped'
  BY <1>1, <1>3 DEF ConversationInv, ConversationTyped
<1>5. Called' = Called /\ Begun' = Begun
  BY <1>1 DEF Called, Begun
<1>6. \A t \in Chats : /\ chats'[t].messages = chats[t].messages /\ chats'[t].prompt = chats[t].prompt
                       /\ chats'[t].completion = chats[t].completion /\ chats'[t].total = chats[t].total
                       /\ chats[t].at # "absent" => chats'[t].at # "absent"
  BY <1>1, <1>2, <1>3
<1>7. ModesAreMarked' /\ CalledHaveChats'
  <2>1. \A x \in Called : sends[x].chat \in Chats
    BY UsageIsNat DEF Called, Begun
  <2> QED
    BY <1>1, <1>5, <1>6, <2>1, MarksStay DEF ConversationInv, CalledHaveChats, Called
<1>8. OneAtATime'
  BY <1>1, <1>5, <1>6 DEF ConversationInv, OneAtATime
<1>9. TokensAreCounted'
  <2>1. \A t \in Chats : Spent(t)' = Spent(t)
    BY <1>1, <1>5, SpentSame DEF SendsOf
  <2> QED
    BY <1>1, <1>6, <2>1 DEF ConversationInv, TokensAreCounted
<1> QED
  BY <1>4, <1>7, <1>8, <1>9 DEF ConversationInv

LEMMA PrivacyStep == ASSUME ConversationInv, NEW mode \in PrivacyModes, setPrivacyMode(mode) PROVE ConversationInv'
<1>1. privacy' = mode /\ switches' = switches + 1 /\ UNCHANGED <<cloud, chats, sends, crowded, uneven>>
  BY DEF setPrivacyMode
<1>2. Called' = Called /\ Begun' = Begun
  BY <1>1 DEF Called, Begun
<1>3. TokensAreCounted'
  <2>1. \A t \in Chats : Spent(t)' = Spent(t)
    BY <1>1, <1>2, SpentSame DEF SendsOf
  <2> QED
    BY <1>1, <2>1 DEF ConversationInv, TokensAreCounted
<1>4. ModesAreMarked'
  <2>1. \A x \in Called : sends[x].since \in Nat
    BY UsageIsNat DEF Called, Begun, Running
  <2>2. switches \in Nat /\ \A x \in Called : sends[x].since <= switches
    BY DEF ConversationInv, ConversationTyped, ModesAreMarked, Marked
  <2>3. \A x \in Called : sends[x].since <= switches + 1 /\ sends[x].since # switches + 1
    BY <2>1, <2>2
  <2> QED
    BY <1>1, <1>2, <2>3 DEF ConversationInv, ModesAreMarked, Marked
<1> QED
  BY <1>1, <1>2, <1>3, <1>4 DEF ConversationInv, ConversationTyped, CalledHaveChats, OneAtATime

\* A send under way is that of one session, which is known.
LEMMA CalledIsRunning == ASSUME ConversationInv, NEW x \in Called
  PROVE /\ x \in Sends /\ x \in Begun /\ sends[x] \in Running /\ sends[x].chat \in Chats
        /\ chats[sends[x].chat] \in Chat /\ chats[sends[x].chat].at # "absent"
        /\ chats \in [Chats -> Chat] /\ sends \in [Sends -> [at : {"new"}] \cup Over \cup Running]
<1>1. x \in Sends /\ x \in Begun
  BY DEF Called, Begun
<1> QED
  BY <1>1, UsageIsNat DEF ConversationInv, ConversationTyped, CalledHaveChats

\* A send under way goes on.
LEMMA GoesOn ==
  ASSUME ConversationInv, NEW x \in Called, NEW e \in Running, sends' = [sends EXCEPT ![x] = e],
         e.chat = sends[x].chat, UNCHANGED <<privacy, switches>>, InMode(e), Marked(e)
  PROVE  /\ Called' = Called /\ Begun' = Begun /\ \A t \in Chats : Spent(t)' = Spent(t)
         /\ \A y \in Called : sends'[y] = IF y = x THEN e ELSE sends[y]
         /\ sends' \in [Sends -> [at : {"new"}] \cup Over \cup Running]
         /\ ModesAreMarked'
<1>1. /\ x \in Sends /\ x \in Begun /\ sends[x] \in Running
      /\ sends \in [Sends -> [at : {"new"}] \cup Over \cup Running]
  BY CalledIsRunning
<1>2. \A y \in Sends : sends'[y] = IF y = x THEN e ELSE sends[y]
  BY <1>1
<1>3. e.at \in {"opening", "streaming"} /\ e.usage = 0 /\ sends[x].usage = 0
  BY <1>1 DEF Running
<1>4. Called' = Called /\ Begun' = Begun
  BY <1>1, <1>2, <1>3 DEF Called, Begun
<1>5. ASSUME NEW t \in Chats PROVE Spent(t)' = Spent(t)
  <2>1. SendsOf(t)' = SendsOf(t)
    BY <1>2, <1>4 DEF SendsOf, Begun
  <2>2. \A y \in SendsOf(t) : sends'[y].usage = sends[y].usage
    BY <1>2, <1>3 DEF SendsOf, Begun
  <2> QED
    BY <2>1, <2>2, SpentSame
<1>6. \A y \in Called : sends'[y] = IF y = x THEN e ELSE sends[y]
  BY <1>2 DEF Called
<1>7. ModesAreMarked'
  BY <1>4, <1>6, MarksStay DEF Called
<1> QED
  BY <1>1, <1>4, <1>5, <1>6, <1>7

LEMMA OpenedStep == ASSUME ConversationInv, NEW x \in Sends, opened(x) PROVE ConversationInv'
<1> DEFINE e == [sends[x] EXCEPT !.at = "streaming", !.seen = chats[sends[x].chat].messages,
                                 !.mode = privacy, !.read = switches]
<1>1. /\ x \in Called /\ sends' = [sends EXCEPT ![x] = e]
      /\ UNCHANGED <<privacy, cloud, chats, switches, crowded, uneven>>
  <2>1. x \in Called /\ UNCHANGED <<privacy, cloud, chats, switches, crowded, uneven>>
    BY DEF opened, Called
  <2>2. sends[x] \in Running /\ sends \in [Sends -> [at : {"new"}] \cup Over \cup Running]
    BY <2>1, CalledIsRunning
  <2> QED
    BY <2>1, <2>2 DEF opened
<1>2. /\ sends[x] \in Running /\ chats[sends[x].chat] \in Chat /\ sends[x].chat \in Chats
      /\ privacy \in PrivacyModes /\ switches \in Nat
  BY <1>1, CalledIsRunning DEF ConversationInv, ConversationTyped
<1>3. /\ e \in Running /\ e.chat = sends[x].chat /\ e.to = sends[x].to /\ e.given = sends[x].given
      /\ e.chosen = sends[x].chosen /\ e.since = sends[x].since /\ e.since \in Nat
      /\ e.mode = privacy /\ e.read = switches /\ e.at = "streaming"
      /\ e.seen = chats[sends[x].chat].messages
  BY <1>2 DEF Running, Chat
<1>3a. InMode(sends[x]) /\ Marked(sends[x]) /\ sends[x].at = "opening"
  BY <1>1 DEF ConversationInv, ModesAreMarked, opened
<1> HIDE DEF e
<1>3b. InMode(e) /\ Marked(e)
  BY <1>2, <1>3, <1>3a DEF InMode, Marked
<1>4. /\ Called' = Called /\ Begun' = Begun /\ \A t \in Chats : Spent(t)' = Spent(t)
      /\ \A y \in Called : sends'[y] = IF y = x THEN e ELSE sends[y]
      /\ sends' \in [Sends -> [at : {"new"}] \cup Over \cup Running]
      /\ ModesAreMarked'
  BY <1>1, <1>3, <1>3b, GoesOn
<1>5. ConversationTyped' /\ CalledHaveChats' /\ TokensAreCounted'
  BY <1>1, <1>3, <1>4 DEF ConversationInv, ConversationTyped, CalledHaveChats, TokensAreCounted
<1>6. OneAtATime'
  <2> SUFFICES ASSUME NEW t \in Chats \ crowded
               PROVE  /\ \A y, z \in Called : sends'[y].chat = t /\ sends'[z].chat = t => y = z
                      /\ \A y \in Called : sends'[y].chat = t =>
                           /\ Len(chats[t].messages) > 0 /\ chats[t].messages[Len(chats[t].messages)] = Prompt(y)
                           /\ sends'[y].at = "streaming" => Last(sends'[y].seen) = Prompt(y)
                      /\ \A i \in 1 .. Len(chats[t].messages) : chats[t].messages[i].role = "assistant" =>
                           i > 1 /\ chats[t].messages[i - 1] = Prompt(chats[t].messages[i].of)
    BY <1>1, <1>4 DEF OneAtATime
  <2>1. \A y \in Called : sends'[y].chat = sends[y].chat
    BY <1>3, <1>4
  <2>2. ASSUME NEW y \in Called, sends'[y].chat = t, sends'[y].at = "streaming" PROVE Last(sends'[y].seen) = Prompt(y)
    <3>1. CASE y = x
      BY <1>1, <1>3, <1>4, <2>1, <2>2, <3>1 DEF ConversationInv, OneAtATime, Last
    <3>2. CASE y # x
      BY <1>4, <2>2, <3>2 DEF ConversationInv, OneAtATime
    <3> QED
      BY <3>1, <3>2
  <2> QED
    BY <2>1, <2>2 DEF ConversationInv, OneAtATime
<1> QED
  BY <1>4, <1>5, <1>6 DEF ConversationInv

LEMMA EstimatedIsChat == ASSUME NEW c \in Chat
  PROVE  /\ estimated(c) \in Chat /\ estimated(c).at = c.at /\ estimated(c).messages = c.messages
         /\ estimated(c).prompt = c.prompt
         /\ estimated(c).total = estimated(c).prompt + estimated(c).completion
<1>1. c.prompt \in Nat /\ c.completion \in Nat
  BY DEF Chat
<1>2. estimated(c) = [c EXCEPT !.completion = c.completion + 1, !.total = c.prompt + c.completion + 1]
  BY DEF estimated
<1>3. estimated(c).completion = c.completion + 1 /\ estimated(c).total = c.prompt + c.completion + 1
  BY <1>2 DEF Chat
<1>4. estimated(c) \in Chat /\ estimated(c).at = c.at /\ estimated(c).messages = c.messages /\ estimated(c).prompt = c.prompt
  <2>1. PICK m \in Nat, n \in Nat : m = c.completion + 1 /\ n = c.prompt + c.completion + 1
    BY <1>1
  <2>2. estimated(c) = [c EXCEPT !.completion = m, !.total = n]
    BY <1>2, <2>1
  <2> QED
    BY <2>2 DEF Chat
<1> QED
  BY <1>1, <1>3, <1>4

LEMMA CountedIsChat ==
  ASSUME NEW c \in Chat, NEW u \in [stated : BOOLEAN, prompt : Nat, completion : Nat, total : Nat]
  PROVE  /\ counted(c, u) \in Chat /\ counted(c, u).at = c.at /\ counted(c, u).messages = c.messages
         /\ counted(c, u).prompt = c.prompt + u.prompt
         /\ u.total = u.prompt + u.completion =>
              counted(c, u).total = counted(c, u).prompt + counted(c, u).completion
<1>1. c.prompt \in Nat /\ u.prompt \in Nat /\ u.completion \in Nat /\ u.total \in Nat
  BY DEF Chat
<1>2. counted(c, u) = [c EXCEPT !.prompt = c.prompt + u.prompt, !.completion = u.completion,
                                !.total = c.prompt + u.total]
  BY DEF counted
<1>3. /\ counted(c, u).prompt = c.prompt + u.prompt /\ counted(c, u).completion = u.completion
      /\ counted(c, u).total = c.prompt + u.total
  BY <1>2 DEF Chat
<1>4. counted(c, u) \in Chat /\ counted(c, u).at = c.at /\ counted(c, u).messages = c.messages
  <2>1. PICK k \in Nat, m \in Nat, n \in Nat :
          k = c.prompt + u.prompt /\ m = u.completion /\ n = c.prompt + u.total
    BY <1>1
  <2>2. counted(c, u) = [c EXCEPT !.prompt = k, !.completion = m, !.total = n]
    BY <1>2, <2>1
  <2> QED
    BY <2>2 DEF Chat
<1> QED
  BY <1>1, <1>3, <1>4

LEMMA AppendIsSequence ==
  ASSUME NEW T, NEW m \in Seq(T), NEW a \in T
  PROVE  /\ Append(m, a) \in Seq(T) /\ Len(m) \in Nat
         /\ Len(Append(m, a)) = Len(m) + 1 /\ Append(m, a)[Len(m) + 1] = a
         /\ \A i \in 1 .. Len(m) : Append(m, a)[i] = m[i]
  OBVIOUS

LEMMA ChunkStep == ASSUME ConversationInv, NEW x \in Sends, chunk(x) PROVE ConversationInv'
<1> DEFINE e == [sends[x] EXCEPT !.chunks = sends[x].chunks + 1]
           s == sends[x].chat
           c == estimated(chats[s])
<1>1. x \in Called /\ UNCHANGED <<privacy, cloud, switches, crowded, uneven>>
  BY DEF chunk, Called
<1>2. /\ sends[x] \in Running /\ chats[s] \in Chat /\ s \in Chats /\ chats[s].at # "absent"
      /\ chats \in [Chats -> Chat] /\ sends \in [Sends -> [at : {"new"}] \cup Over \cup Running]
  BY <1>1, CalledIsRunning
<1>3. sends' = [sends EXCEPT ![x] = e] /\ chats' = [chats EXCEPT ![s] = c]
  BY <1>2 DEF chunk
<1>4. /\ e \in Running /\ e.chat = sends[x].chat /\ e.to = sends[x].to /\ e.given = sends[x].given
      /\ e.chosen = sends[x].chosen /\ e.since = sends[x].since /\ e.mode = sends[x].mode
      /\ e.read = sends[x].read /\ e.seen = sends[x].seen /\ e.at = sends[x].at
  BY <1>2 DEF Running
<1>4a. InMode(e) /\ Marked(e)
  BY <1>1, <1>4 DEF ConversationInv, ModesAreMarked, InMode, Marked
<1>5. /\ c \in Chat /\ c.at = chats[s].at /\ c.messages = chats[s].messages /\ c.prompt = chats[s].prompt
      /\ c.total = c.prompt + c.completion
  BY <1>2, EstimatedIsChat
<1> HIDE DEF e, c
<1>6. /\ Called' = Called /\ Begun' = Begun /\ \A t \in Chats : Spent(t)' = Spent(t)
      /\ \A y \in Called : sends'[y] = IF y = x THEN e ELSE sends[y]
      /\ sends' \in [Sends -> [at : {"new"}] \cup Over \cup Running]
      /\ ModesAreMarked'
  BY <1>1, <1>3, <1>4, <1>4a, GoesOn
<1>7. \A t \in Chats : chats'[t] = IF t = s THEN c ELSE chats[t]
  BY <1>2, <1>3
<1>8. ConversationTyped'
  BY <1>1, <1>2, <1>3, <1>5, <1>6 DEF ConversationInv, ConversationTyped
<1>9. \A y \in Called : /\ sends'[y].chat = sends[y].chat /\ sends'[y].at = sends[y].at
                        /\ sends'[y].seen = sends[y].seen /\ sends[y].chat \in Chats
  BY <1>4, <1>6, CalledIsRunning
<1>10. \A t \in Chats : chats'[t].messages = chats[t].messages /\ chats'[t].at = chats[t].at
  BY <1>5, <1>7
<1>11. CalledHaveChats'
  BY <1>6, <1>9, <1>10 DEF ConversationInv, CalledHaveChats
<1>12. OneAtATime'
  BY <1>1, <1>6, <1>9, <1>10, SMTT(20) DEF ConversationInv, OneAtATime
<1>13. TokensAreCounted'
  BY <1>1, <1>5, <1>6, <1>7 DEF ConversationInv, TokensAreCounted
<1> QED
  BY <1>6, <1>8, <1>11, <1>12, <1>13 DEF ConversationInv

\* A send under way ends, having been told of n tokens of its prompt.
LEMMA SendEnds ==
  ASSUME ConversationInv, NEW x \in Called, NEW at \in {"done", "failed"}, NEW n \in Nat,
         sends' = [sends EXCEPT ![x] = over(x, at, n)], UNCHANGED <<privacy, switches>>
  PROVE  /\ Called' = Called \ {x} /\ Begun' = Begun
         /\ \A t \in Chats : Spent(t)' = IF t = sends[x].chat THEN Spent(t) + n ELSE Spent(t)
         /\ \A y \in Sends \ {x} : sends'[y] = sends[y]
         /\ sends' \in [Sends -> [at : {"new"}] \cup Over \cup Running]
         /\ ModesAreMarked'
<1> DEFINE e == over(x, at, n)
<1>1. /\ x \in Sends /\ x \in Begun /\ sends[x] \in Running /\ sends[x].chat \in Chats
      /\ sends \in [Sends -> [at : {"new"}] \cup Over \cup Running]
  BY CalledIsRunning
<1>2. e \in Over /\ e.at = at /\ e.chat = sends[x].chat /\ e.usage = n
  BY <1>1 DEF Over, over
<1> HIDE DEF e
<1>3. \A y \in Sends : sends'[y] = IF y = x THEN e ELSE sends[y]
  BY <1>1 DEF e
<1>4. Called' = Called \ {x} /\ Begun' = Begun
  BY <1>1, <1>2, <1>3 DEF Called, Begun
<1>5. ASSUME NEW t \in Chats PROVE Spent(t)' = IF t = sends[x].chat THEN Spent(t) + n ELSE Spent(t)
  <2>1. SendsOf(t)' = SendsOf(t)
    BY <1>2, <1>3, <1>4 DEF SendsOf, Begun
  <2>2. \A y \in SendsOf(t) \ {x} : sends'[y].usage = sends[y].usage
    BY <1>3 DEF SendsOf, Begun
  <2>3. CASE t = sends[x].chat
    <3>1. x \in SendsOf(t) /\ sends[x].usage = 0 /\ sends'[x].usage = n
      BY <1>1, <1>2, <1>3, <2>3 DEF SendsOf, Running
    <3> QED
      BY <2>1, <2>2, <2>3, <3>1, SpentGrows
  <2>4. CASE t # sends[x].chat
    <3>1. x \notin SendsOf(t)
      BY <2>4 DEF SendsOf
    <3> QED
      BY <2>1, <2>2, <2>4, <3>1, SpentSame
  <2> QED
    BY <2>3, <2>4
<1>6. ModesAreMarked'
  BY <1>3, <1>4, MarksStay DEF Called
<1>7. sends' \in [Sends -> [at : {"new"}] \cup Over \cup Running]
  BY <1>1, <1>2 DEF e
<1> QED
  BY <1>3, <1>4, <1>5, <1>6, <1>7

LEMMA SendFailsStep == ASSUME ConversationInv, NEW x \in Sends, sendFails(x) PROVE ConversationInv'
<1>1. /\ x \in Called /\ sends' = [sends EXCEPT ![x] = over(x, "failed", 0)]
      /\ UNCHANGED <<privacy, cloud, chats, switches, crowded, uneven>>
  BY DEF sendFails, Called
<1>2. /\ Called' = Called \ {x} /\ Begun' = Begun
      /\ \A t \in Chats : Spent(t)' = IF t = sends[x].chat THEN Spent(t) + 0 ELSE Spent(t)
      /\ \A y \in Sends \ {x} : sends'[y] = sends[y]
      /\ sends' \in [Sends -> [at : {"new"}] \cup Over \cup Running]
      /\ ModesAreMarked'
  BY <1>1, SendEnds
<1>3. ConversationTyped'
  BY <1>1, <1>2 DEF ConversationInv, ConversationTyped
<1>4. \A y \in Called \ {x} : sends'[y] = sends[y]
  BY <1>2 DEF Called
<1>5. CalledHaveChats' /\ OneAtATime'
  BY <1>1, <1>2, <1>4 DEF ConversationInv, CalledHaveChats, OneAtATime
<1>6. TokensAreCounted'
  <2>1. \A t \in Chats : chats[t].prompt \in Nat
    BY DEF ConversationInv, ConversationTyped, Chat
  <2> QED
    BY <1>1, <1>2, <2>1 DEF ConversationInv, TokensAreCounted
<1> QED
  BY <1>2, <1>3, <1>5, <1>6 DEF ConversationInv

LEMMA UsageOfAnswer ==
  ASSUME ConversationInv, NEW x \in Called, NEW u \in Usages(x)
  PROVE  /\ u \in [stated : BOOLEAN, prompt : Nat, completion : Nat, total : Nat]
         /\ u.stated = FALSE => u.prompt = 0
<1>1. sends[x].seen \in Seq(Message) /\ sends[x].chunks \in Nat
  BY CalledIsRunning DEF Running
<1>2. PICK n \in Nat, k \in Nat : n = Len(sends[x].seen) /\ k = sends[x].chunks + 1
  BY <1>1
<1> DEFINE told == [stated : {TRUE}, prompt : {0, n}, completion : {0, k}, total : {0, n + k}]
           none == [stated |-> FALSE, prompt |-> 0, completion |-> 0, total |-> 0]
<1>3. u = none \/ u \in told \/ \E v \in told : u = [v EXCEPT !.total = v.prompt + v.completion]
  BY <1>2 DEF Usages
<1>4. \A v \in told : v \in [stated : {TRUE}, prompt : Nat, completion : Nat, total : Nat]
  <2>1. {0, n} \subseteq Nat /\ {0, k} \subseteq Nat /\ {0, n + k} \subseteq Nat
    BY <1>2
  <2> QED
    BY <2>1
<1> HIDE DEF told
<1>5. CASE u = none
  BY <1>5
<1>6. CASE u \in told
  BY <1>4, <1>6
<1>7. ASSUME NEW v \in told, u = [v EXCEPT !.total = v.prompt + v.completion]
      PROVE  u \in [stated : BOOLEAN, prompt : Nat, completion : Nat, total : Nat] /\ u.stated = TRUE
  <2>1. v.prompt \in Nat /\ v.completion \in Nat
    BY <1>4
  <2>2. PICK m \in Nat : m = v.prompt + v.completion
    BY <2>1
  <2>3. u = [v EXCEPT !.total = m]
    BY <1>7, <2>2
  <2> QED
    BY <1>4, <2>3
<1> QED
  BY <1>3, <1>5, <1>6, <1>7

LEMMA CompleteStep == ASSUME ConversationInv, NEW x \in Sends, complete(x) PROVE ConversationInv'
<1> DEFINE s == sends[x].chat
           a == [role |-> "assistant", of |-> x]
<1>1. x \in Called /\ UNCHANGED <<privacy, cloud, switches, crowded>>
  BY DEF complete, Called
<1>2. PICK u \in Usages(x) :
        /\ sends' = [sends EXCEPT ![x] = over(x, "done", u.prompt)]
        /\ chats' = [chats EXCEPT ![s] = [(IF u.stated THEN counted(chats[s], u) ELSE chats[s])
                                            EXCEPT !.messages = Append(@, a)]]
        /\ uneven' = IF u.total = u.prompt + u.completion THEN uneven ELSE uneven \cup {s}
  BY DEF complete
<1>3. u \in [stated : BOOLEAN, prompt : Nat, completion : Nat, total : Nat] /\ (u.stated = FALSE => u.prompt = 0)
  BY <1>1, UsageOfAnswer
<1>4. /\ sends[x] \in Running /\ chats[s] \in Chat /\ s \in Chats /\ chats[s].at # "absent"
      /\ chats \in [Chats -> Chat] /\ sends \in [Sends -> [at : {"new"}] \cup Over \cup Running]
  BY <1>1, CalledIsRunning
<1> DEFINE row == IF u.stated THEN counted(chats[s], u) ELSE chats[s]
           c == [row EXCEPT !.messages = Append(row.messages, a)]
<1>5. /\ row \in Chat /\ row.at = chats[s].at /\ row.messages = chats[s].messages
      /\ row.prompt = chats[s].prompt + u.prompt
      /\ s \notin uneven' => row.total = row.prompt + row.completion
  <2>1. CASE u.stated
    BY <1>2, <1>3, <1>4, <2>1, CountedIsChat
  <2>2. CASE ~u.stated
    BY <1>2, <1>3, <1>4, <2>2 DEF Chat, ConversationInv, TokensAreCounted
  <2> QED
    BY <2>1, <2>2
<1>6. chats' = [chats EXCEPT ![s] = c]
  BY <1>2
<1> HIDE DEF row
<1>7. a \in Message /\ chats[s].messages \in Seq(Message)
  BY <1>4 DEF Message, Chat
<1>7a. Append(chats[s].messages, a) \in Seq(Message)
  BY <1>7, AppendIsSequence
<1>8. /\ c \in Chat /\ c.at = chats[s].at /\ c.messages = Append(chats[s].messages, a)
      /\ c.prompt = chats[s].prompt + u.prompt
      /\ s \notin uneven' => c.total = c.prompt + c.completion
  BY <1>5, <1>7a DEF Chat
<1> HIDE DEF c
<1>9. /\ Called' = Called \ {x} /\ Begun' = Begun
      /\ \A t \in Chats : Spent(t)' = IF t = s THEN Spent(t) + u.prompt ELSE Spent(t)
      /\ \A y \in Sends \ {x} : sends'[y] = sends[y]
      /\ sends' \in [Sends -> [at : {"new"}] \cup Over \cup Running]
      /\ ModesAreMarked'
  BY <1>1, <1>2, <1>3, SendEnds
<1>10. \A t \in Chats : chats'[t] = IF t = s THEN c ELSE chats[t]
  BY <1>4, <1>6
<1>11. ConversationTyped'
  BY <1>1, <1>4, <1>6, <1>8, <1>9 DEF ConversationInv, ConversationTyped
<1>12. \A y \in Called \ {x} : sends'[y] = sends[y] /\ sends[y].chat \in Chats
  BY <1>9, CalledIsRunning DEF Called
<1>13. CalledHaveChats'
  BY <1>4, <1>8, <1>9, <1>10, <1>12 DEF ConversationInv, CalledHaveChats
<1>14. TokensAreCounted'
  <2>1. /\ \A t \in Chats : chats[t].prompt = Spent(t)
        /\ \A t \in Chats \ uneven : chats[t].total = chats[t].prompt + chats[t].completion
    BY DEF ConversationInv, TokensAreCounted
  <2>2. uneven \subseteq uneven'
    BY <1>2
  <2> QED
    BY <1>8, <1>9, <1>10, <2>1, <2>2 DEF TokensAreCounted
<1>15. OneAtATime'
  <2> SUFFICES ASSUME NEW t \in Chats \ crowded
               PROVE  LET m == chats'[t].messages IN
                      /\ \A y, z \in Called' : sends'[y].chat = t /\ sends'[z].chat = t => y = z
                      /\ \A y \in Called' : sends'[y].chat = t =>
                           /\ Len(m) > 0 /\ m[Len(m)] = Prompt(y)
                           /\ sends'[y].at = "streaming" => Last(sends'[y].seen) = Prompt(y)
                      /\ \A i \in 1 .. Len(m) : m[i].role = "assistant" => i > 1 /\ m[i - 1] = Prompt(m[i].of)
    BY <1>1 DEF OneAtATime
  <2>1. CASE t # s
    BY <1>9, <1>10, <1>12, <2>1 DEF ConversationInv, OneAtATime
  <2>2. CASE t = s
    <3> DEFINE m == chats[s].messages
    <3>1. /\ \A y \in Called : sends[y].chat = s => y = x
          /\ Len(m) > 0 /\ m[Len(m)] = Prompt(x)
          /\ \A i \in 1 .. Len(m) : m[i].role = "assistant" => i > 1 /\ m[i - 1] = Prompt(m[i].of)
      BY <1>1, <2>2 DEF ConversationInv, OneAtATime
    <3>2. chats'[t].messages = Append(m, a)
      BY <1>8, <1>10, <2>2
    <3>3. \A y \in Called' : sends'[y].chat # t
      BY <1>9, <1>12, <2>2, <3>1
    <3>3a. m \in Seq(Message) /\ a \in Message
      BY <1>7
    <3> HIDE DEF m, a
    <3>4. /\ Len(Append(m, a)) = Len(m) + 1 /\ Append(m, a)[Len(m) + 1] = a
          /\ \A i \in 1 .. Len(m) : Append(m, a)[i] = m[i]
          /\ Len(m) \in Nat
      BY <3>3a, AppendIsSequence
    <3>5. ASSUME NEW i \in 1 .. Len(m) + 1, Append(m, a)[i].role = "assistant"
          PROVE  i > 1 /\ Append(m, a)[i - 1] = Prompt(Append(m, a)[i].of)
      <4>1. CASE i = Len(m) + 1
        BY <3>1, <3>4, <4>1 DEF a
      <4>2. CASE i \in 1 .. Len(m)
        <5>1. Append(m, a)[i] = m[i]
          BY <3>4, <4>2
        <5>2. i > 1 /\ m[i - 1] = Prompt(m[i].of)
          BY <3>1, <3>5, <4>2, <5>1
        <5>3. Append(m, a)[i - 1] = m[i - 1]
          BY <3>4, <4>2, <5>2
        <5> QED
          BY <5>1, <5>2, <5>3
      <4> QED
        BY <3>4, <4>1, <4>2
    <3> QED
      BY <3>2, <3>3, <3>4, <3>5
  <2> QED
    BY <2>1, <2>2
<1> QED
  BY <1>9, <1>11, <1>13, <1>14, <1>15 DEF ConversationInv
LEMMA SendStep ==
  ASSUME ConversationInv, NEW x \in Sends, NEW s \in Chats, NEW given \in {"none", "openai"}, send(x, s, given)
  PROVE  ConversationInv'
<1> DEFINE m == chats[s].messages
           messages == Append(m, Prompt(x))
           to == IF given = "none" THEN route(messages) ELSE given
           blocked == given = "none" /\ to # Local /\ privacy = "global"
           failed == [at |-> "failed", chat |-> s, usage |-> 0]
           called == [at |-> IF to = "copilot" THEN "opening" ELSE "streaming", chat |-> s, usage |-> 0,
                      to |-> to, given |-> given, chosen |-> privacy, since |-> switches,
                      mode |-> privacy, read |-> switches, chunks |-> 0,
                      seen |-> IF to = "copilot" THEN <<>> ELSE messages]
           e == IF blocked THEN failed ELSE called
           c == [chats[s] EXCEPT !.messages = messages]
<1>1. /\ sends[x].at = "new" /\ chats[s].at = "kept"
      /\ chats' = [chats EXCEPT ![s] = c] /\ sends' = [sends EXCEPT ![x] = e]
      /\ crowded' = IF \A y \in Called : sends[y].chat # s THEN crowded ELSE crowded \cup {s}
      /\ UNCHANGED <<privacy, cloud, switches, uneven>>
  BY DEF send, Prompt
<1>2. /\ chats \in [Chats -> Chat] /\ chats[s] \in Chat /\ m \in Seq(Message)
      /\ sends \in [Sends -> [at : {"new"}] \cup Over \cup Running]
      /\ privacy \in PrivacyModes /\ cloud \in {"none"} \cup Providers /\ switches \in Nat
  BY DEF ConversationInv, ConversationTyped, Chat
<1>3. Prompt(x) \in Message /\ Prompt(x).role = "user"
  BY DEF Message, Prompt
<1>4. to \in Providers /\ (given = "none" /\ to # Local => privacy = "off")
  BY <1>2 DEF route, forcesLocal, Providers, PrivacyModes, Local
<1> HIDE DEF to, m
<1>5. /\ messages \in Seq(Message) /\ Len(m) \in Nat
      /\ Len(messages) = Len(m) + 1 /\ messages[Len(m) + 1] = Prompt(x)
      /\ \A i \in 1 .. Len(m) : messages[i] = m[i]
  BY <1>2, <1>3, AppendIsSequence
<1>6. c \in Chat /\ c.at = "kept" /\ c.messages = messages /\ c.prompt = chats[s].prompt
      /\ c.completion = chats[s].completion /\ c.total = chats[s].total
  BY <1>1, <1>2, <1>5 DEF Chat
<1> HIDE DEF messages, c
<1>7. called \in Running /\ failed \in Over
  BY <1>2, <1>4, <1>5 DEF Running, Over
<1>8. /\ e \in Over \cup Running /\ e.at # "new" /\ e.chat = s /\ e.usage = 0
      /\ e.at \in {"opening", "streaming"} =>
           /\ e.to = to /\ e.given = given /\ e.chosen = privacy /\ e.mode = privacy /\ e.since = switches
           /\ e.at = "opening" => to = "copilot"
           /\ e.at = "streaming" => e.seen = messages
  BY <1>7
<1> HIDE DEF e, called, failed, blocked
<1>9. /\ \A y \in Sends : sends'[y] = IF y = x THEN e ELSE sends[y]
      /\ \A t \in Chats : chats'[t] = IF t = s THEN c ELSE chats[t]
  BY <1>1, <1>2
<1>10. /\ x \notin Begun /\ Begun' = Begun \cup {x} /\ x \notin Called
       /\ Called \subseteq Called' /\ Called' \subseteq Called \cup {x}
       /\ Called \subseteq Sends /\ Begun \subseteq Sends
       /\ x \in Called' => e.at \in {"opening", "streaming"}
  BY <1>1, <1>8, <1>9 DEF Begun, Called
<1>11. ConversationTyped'
  BY <1>1, <1>2, <1>6, <1>8 DEF ConversationTyped
<1>12. ModesAreMarked'
  <2>1. e.at \in {"opening", "streaming"} => InMode(e) /\ Marked(e)
    BY <1>2, <1>4, <1>8 DEF InMode, Marked
  <2> QED
    BY <1>1, <1>9, <1>10, <2>1, MarksStay
<1>13. \A y \in Called : sends'[y] = sends[y] /\ sends[y].chat \in Chats
  BY <1>9, <1>10, CalledIsRunning
<1>14. CalledHaveChats'
  BY <1>6, <1>8, <1>9, <1>10, <1>13 DEF ConversationInv, CalledHaveChats
<1>15. OneAtATime'
  <2> SUFFICES ASSUME NEW t \in Chats \ crowded'
               PROVE  LET n == chats'[t].messages IN
                      /\ \A y, z \in Called' : sends'[y].chat = t /\ sends'[z].chat = t => y = z
                      /\ \A y \in Called' : sends'[y].chat = t =>
                           /\ Len(n) > 0 /\ n[Len(n)] = Prompt(y)
                           /\ sends'[y].at = "streaming" => Last(sends'[y].seen) = Prompt(y)
                      /\ \A i \in 1 .. Len(n) : n[i].role = "assistant" => i > 1 /\ n[i - 1] = Prompt(n[i].of)
    BY DEF OneAtATime
  <2>0. t \notin crowded
    BY <1>1
  <2>1. CASE t # s
    <3>1. \A y \in Called' : sends'[y].chat = t => y \in Called /\ sends'[y] = sends[y]
      BY <1>8, <1>9, <1>10, <1>13, <2>1
    <3>2. chats'[t] = chats[t]
      BY <1>9, <2>1
    <3> QED
      BY <2>0, <3>1, <3>2 DEF ConversationInv, OneAtATime
  <2>2. CASE t = s
    <3>1. \A y \in Called : sends[y].chat # s
      BY <1>1, <2>2
    <3>2. \A y \in Called' : sends'[y].chat = s => y = x
      BY <1>10, <1>13, <3>1
    <3>3. chats'[t].messages = messages
      BY <1>6, <1>9, <2>2
    <3>4. \A i \in 1 .. Len(m) : m[i].role = "assistant" => i > 1 /\ m[i - 1] = Prompt(m[i].of)
      BY <2>0, <2>2 DEF ConversationInv, OneAtATime, m
    <3>5. ASSUME NEW i \in 1 .. Len(messages), messages[i].role = "assistant"
          PROVE  i > 1 /\ messages[i - 1] = Prompt(messages[i].of)
      <4>1. CASE i = Len(m) + 1
        BY <1>3, <1>5, <3>5, <4>1
      <4>2. CASE i \in 1 .. Len(m)
        <5>1. messages[i] = m[i] /\ i > 1 /\ m[i - 1] = Prompt(m[i].of)
          BY <1>5, <3>4, <3>5, <4>2
        <5>2. messages[i - 1] = m[i - 1]
          BY <1>5, <4>2, <5>1
        <5> QED
          BY <5>1, <5>2
      <4> QED
        BY <1>5, <4>1, <4>2
    <3>6. x \in Called' /\ sends'[x].at = "streaming" => Last(sends'[x].seen) = Prompt(x)
      BY <1>5, <1>8, <1>9, <1>10 DEF Last
    <3> QED
      BY <1>5, <2>2, <3>2, <3>3, <3>5, <3>6
  <2> QED
    BY <2>1, <2>2
<1>16. TokensAreCounted'
  <2>1. ASSUME NEW t \in Chats PROVE Spent(t)' = Spent(t)
    <3>1. \A y \in SendsOf(t) : y \in Begun /\ sends'[y] = sends[y]
      BY <1>9, <1>10 DEF SendsOf
    <3>2. CASE t = s
      <4>1. SendsOf(t)' = SendsOf(t) \cup {x} /\ x \notin SendsOf(t) /\ sends'[x].usage = 0
        BY <1>8, <1>9, <1>10, <3>2 DEF SendsOf
      <4> QED
        BY <3>1, <4>1, SpentBegins
    <3>3. CASE t # s
      <4>1. SendsOf(t)' = SendsOf(t)
        BY <1>8, <1>9, <1>10, <3>3 DEF SendsOf
      <4> QED
        BY <3>1, <4>1, SpentSame
    <3> QED
      BY <3>2, <3>3
  <2> QED
    BY <1>1, <1>6, <1>9, <2>1 DEF ConversationInv, TokensAreCounted
<1> QED
  BY <1>11, <1>12, <1>14, <1>15, <1>16 DEF ConversationInv

LEMMA ConversationStep == ConversationInv /\ [ConversationNext]_conversationVars => ConversationInv'
<1> SUFFICES ASSUME ConversationInv, [ConversationNext]_conversationVars PROVE ConversationInv'
  OBVIOUS
<1>1. CASE UNCHANGED conversationVars
  <2>1. Called' = Called /\ Begun' = Begun
    BY <1>1 DEF conversationVars, Called, Begun
  <2>2. \A t \in Chats : Spent(t)' = Spent(t)
    BY <1>1, <2>1, SpentSame DEF conversationVars, SendsOf
  <2> QED
    BY <1>1, <2>1, <2>2 DEF conversationVars, ConversationInv, ConversationTyped, ModesAreMarked, Marked, CalledHaveChats,
                           OneAtATime, TokensAreCounted
<1> QED
  BY <1>1, CreateStep, DeleteChatStep, PrivacyStep, OpenedStep, ChunkStep, CompleteStep, SendFailsStep, SendStep
     DEF ConversationNext

\* What the inductive invariant says, in the words of the property.
LEMMA ConversationIsProperty == ConversationInv => ConversationIsKept
<1> SUFFICES ASSUME ConversationInv PROVE ConversationIsKept
  OBVIOUS
<1>1. AnswersFollowPrompts
  <2>1. \A s \in Chats : DOMAIN chats[s].messages = 1 .. Len(chats[s].messages)
    BY DEF ConversationInv, ConversationTyped, Chat
  <2> QED
    BY <2>1 DEF ConversationInv, OneAtATime, AnswersFollowPrompts, Prompt
<1>2. TokensAddUp
  BY DEF ConversationInv, TokensAreCounted, TokensAddUp, Spent, SendsOf, Total
<1>3. CloudOnlyWhenOff
  BY DEF ConversationInv, ModesAreMarked, InMode, CloudOnlyWhenOff
<1> QED
  BY <1>1, <1>2, <1>3 DEF ConversationIsKept

\* For any sessions, sends and switches of the privacy mode: the router hands the cloud
\* nothing while the mode is on, but for a Copilot session that was being opened, answers
\* follow their prompts, and no tokens of a prompt are lost.
THEOREM ConversationIsAlwaysKept == ConversationSpec => []ConversationIsKept
  BY ConversationStart, ConversationStep, ConversationIsProperty, PTL DEF ConversationSpec

(***************************************************************************)
(* Beside each other.                                                      *)
(***************************************************************************)

\* Whichever part moves: the broker and YouTube's ledger keep within their limits.
THEOREM BudgetsAreAlwaysKept == WaitsSpec => []BudgetsAreKept
<1>1. WaitsInit => RateInv /\ YouTubeInv
  BY RateStart, YouTubeStart DEF WaitsInit
<1>2. RateInv /\ YouTubeInv /\ [WaitsNext]_waitsVars => (RateInv /\ YouTubeInv)'
  <2>1. [WaitsNext]_waitsVars => [RateNext]_rateVars /\ [YouTubeNext]_youtubeVars
    BY DEF WaitsNext, waitsVars, InQueue, InRates, InYouTube, InChats
  <2> QED
    BY <2>1, RateStep, YouTubeStep
<1>3. RateInv /\ YouTubeInv => BudgetsAreKept
  BY LedgerIsProperty DEF RateInv, BudgetsAreKept
<1> QED
  BY <1>1, <1>2, <1>3, PTL DEF WaitsSpec
=============================================================================
