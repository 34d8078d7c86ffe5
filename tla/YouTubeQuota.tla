---------------------------- MODULE YouTubeQuota ----------------------------
(* The daily quota of the YouTube connector: what is over the ceiling goes  *)
(* to the outbox for the next UTC day, what is not is charged, and the first *)
(* charge past 80 % of a day is announced.  (The connector meters calls; the *)
(* request itself is its caller's.)                                          *)
EXTENDS Integers, FiniteSets, FiniteSetsExt

CONSTANTS YouTubeCalls,
          YOUTUBE_DAILY_QUOTA, READ_COST, WRITE_COST,
          MaxDay,           \* bound on the UTC days
          MaxQuotaKills     \* bound on the ends of the process

ASSUME YouTubeAssumption ==
  /\ IsFiniteSet(YouTubeCalls)
  /\ {YOUTUBE_DAILY_QUOTA, READ_COST, WRITE_COST, MaxDay} \subseteq Nat \ {0} /\ MaxQuotaKills \in Nat
  /\ 10 * WRITE_COST < 8 * YOUTUBE_DAILY_QUOTA /\ READ_COST <= WRITE_COST

VARIABLES today,        \* the UTC day
          quota_units,  \* the column of that name of youtube_quota_usage, by day
          alert_sent,   \* the days whose flag is set
          meter,        \* the calls: how far they are, their cost, and the day they began on
          laterPosts,   \* the rows of the outbox: the call and its day
          shown,        \* history: how often the operator was shown a day's alert
          alerting,     \* a notifier is configured
          marred,       \* history: days whose alerts overlapped, or whose flag was not set after one
          quotaKills

youtubeVars ==
  <<today, quota_units, alert_sent, meter, laterPosts, shown, alerting, marred, quotaKills>>

UtcDays == 0 .. MaxDay

YouTubeInit ==
  /\ today = 0 /\ quota_units = [d \in UtcDays |-> 0] /\ alert_sent = {}
  /\ meter = [c \in YouTubeCalls |-> [at |-> "new", cost |-> 0, day |-> 0]]
  /\ laterPosts = {} /\ shown = [d \in UtcDays |-> 0] /\ marred = {} /\ quotaKills = 0
  /\ alerting \in BOOLEAN

midnight ==
  /\ today < MaxDay /\ today' = today + 1
  /\ UNCHANGED <<alerting, quota_units, alert_sent, meter, laterPosts, shown, marred, quotaKills>>

isQuotaExhausted(cost, day) == quota_units[day] + cost > YOUTUBE_DAILY_QUOTA

Notifying(day) == {c \in YouTubeCalls : meter[c].at = "notifying" /\ meter[c].day = day}

\* An alert is due when somebody can be told, the day is past 80 % and its flag is not set.
alertDue(units, day) == alerting /\ 10 * units[day] >= 8 * YOUTUBE_DAILY_QUOTA /\ day \notin alert_sent

\* A call over the ceiling is stored for the next day.
enqueue(c, cost) ==
  /\ meter[c].at = "new" /\ isQuotaExhausted(cost, today)
  /\ laterPosts' = laterPosts \cup {[of |-> c, publishAt |-> today + 1]}
  /\ meter' = [meter EXCEPT ![c].at = "queued"]
  /\ UNCHANGED <<alerting, today, quota_units, alert_sent, shown, marred, quotaKills>>

\* Any other is charged to the day that the ledger reads from the clock itself, which
\* may be the next; the alert is that of the day that was checked.
charge(c, cost) ==
  /\ meter[c].at = "new" /\ ~isQuotaExhausted(cost, today)
  /\ \E d \in {today, today + 1} \cap UtcDays :
       /\ today' = d
       /\ quota_units' = [quota_units EXCEPT ![d] = @ + cost]
       /\ LET due == alertDue(quota_units', today) IN
          /\ meter' = [meter EXCEPT ![c] = [at |-> IF due THEN "notifying" ELSE "done", cost |-> cost, day |-> today]]
          /\ marred' = IF due /\ Notifying(today) # {} THEN marred \cup {today} ELSE marred
  /\ UNCHANGED <<alerting, alert_sent, laterPosts, shown, quotaKills>>

notified(c) ==
  /\ meter[c].at = "notifying"
  /\ shown' = [shown EXCEPT ![meter[c].day] = @ + 1]
  /\ alert_sent' = alert_sent \cup {meter[c].day}
  /\ meter' = [meter EXCEPT ![c].at = "done"]
  /\ UNCHANGED <<alerting, today, quota_units, laterPosts, marred, quotaKills>>

\* The notifier throws, with the message shown or not: the flag is not set, and the
\* caller of a call that was charged is told that it failed.
notifyFails(c) ==
  /\ meter[c].at = "notifying"
  /\ \E seen \in {0, 1} : shown' = [shown EXCEPT ![meter[c].day] = @ + seen]
  /\ meter' = [meter EXCEPT ![c].at = "failed"]
  /\ marred' = marred \cup {meter[c].day}
  /\ UNCHANGED <<alerting, today, quota_units, alert_sent, laterPosts, quotaKills>>

\* The process ends: the ledger stays, the calls under way do not.
quotaKilled ==
  /\ quotaKills < MaxQuotaKills /\ quotaKills' = quotaKills + 1
  /\ LET gone == {c \in YouTubeCalls : meter[c].at = "notifying"} IN
     /\ \E seen \in SUBSET gone :
          shown' = [d \in UtcDays |-> shown[d] + Quantify(seen, LAMBDA c : meter[c].day = d)]
     /\ meter' = [c \in YouTubeCalls |-> IF c \in gone THEN [meter[c] EXCEPT !.at = "failed"] ELSE meter[c]]
     /\ marred' = marred \cup {meter[c].day : c \in gone}
  /\ UNCHANGED <<alerting, today, quota_units, alert_sent, laterPosts>>

YouTubeNext ==
  \/ midnight
  \/ quotaKilled
  \/ \E c \in YouTubeCalls : \/ notified(c) \/ notifyFails(c)
                             \/ \E cost \in {READ_COST, WRITE_COST} : enqueue(c, cost) \/ charge(c, cost)

YouTubeSpec == YouTubeInit /\ [][YouTubeNext]_youtubeVars

-----------------------------------------------------------------------------
(* Properties.                                                             *)

\* No day is charged more than its ceiling, and what was charged is what calls
\* passed on cost together: a call that waits for the next day, or one whose
\* alert failed, is charged not at all, or once.
UnitsAreCounted ==
  /\ \A d \in UtcDays : quota_units[d] <= YOUTUBE_DAILY_QUOTA
  /\ MapThenSumSet(LAMBDA d : quota_units[d], UtcDays) = MapThenSumSet(LAMBDA c : meter[c].cost, YouTubeCalls)
  /\ \A c \in YouTubeCalls : meter[c].at = "queued" => meter[c].cost = 0 /\ \E p \in laterPosts : p.of = c

\* "the alert fires exactly once per UTC day regardless of how many writes happen
\* after" (docs/ARCHITECTURE.md:1053), but for a day whose alerts were under way
\* together, or failed, or ended with the process: the flag is read before the
\* notification is awaited and set after it.
AlertedOnce ==
  \A d \in UtcDays \ marred :
    /\ shown[d] <= 1
    /\ alerting /\ 10 * quota_units[d] >= 8 * YOUTUBE_DAILY_QUOTA => shown[d] = 1 \/ Notifying(d) # {}
    /\ d \in alert_sent => shown[d] = 1

DailyQuotaIsKept == UnitsAreCounted /\ AlertedOnce
=============================================================================
