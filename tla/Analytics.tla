----------------------------- MODULE Analytics ------------------------------
(***************************************************************************)
(* The readings the connectors' pollers record, the daily aggregation that  *)
(* replaces the day's snapshot in the three cache tables, what the          *)
(* dashboard reads from them, and the weekly digest and its delivery        *)
(* (src/analytics, src/server/analytics/router.ts, ui/lib/analytics.ts).    *)
(*                                                                          *)
(* Time passes in half days, each instant the first of its half: DAY is 2   *)
(* and an even instant is midnight UTC.  The clock face has two hours.      *)
(***************************************************************************)
EXTENDS Integers, FiniteSets, FiniteSetsExt

CONSTANTS Meters,          \* what pollers read: [platform, objectType, objectId, metric, key]
          ROLLUP_WINDOWS,  \* the trailing windows, in days
          Week,            \* the digest's window
          TopLimit,        \* posts on a leaderboard, one per platform and window
          DigestLimit,     \* posts that the digest shows, of all platforms
          Offset,          \* the configured time zone, in half days
          DigestTime,      \* the instant digestCron names
          PublishTime,     \* the instant at which posts are published
          MaxTime, MaxValue, MaxReadings, MaxPosts

ASSUME AnalyticsAssumption == /\ ROLLUP_WINDOWS \subseteq Nat \ {0} /\ Week \in ROLLUP_WINDOWS
                              /\ {TopLimit, DigestLimit, MaxTime, MaxValue, MaxReadings, MaxPosts} \subseteq Nat \ {0}
                              /\ \A m \in Meters : m.objectId \in Int   \* ids are compared

VARIABLES now,        \* half days since a Sunday
          zone,       \* whether analytics.timezone names a time zone
          raw,        \* platform_insights_raw
          posts,      \* the outbox rows that are published
          rollup, heatmap, board,   \* analytics_rollup, analytics_heatmap, analytics_top_posts
          digest      \* the digest under way and the channels it has tried

analyticsVars == <<now, zone, raw, posts, rollup, heatmap, board, digest>>

DAY == 2
POST_LIKE_OBJECT_TYPES == {"post", "media", "pin", "video", "tweet", "reel"}
ENGAGEMENT_METRICS     == {"likes", "comments", "replies", "retweets", "saved"}
IMPRESSION_METRICS     == {"impressions", "page_impressions", "views", "reach"}
FOLLOWERS_METRIC       == "followers"

utcDayKey(t) == t \div DAY
Token == -1    \* a key that is no date: parseDayKeyMs makes null of it
withinWindow(key, at, days) == key # Token /\ key * DAY >= at - days * DAY /\ key * DAY <= at

-----------------------------------------------------------------------------
(* Aggregation.                                                             *)

Readings(seen, p, i, m) == {r.value : r \in {s \in seen : s.platform = p /\ s.objectId = i /\ s.metric = m}}

\* Counters are cumulative: the largest reading of the window counts.
sumMetrics(seen, p, i, M) == MapThenSumSet(LAMBDA m : Max(Readings(seen, p, i, m) \cup {0}), M)

aggregatePostMetrics(insights, at, days) ==
    LET seen == {r \in insights : /\ r.objectType \in POST_LIKE_OBJECT_TYPES
                                  /\ withinWindow(r.capturedFor, at, days)
                                  /\ r.metric \in ENGAGEMENT_METRICS \cup IMPRESSION_METRICS}
    IN  {[platform |-> k[1], objectId |-> k[2], engagement |-> sumMetrics(seen, k[1], k[2], ENGAGEMENT_METRICS),
          impressions |-> sumMetrics(seen, k[1], k[2], IMPRESSION_METRICS)] :
            k \in {<<r.platform, r.objectId>> : r \in seen}}

followersByPlatform(insights, at, days, p) ==
    Max({0} \cup {r.value : r \in {s \in insights : /\ s.metric = FOLLOWERS_METRIC /\ s.platform = p
                                                    /\ withinWindow(s.capturedFor, at, days)}})

engagementOf(totals, p) == MapThenSumSet(LAMBDA t : t.engagement, {t \in totals : t.platform = p})

figure(totals, followers, p, m) ==
    CASE m = "engagement"  -> engagementOf(totals, p)
      [] m = "posts"       -> Cardinality({t \in totals : t.platform = p})
      [] m = "impressions" -> MapThenSumSet(LAMBDA t : t.impressions, {t \in totals : t.platform = p})
      [] m = "followers"   -> followers

\* Every platform seen gets its rows for every window, zeros included.
windowRows(insights, published, at, w) ==
    LET totals == aggregatePostMetrics(insights, at, w) IN
    {[platform |-> k[1], windowDays |-> w, metric |-> k[2],
      value |-> figure(totals, followersByPlatform(insights, at, w, k[1]), k[1], k[2]), capturedFor |-> utcDayKey(at)] :
        k \in {x.platform : x \in insights \cup published} \X {"engagement", "posts", "impressions", "followers"}}

rollupEngagement(insights, published, at) == UNION {windowRows(insights, published, at, w) : w \in ROLLUP_WINDOWS}

Better(a, b) == a.engagement > b.engagement \/ (a.engagement = b.engagement /\ a.objectId < b.objectId)
Ranked(totals, limit) ==
    {t \in {[platform |-> t.platform, externalId |-> t.objectId, engagement |-> t.engagement,
             rank |-> 1 + Cardinality({u \in totals : Better(u, t)})] : t \in totals} : t.rank <= limit}

\* Each platform has its own leaderboard.
topPosts(insights, at, days, limit) ==
    LET totals == aggregatePostMetrics(insights, at, days) IN
    UNION {Ranked({t \in totals : t.platform = p}, limit) : p \in {t.platform : t \in totals}}

localDayOfWeek(t) == ((t + Offset) \div DAY) % 7
localHourOfDay(t) == (t + Offset) % DAY
bucketPublishTimes(published) ==
    LET Slot(p) == [platform |-> p.platform, dayOfWeek |-> localDayOfWeek(p.publishedAt),
                    hourOfDay |-> localHourOfDay(p.publishedAt)] IN
    {[slot |-> Slot(p), count |-> Cardinality({q \in published : Slot(q) = Slot(p)})] : p \in published}

\* The day's rows of the three tables are replaced, in one transaction.
Replace(table, day, rows) == {r \in table : r.capturedFor # day} \cup rows
Replace_Upsert(table, day, rows) == table \cup rows

AnalyticsInit == /\ now = 0 /\ zone \in BOOLEAN /\ raw = {} /\ posts = {}
                 /\ rollup = {} /\ heatmap = {} /\ board = {}
                 /\ digest = [at |-> "idle", channels |-> {}, tried |-> {}]

writeSnapshot_RanksStay(day, rows, buckets, boards) ==
    /\ rollup' = Replace(rollup, day, rows) /\ heatmap' = Replace(heatmap, day, buckets)
    /\ board' = Replace_Upsert(board, day, boards)
writeSnapshot(day, rows, buckets, boards) ==
    /\ rollup' = Replace(rollup, day, rows) /\ heatmap' = Replace(heatmap, day, buckets)
    /\ board' = Replace(board, day, boards)

\* Reads, computes and writes without a pause; an unknown time zone throws
\* before anything is written, and the tick only logs it.
runAggregation ==
    LET day == utcDayKey(now) IN
    /\ zone
    /\ writeSnapshot(day, rollupEngagement(raw, posts, now),
                     {[slot |-> b.slot, count |-> b.count, capturedFor |-> day] : b \in bucketPublishTimes(posts)},
                     UNION {{[post |-> t, windowDays |-> w, capturedFor |-> day] : t \in topPosts(raw, now, w, TopLimit)} :
                                w \in ROLLUP_WINDOWS})
    /\ UNCHANGED <<now, zone, raw, posts, digest>>

-----------------------------------------------------------------------------
(* What the dashboard reads: each table's own newest day.                   *)

Latest(table) == {r \in table : \A s \in table : s.capturedFor <= r.capturedFor}
getSummary(w) == {r \in Latest(rollup) : r.windowDays = w}
getTopPosts(w) == {r.post : r \in {s \in Latest(board) : s.windowDays = w}}
getEngagementSeries(w) == {r \in rollup : r.windowDays = w /\ r.metric = "engagement"}
getHeatmap == Latest(heatmap)

Card(w, m) == MapThenSumSet(LAMBDA r : r.value, {r \in getSummary(w) : r.metric = m})
matrix == MapThenSumSet(LAMBDA b : b.count, getHeatmap)
pivotEngagement(w, day) == MapThenSumSet(LAMBDA r : r.value, {r \in getEngagementSeries(w) : r.capturedFor = day})

-----------------------------------------------------------------------------
(* The digest, from the raw readings.                                       *)

weekOverWeekDeltas(insights, at) ==
    LET this == aggregatePostMetrics(insights, at, Week)
        last == aggregatePostMetrics(insights, at - Week * DAY, Week)
    IN  {[platform |-> p, thisWeek |-> engagementOf(this, p), lastWeek |-> engagementOf(last, p)] :
            p \in {t.platform : t \in this \cup last}}

\* One ranking across platforms, with a limit of its own (analytics.digestTopPosts).
composeWeeklyDigest(insights, at) ==
    [top |-> Ranked(aggregatePostMetrics(insights, at, Week), DigestLimit), deltas |-> weekOverWeekDeltas(insights, at)]

\* The guard `running` holds until both channels have answered.  channels:
\* Telegram when it started, e-mail when createMailer found its settings.
digestTick == \E channels \in SUBSET {"telegram", "email"} :
    /\ zone /\ now = DigestTime /\ digest.at = "idle"
    /\ digest' = [at |-> "telegram", channels |-> channels, tried |-> {}]
    /\ UNCHANGED <<now, zone, raw, posts, rollup, heatmap, board>>

\* A failure of one channel is logged and the digest goes on.
afterTelegram(ok) == "email"
runDigest == \E ok \in BOOLEAN :
    /\ digest.at \in {"telegram", "email"}
    /\ ~ok => digest.at \in digest.channels
    /\ digest' = [digest EXCEPT !.tried = @ \cup ({digest.at} \cap digest.channels),
                                !.at = IF @ = "telegram" THEN afterTelegram(ok) ELSE "done"]
    /\ UNCHANGED <<now, zone, raw, posts, rollup, heatmap, board>>
digestDone == /\ digest.at = "done"
              /\ digest' = [at |-> "idle", channels |-> {}, tried |-> {}]
              /\ UNCHANGED <<now, zone, raw, posts, rollup, heatmap, board>>

-----------------------------------------------------------------------------
(* The surroundings.                                                        *)

Same(r, m) == <<r.platform, r.objectType, r.objectId, r.metric>> = <<m.platform, m.objectType, m.objectId, m.metric>>

\* A poller's upsert; a counter never falls.
record == \E m \in Meters, v \in 1 .. MaxValue :
    LET key == IF m.key = "day" THEN utcDayKey(now) ELSE Token
        kept == {r \in raw : ~(Same(r, m) /\ r.capturedFor = key)}
    IN  /\ Cardinality(kept) < MaxReadings
        /\ \A r \in raw : Same(r, m) => r.value <= v
        /\ raw' = kept \cup {[platform |-> m.platform, objectType |-> m.objectType, objectId |-> m.objectId,
                              metric |-> m.metric, value |-> v, capturedFor |-> key]}
        /\ UNCHANGED <<now, zone, posts, rollup, heatmap, board, digest>>

publish == \E m \in Meters :
    /\ m.objectType \in POST_LIKE_OBJECT_TYPES /\ now = PublishTime
    /\ \A p \in posts : p.externalId # m.objectId
    /\ Cardinality(posts) < MaxPosts
    /\ posts' = posts \cup {[platform |-> m.platform, externalId |-> m.objectId, publishedAt |-> now]}
    /\ UNCHANGED <<now, zone, raw, rollup, heatmap, board, digest>>

\* Deleting a contact removes the readings of its accounts.
erase == \E i \in {r.objectId : r \in raw} :
    /\ raw' = {r \in raw : r.objectId # i}
    /\ UNCHANGED <<now, zone, posts, rollup, heatmap, board, digest>>

Tick == /\ now < MaxTime /\ now' = now + 1
        /\ UNCHANGED <<zone, raw, posts, rollup, heatmap, board, digest>>

AnalyticsNext == \/ runAggregation \/ digestTick \/ runDigest \/ digestDone
                 \/ record \/ publish \/ erase \/ Tick

AnalyticsSpec == AnalyticsInit /\ [][AnalyticsNext]_analyticsVars

-----------------------------------------------------------------------------
(* Properties.                                                              *)

BoardOn(day, w, p) == {r.post : r \in {s \in board : /\ s.capturedFor = day /\ s.windowDays = w
                                                     /\ s.post.platform = p}}

\* However often a day is aggregated, and whatever went or aged in between, a
\* stored leaderboard is the one its day's numbers were computed with: its
\* posts rank from 1 without a gap, their engagement adds up to the platform's
\* figure, or to no more when the platform has more posts than the limit, and
\* the chart's last point is the card.  When the page shows the leaderboards of
\* an older day than the cards, the cards count no engagement.  The digest's
\* highlights, ranked across platforms, are on their own platforms' leaderboards
\* as far as these go: a digest may be longer than a leaderboard.  Its week is
\* theirs.
SnapshotAgrees ==
    /\ \A r \in rollup : r.metric = "engagement" =>
          LET b == BoardOn(r.capturedFor, r.windowDays, r.platform)
              sum == MapThenSumSet(LAMBDA t : t.engagement, b)
          IN  /\ {t.rank : t \in b} = 1 .. Cardinality(b)
              /\ sum <= r.value
              /\ Cardinality(b) < TopLimit => sum = r.value
    /\ rollup # {} => \A w \in ROLLUP_WINDOWS :
          pivotEngagement(w, Max({r.capturedFor : r \in rollup})) = Card(w, "engagement")
    /\ \A b \in Latest(board), r \in Latest(rollup) :
          b.capturedFor < r.capturedFor /\ r.metric = "engagement" => r.value = 0
    /\ LET sent == composeWeeklyDigest(raw, now)
           boards == topPosts(raw, now, Week, TopLimit)
           figures == rollupEngagement(raw, posts, now)
       IN  /\ \A t \in sent.top : t.rank <= TopLimit =>
                 \E u \in boards : u.externalId = t.externalId /\ u.rank <= t.rank
           /\ \A d \in sent.deltas : \E r \in figures :
                 <<r.platform, r.windowDays, r.metric, r.value>> = <<d.platform, Week, "engagement", d.thisWeek>>

\* A digest is over only when each channel there is has been tried, whatever
\* came of the others.
EveryChannelIsTried == digest.at = "done" => digest.tried = digest.channels

\* "so the "top posts" the dashboard shows and the totals the KPI cards show
\* can never disagree" (src/analytics/top-posts.ts).  They do when the newest
\* aggregation found no post to rank: the leaderboard of an earlier day stays
\* on the page beside the new totals.
CardsAndTopPostsAgree == \A w \in ROLLUP_WINDOWS :
    MapThenSumSet(LAMBDA t : t.engagement, getTopPosts(w)) <= Card(w, "engagement")

\* The figures agree with one another and reach every channel of the digest.
FiguresAgreeAndArrive == SnapshotAgrees /\ EveryChannelIsTried
=============================================================================
