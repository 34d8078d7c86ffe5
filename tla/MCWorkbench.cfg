CONSTANTS
\* Webhooks: two events of one second, one with an id of its own, one without an id.
  e1 = e1
  e2 = e2
  e3 = e3
  e4 = e4
  i1 = i1
  i2 = i2
  NoId = NoId
  Events = {e1, e2, e3, e4}
  Ids = {i1, i2}
  Deliveries = {d1, d2, d3, d4}
  IdOf <- SecondIdOf
  MaxCrashes = 1
\* Publishing: five attempts, three polls, carousels of two and three.
  MaxAttempts = 5
  MaxPolls = 3
  MinChildren = 2
  MaxChildren = 3
  MaxRounds = 2
\* Live views: one or two changes of each table and one lost connection.
  MaxChanges = 2  ChangeOnce = {"inbox", "auto-reply", "outbox"}  MaxDrops = 1
\* Setup: two requests under way at once; nothing depends on which provider it is.
  SETUP_PROVIDERS = {"openai"}
  MaxRequests = 2
\* Voice: imports of up to two examples.
  MaxImport = 2
\* Models: three machines, two selects at once.
  Hosts <- SomeHosts  MaxSelects = 2  SelectsAtOnce = 2
\* Onboarding: two requests under way at once, two steps worked on.
  MaxPending = 2  MaxSteps = 2
\* Analytics: two days, two windows, three meters, two readings of each; a
\* leaderboard shorter than the posts there are and than the digest's list.
  Meters <- SomeMeters
  ROLLUP_WINDOWS = {1, 2}
  Week = 1
  TopLimit = 1
  DigestLimit = 2
  Offset = 1
  DigestTime = 3
  PublishTime = 1
  MaxTime = 3
  MaxValue = 1
  MaxReadings = 2
  MaxPosts = 1
\* Server: every set of five of the features, one alert.
  Features = {"twitter", "meta", "outbox", "telegram", "analytics"}
  Wanted = {"health", "inbox", "twitter"}
  MaxAlerts = 1
\* Sessions: two of them, two calls queued, two entries, one crash.
  SessionIds = {a, b}
  MaxQueue = 2
  MaxEntries = 2
  MaxSessionCrashes = 1
\* Quota: more writes than the cap admits, one of them a DM, over two months and
\* one restart.
  Writes = {w1, w2, w3}
  Dms = {w3}
  Cap = 2
  WarnAt = 1
  MaxMonth = 2
  MaxTries = 2
  MaxRestarts = 1
SPECIFICATION WorkbenchSpec
INVARIANTS
  TableTellsWhatBegan PublishesAreAccounted ShowsWhatItWasTold FinishedIsComplete RulebookIsAsTold
  SelectionIsKept DoneIsStored FiguresAgreeAndArrive ServerIsWhole TranscriptsAreWhole QuotaIsKept
CHECK_DEADLOCK FALSE
