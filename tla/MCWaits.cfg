\* Approvals: fewer ids than requests, so that ids are used again; room for two.
\* Rates: costs that fit, just fit and never fit; the clock reaches every deadline.
CONSTANTS
  Requests = {r1, r2, r3}
  Ids = {i1, i2}
  MaxPending = 2
  Calls = {c1, c2, c3}
  Costs = {1, 2, 4}
  Timeouts = {0, 2, 4}
  Capacity = 3
  WarnAt = 2
  Quota = 5
  MaxTime = 4
\* YouTube: calls over the ceiling of a day, midnight and the end of the process meanwhile.
  YouTubeCalls = {y1, y2, y3, y4}
  YOUTUBE_DAILY_QUOTA = 5
  READ_COST = 1
  WRITE_COST = 2
  MaxDay = 1
  MaxQuotaKills = 1
\* Chats: two sends to one session, which overlap or follow a failed one; one to the cloud.
  Chats = {s1}
  MaxSends = 2
  cloudThresholdTokens = 1
  MaxChunks = 1
  MaxSwitches = 1
SPECIFICATION WaitsSpec
INVARIANTS WaitersMatchEntries BudgetsAreKept ConversationIsKept
PROPERTIES FirstOutcomeStands TimedRequestSettles Answered
CHECK_DEADLOCK FALSE
