SPECIFICATION AnalyticsSpec
CONSTANTS
  Meters <- SomeMeters
  ROLLUP_WINDOWS = {1, 2}
  Week = 1
  TopLimit = 2
  DigestLimit = 2
  Offset = 1
  DigestTime = 3
  PublishTime = 1
  MaxTime = 6
  MaxValue = 1
  MaxReadings = 2
  MaxPosts = 1
INVARIANT CardsAndTopPostsAgree
