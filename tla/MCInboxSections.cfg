CONSTANTS
  Threads = {"x", "ig", "li"}
  PlatformOf <- MCPlatformOf
  Written = {"m1", "m2", "m3", "m4"}
  Early = {"m3", "m4"}
  Own = {"m3", "m4"}
  Replies = {"r1"}
  InThread <- MCInThread
  Undated = {"m2"}
  Registered = {"twitter", "instagram"}
  Drafts <- MCDrafts
  Opened = {"x"}
  DayLength = 2
  MaxNow = 2
  Me = Me
  NoOne = NoOne
  NoStamp = NoStamp
  NoThread = NoThread
SPECIFICATION InboxSpec
INVARIANT EveryMessageIsShown
CHECK_DEADLOCK FALSE
