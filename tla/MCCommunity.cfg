CONSTANTS
\* DM replies: three messages, two of them on one thread, room for two approvals.
  m1 = m1
  m2 = m2
  m3 = m3
  t1 = t1
  t2 = t2
  Requests = {m1, m2, m3}
  Ids = {m1, m2, m3}
  MaxPending = 2
  DmThreads = {t1, t2}
  DmThreadOf <- MCDmThreadOf
  DmDrafts = {d1, d2}
\* Auto-replies: one row, overlapping resolutions, lost answers, one crash.
  MaxRows = 1
  Texts = {t1, t2}
  Contacts = {c1}
  MaxCalls = 2
  MaxCrashes = 1
\* Contacts: three accounts, merges and deletions of what their messages make.
  Accounts = {1, 2, 3}
  Messages = {1, 2, 3}
  Author <- MCAuthor
  MailIn <- MCMailIn
  Profiles <- MCProfiles
  MaxContacts = 3
  NoMail = NoMail
  NoRow = NoRow
  EngagementTarget = 2
  FollowerTarget = 3
  WordsIn <- MCWordsIn
  Window <- MCWindow
  RecentLimit = 1
  MaxRecords = 1
  ann = ann
  Mails = {ann}
\* Inbox: three platforms, four messages and a reply over three days.
  Threads = {"x", "ig", "li"}
  PlatformOf <- MCPlatformOf
  Written = {"m1", "m2", "m3", "m4"}
  Early = {"m3", "m4"}
  Own = {"m3", "m4"}
  Replies = {"r1"}
  InThread <- MCInThread
  Undated = {"m2"}
  Registered = {"twitter", "instagram"}
  Drafts <- MCDrafts
  Opened = {"x"}
  DayLength = 2
  MaxNow = 2
  Me = Me
  NoOne = NoOne
  NoStamp = NoStamp
  NoThread = NoThread
\* Rules: two at once out of eight, three messages on two threads.
  MaxDepth = 2
  RuleThreads = {"t1", "t2"}
  Incoming = {"m1", "m2", "m3"}
  ThreadOf <- MCThreadOf
  FactsOf <- MCFactsOf
  RuleInputs <- MCRuleInputs
  MaxRules = 2
  MaxFirings = 2
  NoRule = NoRule
SPECIFICATION CommunitySpec
INVARIANTS
  PeopleDecide AuditTellsWhatWasSent PagesAreRight IdentityHasAccount OutcomeIsAggregate
  MessagesAreCountedOnce ComposerAgrees
PROPERTIES AuditIsFinal PersonIsWhole TrailExplainsState
CHECK_DEADLOCK FALSE
