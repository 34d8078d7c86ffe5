CONSTANTS
  Accounts = {1, 2, 3}
  Messages = {1, 2, 3}
  Author <- MCAuthor
  MailIn <- MCMailIn
  Profiles <- MCProfiles
  MaxContacts = 4
  NoMail = NoMail
  NoRow = NoRow
  EngagementTarget = 2
  FollowerTarget = 3
  WordsIn <- MCWordsIn
  Window <- MCWindow
  RecentLimit = 1
  MaxRecords = 1
  ann = ann
  Mails = {ann}
SPECIFICATION CrmSpec
INVARIANT DecisionsAreErased
CHECK_DEADLOCK FALSE
