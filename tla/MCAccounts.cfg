CONSTANTS
\* Connection: a platform that has no connector; repeated and mixed up callbacks.
  Platforms = {p1, p2, p3}
  Connectors = {p1, p2}
  States = {s1, s2}
  Callbacks = {c1, c2, c3}
  NoPlatform = NoPlatform
  Ttl = 2
  MaxTime = 2
  SharedStore = TRUE
\* Vault: two calls at once, either of them killed or failing at any step.  The calls have
\* the names of the callbacks, so that one permutation serves both parts.
  None = None
  Unset = Unset
  Empty = Empty
  Garbage = Garbage
  Ops = {c1, c2, c3}
  Keys = {k1, k2}
  Values = {v1, v2}
  MaxConcurrent = 2
  MaxCrashes = 1
\* Refresh: two ticks over one account that is connected again meanwhile.
  OAuthPlatforms = {"p"}
  Ticks = {"k1", "k2"}
  Handled = {"p"}
  Life = 1
  RefreshWindow = 1
  MaxClock = 1
  MaxGrants = 3
  NoToken = NoToken
\* Backup: two imports that may overlap and be killed.
  Creds = {cred1, cred2}
  Objects <- MCObjects
  Imports = {i1, i2}
  MaxKills = 1
  Nothing = Nothing
\* Connecting: the app is saved and the codes are exchanged three times.
  MaxApps = 3 MaxCodes = 3
\* Telegram: a push can be half done when its request settles.
  Requests = {r1, r2}
  Ids = {r1, r2}
  MaxPending = 2
  Chats = {chat1, chat2}
SPECIFICATION AccountsSpec
SYMMETRY Symmetry
INVARIANTS
  ExchangeIsAskedOnce VaultKeepsItsWord RestoredVaultIsKept ConnectedTokenIsWhole
  ChatsFollowDecision
PROPERTY RefreshIsFaithful
CHECK_DEADLOCK FALSE
