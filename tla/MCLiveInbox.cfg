SPECIFICATION LiveSpec
CONSTANTS MaxChanges = 2  ChangeOnce = {"inbox", "auto-reply"}  MaxDrops = 0
INVARIANTS NewMessagesAppear
CHECK_DEADLOCK FALSE
