SPECIFICATION FairSpec
CONSTANTS
  w1 = w1
  w2 = w2
  booking = booking
  message = message
  reply = reply
  Worker <- TwoWorkers
  UniqueKey <- Uniques
  ReplyKey <- Replies
  BatchLimit = 1
  MaxAttempts = 2
  MaxRows = 2
PROPERTY EventuallyProcessed
CHECK_DEADLOCK FALSE
