SPECIFICATION FairSpec
CONSTANTS
  w1 = w1
  w2 = w2
  booking = booking
  message = message
  reply = reply
  Worker <- TwoWorkers
  UniqueKey <- Uniques
  ReplyKey <- Replies
  BatchLimit = 2
  MaxAttempts = 2
  MaxRows = 3
INVARIANTS
  TypeOK
  ExclusiveOwner
  RunsBounded
  OneRowPerKey
PROPERTIES
  DoneIsFinal
  ImplementsDelivery
  EventuallySettles
CHECK_DEADLOCK FALSE
