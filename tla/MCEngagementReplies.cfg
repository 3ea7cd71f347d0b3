SPECIFICATION SystemSpec
CONSTANTS
  w1 = w1
  w2 = w2
  b1 = b1
  m1 = m1
  m2 = m2
  d1 = d1
  None = None
  Text <- AnyText
  Standing <- Reached
  Worker <- OneWorker
  Booking <- NoBooking
  Message <- OneMessage
  Desk <- OneDesk
  Assisted <- OneWorker
  AIAnswer <- ManyAnswers
  UniqueKey <- Keys
  ReplyKey <- Numbers
  MaxRows <- Rows
  BatchLimit = 1
  MaxAttempts = 2
  MaxConv = 1
  MaxReplies = 1
INVARIANTS
  SystemTypeOK
  InboxMatchesWire
  DoneMeansHandled
  IntrusionBounded
PROPERTIES
  TakeoverStands
  ImplementsOutbox
CHECK_DEADLOCK FALSE
