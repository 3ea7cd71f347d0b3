SPECIFICATION SystemSpec
CONSTANTS
  w1 = w1
  w2 = w2
  b1 = b1
  m1 = m1
  m2 = m2
  d1 = d1
  None = None
  Text <- PlainText
  Standing <- ComesAndGoes
  Worker <- TwoWorkers
  Booking <- OneBooking
  Message <- OneMessage
  Desk <- NoDesk
  Assisted <- OneWorker
  AIAnswer <- HastyAnswers
  UniqueKey <- Keys
  ReplyKey <- Numbers
  MaxRows <- Rows
  BatchLimit = 1
  MaxAttempts = 1
  MaxConv = 2
  MaxReplies = 0
INVARIANTS
  AnnouncedIffConfirmed
  DoneMeansHandled
  InboxMatchesWire
CHECK_DEADLOCK FALSE
