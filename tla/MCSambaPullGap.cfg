SPECIFICATION PullSpec
CONSTANTS
  t1 = t1
  t2 = t2
  loop = loop
  manual = manual
  direct = direct
  Ticket <- OneTicket
  Member <- NoTicket
  Pushed <- OneTicket
  Loop = loop
  Manual <- OneManual
  Direct <- NoPuller
  Lookback = 1
  MaxCatchUp = 2
  Asked <- FewDays
  Ahead = 0
  Restarts = "restarts"
  LastDay = 4
INVARIANTS
  PullTypeOK
  NoGap
PROPERTY ImportsNeverRegress
CHECK_DEADLOCK FALSE
