SPECIFICATION FairPullSpec
CONSTANTS
  t1 = t1
  t2 = t2
  loop = loop
  manual = manual
  direct = direct
  Ticket <- OneTicket
  Member <- OneTicket
  Pushed <- OneTicket
  Loop = loop
  Manual <- NoPuller
  Direct <- OneDirect
  Lookback = 1
  MaxCatchUp = 30
  Asked <- TwoDays
  Ahead = 0
  Restarts = "never"
  LastDay = 3
INVARIANT NoGap
PROPERTIES
  EventuallyImported
  ImportsNeverRegress
CHECK_DEADLOCK FALSE
