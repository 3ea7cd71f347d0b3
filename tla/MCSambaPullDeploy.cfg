SPECIFICATION PullSpec
CONSTANTS
  t1 = t1
  t2 = t2
  loop = loop
  manual = manual
  direct = direct
  Ticket <- TwoTickets
  Member <- NoTicket
  Pushed <- TwoTickets
  Loop = loop
  Manual <- NoPuller
  Direct <- NoPuller
  Lookback = 1
  MaxCatchUp = 30
  Asked <- NothingAsked
  Ahead = 0
  Restarts = "restarts"
  LastDay = 4
INVARIANT NoGapAcrossDeploys
CHECK_DEADLOCK FALSE
