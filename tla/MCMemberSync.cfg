SPECIFICATION FairSyncSpec
CONSTANTS
  Member = {1, 2}
  Unheld = {3}
  Desk = {desk}
  Run = {poll, manual}
  Poll = poll
  Creations <- AddsFirst
  Edits <- DeskEdits
  Handled = {3}
  Guests = {1}
  MaxRow = 6
  DeskRow = 3
  MaxUpsets = 1
  MaxWrites = 1
  PageSize = 2
  MaxPages = 200
  FirstTill <- SmallTill
  FirstMembers <- SecondIsActive
  Moves <- FirstMoves
INVARIANTS
  SyncTypeOK
  NoSecondCustomer
  NoHalfCustomer
  IndexKeepsUp
PROPERTIES
  GuestsLeftAlone
  MembersReachTheTill
  LeaversLeaveTheTill
  ImplementsRoster
