SPECIFICATION FairSyncSpec
CONSTANTS
  Member = {1, 2}
  Unheld = {3}
  Desk = {desk}
  Run = {poll, manual}
  Poll = poll
  Creations = {}
  Edits = {}
  Handled = {2}
  Guests = {}
  MaxRow = 7
  DeskRow = 4
  MaxUpsets = 1
  MaxWrites = 1
  PageSize = 1
  MaxPages = 200
  FirstTill <- EmptyTill
  FirstMembers <- SecondIsActive
  Moves <- FirstMoves
INVARIANTS
  OneRowPerMember
