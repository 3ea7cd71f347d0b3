SPECIFICATION FairSyncSpec
CONSTANTS
  Member = {1, 2}
  Unheld = {3}
  Desk = {desk}
  Run = {poll, manual}
  Poll = poll
  Creations = {}
  Edits = {}
  Handled = {}
  Guests = {}
  MaxRow = 5
  DeskRow = 4
  MaxUpsets = 1
  MaxWrites = 1
  PageSize = 500
  MaxPages = 200
  FirstTill <- EmptyTill
  FirstMembers <- SecondIsActive
  Moves <- FirstMoves
PROPERTIES
  FormerMembersForgotten
