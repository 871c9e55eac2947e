SPECIFICATION GovernedSpec
CONSTANTS
  Users = {ann, bob}
  Disabled = {}
  Requests <- MCRequests
  MaxTasks = 1
  Payloads <- MCPayloads
  NoUser = NoUser
  NoRequest = "none"
PROPERTY ChangeMovesOn
CHECK_DEADLOCK FALSE
