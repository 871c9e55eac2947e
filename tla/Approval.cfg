SPECIFICATION Spec
CONSTANTS
  Users = {ann, bob, cat, eve}
  Disabled = {eve}
  Requests = {r1, r2}
  MaxTasks = 2
  Payloads = {p, q}
  NoUser = NoUser
SYMMETRY ApprovalSymmetry
INVARIANTS TypeOK ApprovedByQuorum ExecutedAsApproved PendingCanResolve
PROPERTY OutcomeIsFinal
CHECK_DEADLOCK FALSE
