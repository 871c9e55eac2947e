SPECIFICATION Spec
CONSTANTS
  Users = {root, ann}
  Root = root
  Groups = {g1}
  Grants = {x1}
  Roles <- SeparatedRoles
  Conflicts <- SeparationRules
  Calls = {c1, c2}
SYMMETRY CallSymmetry
INVARIANTS TypeOK AdminKept
PROPERTIES NoNewConflict AdminsMadeByAdmins
CHECK_DEADLOCK FALSE
