SPECIFICATION Spec
CONSTANTS
  Changes = {c1}
  Users = {ann, bob, cat}
  Calls = {t1, t2}
  Nobody = Nobody
PROPERTY FollowsLifecycle
CHECK_DEADLOCK FALSE
