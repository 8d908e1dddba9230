SPECIFICATION MCSpec
CONSTANTS
  Users = {u1, u2, u3}
  MaxLoads = 2
  MaxUps = 2
  SysfsUsers = {u1, u2}
INVARIANTS CodeStays CleanUnload Tokens AttrHasCode KsetRefs
CHECK_DEADLOCK FALSE
