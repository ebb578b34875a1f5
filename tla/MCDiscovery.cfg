SPECIFICATION Spec
CONSTANTS
  RoleName = {"web", "db"}
  Var = {"x", "y"}
  Value = {1, 2}
  Undef = Undef
  Key = {"copy", "file", "become"}
  Known = {"copy", "file"}
  Bad = Bad
  Trees <- MCTrees
INVARIANTS TypeOK Discovered
