SPECIFICATION InventorySpec
CONSTANTS
  Group <- MCGroup
  NameOf <- MCNameOf
  HostName <- MCHostName
  Var = {"x", "y"}
  Node = "n"
  Inventories <- MCInventories
INVARIANTS
  InventoryTypeOK
  FindMatchesAll
  HostVarsWin
  OnlyFromItsGroups
  NearestWins
CHECK_DEADLOCK FALSE
