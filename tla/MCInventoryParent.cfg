SPECIFICATION InventorySpec
CONSTANTS
  Group <- MCGroup
  NameOf <- MCNameOf
  HostName <- MCHostName
  Var = {"x", "y"}
  Node = "n"
  Inventories <- MCInventories
INVARIANTS
  EveryGroupReaches
CHECK_DEADLOCK FALSE
