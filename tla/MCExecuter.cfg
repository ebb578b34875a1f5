SPECIFICATION Spec
CONSTANTS
  Var <- MCVar
  Atom <- MCAtom
  Playbooks <- OncePlaybooks
  Groups <- MCGroups
  Node = "node"
  InventoryVars <- MCInventoryVars
  Role <- MCRole
  RoleDefaults <- MCRoleDefaults
  RoleVars <- MCRoleVars
  RoleTasks <- MCRoleTasks
  VarsFiles <- MCVarsFiles
  TaskFiles <- MCTaskFiles
  MaxDepth = 4
INVARIANTS
  TypeOK
  InventoryIntact
  NoCarryOver
  RoleVarsReachLater
  RenderedInScope
PROPERTIES
  RoleConfined
  RolePrecedence
  Terminates
CHECK_DEADLOCK FALSE
