SPECIFICATION Spec
CONSTANTS
  Var <- MCVar
  Atom <- MCAtom
  Playbooks <- AllPlaybooks
  Groups <- MCGroups
  Node = "node"
  InventoryVars <- MCInventoryVars
  Role <- MCRole
  RoleDefaults <- MCRoleDefaults
  RoleVars <- MCRoleVars
  RoleTasks <- MCRoleTasks
  VarsFiles <- MCVarsFiles
  TaskFiles <- MCTaskFiles
  MaxDepth = 4
INVARIANT RenderedInScope
CHECK_DEADLOCK FALSE
