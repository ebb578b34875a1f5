SPECIFICATION Spec
CONSTANTS
  Path <- MCPath
  Top = "top"
  Parent <- MCParent
  Own = {"executer", "inventory.yaml", "data.tar.gz"}
  Executer = "executer"
  Data = "data.tar.gz"
  Content = {"a", "b"}
  Partial = Partial
  Bit = {"write", "group", "setuid"}
  Lost = {"group", "setuid"}
  Trees <- MCTrees
INVARIANTS TypeOK Arrived
