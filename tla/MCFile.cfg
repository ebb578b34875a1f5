SPECIFICATION Spec
CONSTANTS
  Path <- MCPath
  Above <- MCAbove
  Owner = {"root", "app"}
  Root = "root"
  Tasks <- MCTasks
  NoOwner = "none"
  NoPath = "nowhere"
INVARIANTS TypeOK UnchangedIsTrue Confined Reached Settles
