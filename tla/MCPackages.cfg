SPECIFICATION Spec
CONSTANTS
  Package = {"curl", "docker-ce"}
  Repo = {"debian", "docker"}
  Origin <- MCOrigin
  Tasks <- MCTasks
  MaxVersion = 2
INVARIANTS TypeOK UnchangedIsTrue Reached
