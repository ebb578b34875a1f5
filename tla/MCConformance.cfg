SPECIFICATION Spec
CONSTANTS
  Worker = {0, 1}
  p1 = p1
  p2 = p2
  p3 = p3
  Playbooks <- MCPlaybooks
INVARIANTS
  TypeOK
  OwnContainerAnswers
  PortTakenByOwn
  NoContainerForgotten
  DiffOfBoth
PROPERTIES
  ImplementsSuite
CHECK_DEADLOCK FALSE
