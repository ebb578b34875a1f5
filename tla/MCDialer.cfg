SPECIFICATION Spec
CONSTANTS
  Dialer = {d1, d2}
  Host = {h1, h2}
  Dir = {n1, n2}
  NoHost = NoHost
  NoDir = NoDir
INVARIANTS
  TypeOK
  DirExclusive
  OwnDirIntact
  ExecuterHasItsFiles
  NoLeftover
PROPERTIES
  ImplementsRollout
CHECK_DEADLOCK FALSE
