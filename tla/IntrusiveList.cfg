SPECIFICATION Spec
CONSTANTS
  n1 = n1
  n2 = n2
  n3 = n3
  n4 = n4
  Nodes = {n1, n2, n3}
  Null = null
  Patient = {n1}
INVARIANTS
  ListIntact
  LinkedAlive
  DataPresent
  ScanSafe
  NoDirtyPush
PROPERTIES
  Implements
