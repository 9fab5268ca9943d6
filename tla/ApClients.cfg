SPECIFICATION Spec
CONSTANTS
  Macs = {m1, m2, m3, m4}
  Capacity = 3
  MaxResets = 1
INVARIANTS
  TypeOK
  NoDuplicateClient
  TableFollowsEvents
