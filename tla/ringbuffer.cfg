SPECIFICATION Spec
CONSTANTS
  v1 = v1
  v2 = v2
  v3 = v3
  v4 = v4
  v5 = v5
  v6 = v6
  Values = {v1, v2, v3, v4, v5, v6}
  Capacity = 4
INVARIANTS
  TypeOK
  ListSound
  AgeOrder
PROPERTY
  ImplementsCache
