SPECIFICATION Spec
CONSTANTS
  Producers = {p1, p2}
  Consumers = {c1, c2}
  Value = {v1, v2}
  NoValue = NoValue
  Q_SIZE = 3
  MaxPushes = 4
SYMMETRY ThreadAndValueSymmetry
INVARIANTS
  TypeOK
  IndexOrder
  SlotExclusive
PROPERTY
  ImplementsFifo
