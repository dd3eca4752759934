SPECIFICATION Spec
CONSTANTS
  Producers = {p1}
  Consumers = {c1}
  Value = {v1, v2}
  NoValue = NoValue
  Q_SIZE = 3
  MaxPushes = 6
PROPERTIES
  RefusedOnlyWhenFull
  EmptyOnlyWhenEmpty
