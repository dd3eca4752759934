SPECIFICATION FairSpec
CONSTANTS
  Producers = {p1, p2}
  Consumers = {c1, c2}
  Value = {v1}
  NoValue = NoValue
  Q_SIZE = 3
  MaxPushes = 3
PROPERTIES
  PushReturns
  PopReturns
