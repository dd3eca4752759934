SPECIFICATION FairSpec
CONSTANTS
  Producers = {p1, p2}
  Event = {e1, e2}
  NoEvent = NoEvent
  MaxPosts = 4
INVARIANTS
  TypeOK
  NoPushWhileIterating
  SwapsInEmptyDeque
PROPERTIES
  ImplementsChannel
  PostReturns
  AlwaysDrains
