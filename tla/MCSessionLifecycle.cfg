SPECIFICATION FairSpec
CONSTANTS
  MaxSessions = 3
  NoEvent = NoEvent
INVARIANTS
  TypeOK
  QueuedSessionsLive
  EventOrder
  LoopFindsSession
  RegistryMatchesMemory
  OnlyClosedAreDeleted
PROPERTY
  AcceptedIsReclaimed
