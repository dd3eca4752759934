SPECIFICATION FairSpec
CONSTANTS
  MaxSessions = 1
  NoEvent = NoEvent
PROPERTY
  ClosedIsRemoved
