SPECIFICATION Spec
CONSTANTS
  MaxSessions = 1
  NoEvent = NoEvent
INVARIANT
  CallbacksFindSession
