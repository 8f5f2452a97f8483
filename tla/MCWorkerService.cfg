CONSTANTS
  Queue = {"emails", "sms"}
  Stopper = {s1, s2}
  Handlers <- MCHandlers
  MaxGeneration = 2

SPECIFICATION Spec
CHECK_DEADLOCK FALSE

INVARIANTS
  TypeOK
  NoOrphan
  AllOnOrAllOff
PROPERTIES
  StopEnds
