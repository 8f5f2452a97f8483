CONSTANTS
  Handler <- MCHandler
  Event <- MCEvent
  EventType <- MCEventType
  TypeOf <- MCTypeOf
  Priority <- MCPriority
  Execution = {x1, x2}
  MaxMiddlewares = 2

SPECIFICATION Spec
CHECK_DEADLOCK FALSE

INVARIANTS
  TypeOK
  PriorityOrder
  CallsBounded
  FirstFailureStops
PROPERTIES
  DeliversToAll
  HandlingEnds
