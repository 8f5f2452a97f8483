CONSTANTS
  Process <- MCProcess
  EventType = {"TaskEvent"}
  Event <- MCEvent
  TypeOf <- MCTypeOf
  Source <- MCSource
  Deployments <- MCDeployments
  MaxResets = 1
  MaxDrops = 1

SPECIFICATION Spec
CHECK_DEADLOCK FALSE

INVARIANTS
  TypeOK
  CopiesBounded
  
PROPERTIES
  ReachesSubscribers
