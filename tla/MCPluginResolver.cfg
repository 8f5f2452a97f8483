CONSTANTS
  PluginName <- MCPluginName
  Rank <- MCRank
  Priorities <- MCPriorities
  NoPriority = NoPriority

SPECIFICATION Spec
CHECK_DEADLOCK FALSE

INVARIANTS
  TypeOK
  DependenciesFirst
  UrgentFirst
  VerdictSound
