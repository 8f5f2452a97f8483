CONSTANTS
  PluginName <- MCPluginName
  Rank <- MCRank
  Priorities <- MCPriorities
  NoPriority = NoPriority
  Catalog <- MCCatalog
  LegacyCatalog <- MCLegacyCatalog
  BootstrapLoader = "bootstrap-loader"
  Service <- MCService
  Bootstrap <- MCBootstrap
  Imported <- MCImported
  Finds <- MCFinds
  MaxStarts = 2

SPECIFICATION KernelSpec
CHECK_DEADLOCK FALSE

INVARIANTS
  KernelTypeOK
  ReadyIsSound
  LeftOutByFailure
  BootstrapsReached
PROPERTIES
  StartsInTwoPhases
