CONSTANTS
  Class <- MCClass
  Token <- MCToken
  Scopes <- MCScopes
  ParamLists <- MCParamLists
  Aliasing <- MCAliasing
  Instanced = {"PUBLISHER"}
  NoClass = NoClass

SPECIFICATION Spec

INVARIANTS
  TypeOK
  SingletonOnce
  VerdictSound
