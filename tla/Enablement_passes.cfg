CONSTANTS
  Module = {0, 1, 2, 4, 5}
  Enableable = {1, 2, 4}
  Ignored = {0}
  Type <- AliasType
  Target <- MCTarget
  Graphs <- AliasGraphs
  DefaultSettings = {"nil", "true", "false"}
SPECIFICATION FairSpec
INVARIANTS
  TypeOK
  PassesSound
PROPERTIES
  ImplementsPromise
  PassesEnd
