CONSTANTS
  Mods <- AllMods
  Results <- HandlerResults
  Confs <- AllConfs
  Lost <- IsProduct
  Asked <- IsAsked
SPECIFICATION Spec
INVARIANTS
  TypeOK
  StatementsFit
  BuildsRight
  GoalsComplete
  BackendsAgree
PROPERTIES
  NoIdleRelink
  BuildEnds
CHECK_DEADLOCK FALSE
