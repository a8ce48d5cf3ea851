CONSTANTS
  Mods <- AllMods
  Results <- HandlerResults
  Confs <- StrictConfs
  Lost <- IsProduct
  Asked <- IsAsked
SPECIFICATION Spec
INVARIANTS
  StatementsFit
CHECK_DEADLOCK FALSE
