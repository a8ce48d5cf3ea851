CONSTANTS
  Databases <- Forced
  EditsOf <- EditedInto
  Strings = {"s", "t"}
  NoGroup = "no group"
SPECIFICATION Spec
INVARIANTS
  NeverRaised
CHECK_DEADLOCK FALSE
