CONSTANTS
  Databases <- ChoiceSelects
  EditsOf <- EditedInto
  Strings = {"s", "t"}
  NoGroup = "no group"
SPECIFICATION Spec
INVARIANTS
  SelectsHold
CHECK_DEADLOCK FALSE
