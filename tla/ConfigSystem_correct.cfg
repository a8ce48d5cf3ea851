CONSTANTS
  Databases <- Correct
  EditsOf <- EditedInto
  Strings = {"s", "t"}
  NoGroup = "no group"
SPECIFICATION Spec
INVARIANTS
  SelectsExact
  ValuesJustified
  ChoicesHold
  RoundTrip
