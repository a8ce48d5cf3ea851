CONSTANTS
  User = {"m", "n"}
  Default = {"a", "b", "c"}
  FeatureList <- MCFeatureList
  Declarations <- All
SPECIFICATION Spec
INVARIANTS
  DepsAreDeclared
  FlattenedInOrder
  CycleDies
  NearestDecides
