CONSTANTS
  Module = {1, 2, 3, 4, 5}
  NoModule = 0
  Linker = {1}
  Prebuilt = {5}
  Declarations <- AllDeclarations
  Disabling = {{}, {4}}
SPECIFICATION FairSpec
INVARIANTS
  GraphRestored
  LinkedExactly
  LinksInOrder
  
PROPERTIES
  SortingEnds
