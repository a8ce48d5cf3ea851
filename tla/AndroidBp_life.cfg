SPECIFICATION Spec
CONSTANTS
    Mods <- AllMods
    Results <- HandlerResults
    Trees <- AllTrees
    EditsTo <- AllEdits
    MaxEdits = 3
    MaxKills = 1
INVARIANTS
    TypeOK
    FileIsComplete
    
    InstalledTogether
    

    
CHECK_DEADLOCK FALSE
