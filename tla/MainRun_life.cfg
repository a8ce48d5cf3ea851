SPECIFICATION Spec
CONSTANTS
    NoToolchain = NoToolchain
    NoTool = NoTool
    None = None
    lib = lib
    app = app
    gen = gen
    tcRoot = tcRoot
    tcSub = tcSub
    all = all
    Worlds <- MCWorlds
    MaxStartFailures = 1
INVARIANTS
    TypeOK
    KeptIsSupported
    CommandsAgree
    OneTypePerList
    NearestToolchain
    ExitTells
PROPERTIES
    MainEnds
CHECK_DEADLOCK FALSE
