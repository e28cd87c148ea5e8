\* The fuzzer's trees never fill up.  The fuzzer and the harness end.
CONSTANTS
    OutPoint <- AllOutPoints
    Value <- AllValues
    PoolOrder <- TwoPools
    NullifierCapacity = 12
    Block = {}
    Followers = {}
    Configs <- AllConfigs
    Draws <- AllDraws
    LeastDepth = 1
    Replays <- AllReplays
    Window = 3
    Workers = 2
    SaveAt = {1, 3}
    MaxHeight = 4
SPECIFICATION Testkit
INVARIANTS
    NoFalseAlarm FaultsAreCaught SeedsReproduce
    NoFalseDivergence PlantedFaultsAreCaught EveryHeightOnceInOrder
PROPERTIES ReplayEnds
CHECK_DEADLOCK FALSE
