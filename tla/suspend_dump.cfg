SPECIFICATION FairSpec
CONSTANTS
    j1 = j1 j2 = j2 j3 = j3
    Main = main
    Spawned <- OneSpawned
    Daemons = {}
    Internal = {}
    Started <- OneSpawned
    Dumper = dumper
    Ops = {"native", "gc", "dump"}
    SMP = FALSE
    Nil = Nil
PROPERTIES SleepersWake
CHECK_DEADLOCK FALSE
