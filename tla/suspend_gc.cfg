SPECIFICATION Spec
CONSTANTS
    j1 = j1 j2 = j2 j3 = j3
    Main = main
    Spawned <- TwoSpawned
    Daemons = {}
    Internal = {}
    Started <- TwoSpawned
    Dumper = dumper
    Ops = {"native", "alloc"}
    SMP = FALSE
    Nil = Nil
INVARIANTS StopTheWorld StateIsRestored
