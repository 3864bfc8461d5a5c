SPECIFICATION FairSpec
CONSTANTS
    j1 = j1 j2 = j2 j3 = j3
    Main = main
    Spawned <- ThreeSpawned
    Daemons = {j2, j3}
    Internal = {j3}
    Started = {}
    Dumper = dumper
    Ops = {"attach", "create", "exit"}
    SMP = TRUE
    Nil = Nil
INVARIANTS RunnersAreListed NonDaemonsAreCounted
PROPERTIES MainLeavesLast MainExits
CHECK_DEADLOCK FALSE
