SPECIFICATION MCSpec
CONSTANTS
    java = java static = static native = native init = init
    o1 = o1 o2 = o2 r1 = r1 r2 = r2
    k1 = k1 k2 = k2 k3 = k3 k4 = k4 k5 = k5 k6 = k6 k7 = k7
    A = A B = B I = I
    Methods <- TheMethods
    NativeMethods = {native}
    Synchronized <- TheSynchronized
    ArgsCount <- TheArgs
    MaxLocals <- TheLocals
    MaxStack <- TheStack
    Handlers = {java}
    Constructor = init
    Overwrites = {static}
    Objects = {o1, o2}
    Class = Class
    HeaderSize = 2
    LIST_INCR = 2
    StackSize = 10
    RedZone = 4
    MaxCalls = 3
    MaxOverflows = 1
    Nil = Nil
    Word = 2
    Half = 1
    Programs <- ThePrograms
    Referents = {r1, r2}
    GREF_INCR = 2
    MaxRefs = 3
    DeletesNull = FALSE
    NoRef = NoRef
    Keys <- TheKeys
    Hash <- TheHash
    InitialSize = 2
    Scavenges = TRUE
    NoEntry = NoEntry
    ClassNames = {A, B}
    InterfaceNames = {I}
    Primitives = {int}
    ObjectClass = Object
    Cloneable = Cloneable
    MaxDim = 1
    NoClass = NoClass
INVARIANTS LocksMatchFrames HeadersAreIntact RootsAreScanned CallsMatchFrames OperandsAreTyped HeldAreMarked EntriesAreFound CastsFollowTheRules
SYMMETRY Symmetry
