SPECIFICATION Spec
CONSTANTS
    t1 = t1 t2 = t2 t3 = t3
    A = A S = S X = X W = W Z = Z M = M
    getA = getA newX = newX getX = getX callA = callA wideX = wideX
    testW = testW testZ = testZ ldc = ldc
    fA = fA fX = fX mA = mA wX = wX str = str
    Threads = {t1, t2, t3}
    Classes <- AllClasses
    Super <- TheSuper
    Interface <- TheInterface
    Linked = {A, S}
    Missing = {M}
    MayFail = {S, X}
    Body <- TheBody
    Interrupts = TRUE
    Instrs <- AllInstrs
    Kind <- TheKind
    Ref <- TheRef
    Refs <- AllRefs
    ClassOf <- TheClass
    Main <- TheMain
    Nil = Nil
INVARIANTS InitialisedOnce StaticsAreKept InheritsWhatItShould QuickIsComplete UsedWhenInitialised WaitersHaveInitialiser
PROPERTIES LooksUpWithAnIndex
