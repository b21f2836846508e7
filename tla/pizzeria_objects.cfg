\* Two runs of either program; the first may end by SIGINT or by a crash at any step.
SPECIFICATION ObjectsFairSpec
CONSTANTS
    k1 = k1  k2 = k2  d1 = d1  margherita = margherita
    Cooks = {k1, k2}
    Suppliers = {d1}
    Types = {margherita}
    OvenSize = 1
    TableSize = 1
    NoPizza = NoPizza
    MaxRuns = 2
    MaxCrashes = 1
INVARIANTS SysVSafe PosixSafe
PROPERTIES ShutdownCompletes KitchenOutlivesItsNames
