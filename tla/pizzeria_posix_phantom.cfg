\* A run that crashed, and the run after it.
SPECIFICATION ObjectsSpec
CONSTANTS
    k1 = k1  k2 = k2  d1 = d1  margherita = margherita
    Cooks = {k1, k2}
    Suppliers = {d1}
    Types = {margherita}
    OvenSize = 1
    TableSize = 1
    NoPizza = NoPizza
    MaxRuns = 2
    MaxCrashes = 1
INVARIANT NothingFetchedFromEmptyTable
