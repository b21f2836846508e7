\* Two kinds of pizza tell reordering from order; liveness forbids symmetry.
SPECIFICATION FairSpec
CONSTANTS
    k1 = k1  k2 = k2  d1 = d1
    margherita = margherita  hawaii = hawaii
    Cooks = {k1, k2}
    Suppliers = {d1}
    Types = {margherita, hawaii}
    OvenSize = 2
    TableSize = 2
    NoPizza = NoPizza
INVARIANTS TypeOK UnitsAccounted
           NoOverwrite NoPhantomPizza Contiguous
PROPERTIES ImplementsBakery
