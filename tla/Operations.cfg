SPECIFICATION Spec
CONSTANTS
    Op = {o1, o2, w1}
    Integ = {i1, i2}
    Dynamic = {i1}
    Container = {c1, c2}
    Home = c1
    Kinds <- MCKinds
    KindOf <- MCKindOf
    Scripts <- MCScripts
    NoObj = NoObj
    MaxAttach = 2
    o1 = o1
    o2 = o2
    w1 = w1
    i1 = i1
    i2 = i2
    c1 = c1
    c2 = c2
INVARIANTS
    ListsMirrored
    RunsItsIntegrator
    OnePlace
    SyncedIsAttached
