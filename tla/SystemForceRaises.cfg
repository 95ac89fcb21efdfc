SPECIFICATION Spec
CONSTANTS
    sorter = sorter
    mover = mover
    filterer = filterer
    resizer = resizer
    writer1 = writer1
    writer2 = writer2
    periodic = periodic
    before = before
    on = on
    after = after
    custom = custom
    conj = conj
    disj = disj
    neg = neg
    Width = 3
    Object <- MCObject
    Kind <- MCKind
    Tuners <- MCTuners
    Updaters <- MCUpdaters
    Writers <- MCWriters
    Sorter = {sorter}
    Mover = {mover, resizer}
    Filterer = {filterer}
    Requested <- MCRequested
    Flag = {"pressure_tensor", "external_field_virial"}
    Choices <- MCChoices
    Raising = {"operation", "force"}
    MaxFailures = 1
    MaxStep = 3
    MaxRun = 2
INVARIANT RigidOnce
