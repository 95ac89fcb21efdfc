SPECIFICATION Spec
CONSTANTS
    NRanks = 2
    MaxTags = 3
    AngMom = {0}
    Origin = 1
INVARIANTS EveryParticleOnce RTagsConsistent TagSpace CacheFresh SnapshotAgrees
PROPERTIES Positions
