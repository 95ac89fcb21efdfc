SPECIFICATION Spec
CONSTANTS
    Tags <- MCTags
    Jobs <- MCJobs
INVARIANTS
    MessagesMatch
    EachParticleOnce
    MigratedInDomain
    GhostsAreCurrent
    PairsComplete
    NobodyStuck
