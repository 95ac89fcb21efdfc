SPECIFICATION Spec
CONSTANTS
    Tags <- MCTags
    Jobs <- ChainJobs
INVARIANTS
    NewGhostsAreNew
