SPECIFICATION Spec
CONSTANTS
    Tags <- MCTags
    Jobs <- MCJobs
INVARIANTS
    StoredWithMembers
    RanksAreRight
    TagsAgree
    GroupsComplete
    NewGhostsAreNew
    MessagesMatch
