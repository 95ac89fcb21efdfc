SPECIFICATION MCSpec
CONSTANTS
    MaxTags = 4
    MaxBonds = 3
    MaxChanges = 3
    Watched = {"group", "table", "nlist", "bodies"}
    Recreate = FALSE
    Lists <- MCLists
    Bodies <- MCBodies
    Orders <- MCOrders
    Snapshots <- MCSnapshots
INVARIANTS GroupIndexRight MembershipCurrent TableRight ExclusionsRight BodiesCreated MoleculesRight
           NeighborsFound NeighborsApart
