SPECIFICATION Spec
CONSTANTS
    MaxTags = 4
    MaxBonds = 3
    MaxChanges = 3
    Watched = {"bodies"}
    Recreate = TRUE
    Lists <- MCLists
    Bodies <- MCBodies
    Orders <- MCOrders
    Snapshots <- MCSnapshots
INVARIANT BodiesCreated
