\* The bounds are those of the plans in MCProxyStore.
CONSTANTS
    Candidates <- AllCandidates
    Hosts = {h1, h2}
    MaxPending = 2
    MaxReload = 3
SYMMETRY HostSymmetry
SPECIFICATION MCSpec
INVARIANTS
    RowKeepsItsKey
PROPERTIES
     ListsRepeatForAReason
CHECK_DEADLOCK FALSE
