\* The bounds are those of the plans in MCProxyStore.
CONSTANTS
    Candidates <- AllCandidates
    Hosts = {h1, h2}
    MaxPending = 2
    MaxReload = 3
SPECIFICATION MCSpec
INVARIANTS
    EmptyListRefused
CHECK_DEADLOCK FALSE
