\* Three clients and two keys: the third new client finds no free key.
CONSTANTS
    Clients = {a, b, c}
    Handlers = {h1}
    NumSlots = 2
    Payloads = {Empty}
    Empty = Empty
    Nobody = Nobody
    MaxSessions = 4
SPECIFICATION Spec
INVARIANTS
    FullTableRefused
CHECK_DEADLOCK FALSE
