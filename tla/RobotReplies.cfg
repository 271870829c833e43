\* One client, an abandoned connection and a present one, three payloads: two
\* sessions so that a request can meet a new session after ClearServer.
CONSTANTS
    Clients = {a}
    Handlers = {h1, h2}
    NumSlots = 1
    Payloads = {Empty, p, q}
    Empty = Empty
    Nobody = Nobody
    MaxSessions = 2
SPECIFICATION FairSpec
INVARIANTS
    ReplyIsOwn
PROPERTIES
    RetryRunsOnce
    EveryRequestEnds
    IdleReclaimed
CHECK_DEADLOCK FALSE
