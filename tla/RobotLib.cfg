\* Two clients over two keys: a lost reply makes a client take a second key, and
\* a deleted key can be given to the other client.  One payload is enough, keys
\* do not depend on it.
\* Table: two tiles whose codes are numbers of players, one that looks like no
\* player.  Suit: every hand of six ranks, long enough for the hand with the pair
\* in the middle and for a sequence on each side of it.
CONSTANTS
    Clients = {a, b}
    Handlers = {h1, h2}
    NumSlots = 2
    Payloads = {Empty}
    Empty = Empty
    Nobody = Nobody
    MaxSessions = 3
    Faces = {1, 2, 5}
    MaxWall = 2
    MaxDiscards = 3
    Ranks = 6
    MaxTiles = 14
SYMMETRY Symmetry
SPECIFICATION MCSpec
INVARIANTS
    PrivateSession CountedOnce WeightIsRight
PROPERTIES
    ClaimsRight
CHECK_DEADLOCK FALSE
