\* Three relays over a ConnChan of two: the third waits for a free slot.
\* Two chunks per end: one in a copier's hands, one still unread.
CONSTANTS
    Conns = {c1, c2, c3}
    ConnCap = 2
    NoConn = NoConn
    Torn = Torn
    ExitCap = 1
    MaxChunks = 2
SPECIFICATION MCSpec
INVARIANTS
    TypeOK Balance  ClosedForAReason
PROPERTIES
       NothingLeaks
CHECK_DEADLOCK FALSE
