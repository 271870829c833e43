\* GameRun: three calls of two functions with or without bytes; the timer fires
\* once, the connection breaks twice; four keys, so that no new session finds none.
\* RunTool: two connections, one after the other, and three questions.
\* Filter: four starts of processes under two ids, two threads that search.
SPECIFICATION MCSpec
CONSTANTS
    Codes = {play, draw}
    Payloads = {none, hand}
    Empty = none
    Keys = {0, 1, 2, 3}
    NoKey = 255
    None = None
    Skipped = Skipped
    NoBytes = NoBytes
    MaxCalls = 3
    MaxReloads = 1
    MaxBreaks = 2
    Conns = {c1, c2}
    Requests <- PortDigits
    Listed = {12, 32}
    Refused = Refused
    Missing = Missing
    MaxAsks = 3
    Names = {tkmc, tklobby}
    Others = {other}
    Pids = {p1, p2}
    Threads = {t1, t2}
    MaxStarts = 4
INVARIANTS
     OneSession RightService
PROPERTIES
    EveryCallReturns QuestionsAnswered 
CHECK_DEADLOCK FALSE
