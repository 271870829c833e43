--------------------------- MODULE ScanWorkProofs ---------------------------
(***************************************************************************)
(* Proofs about the scan server (ScanWork), for any list of ranges, any    *)
(* limit of a query and any number of faults.                              *)
(***************************************************************************)
EXTENDS ScanWork, FiniteSetTheorems, TLAPS

-----------------------------------------------------------------------------
\* The file, the table and the call of GetScannIP agree: the table is filled
\* once, before the first range is handed out, unless the download went wrong.
FileKnown ==
    /\ pc \in {"download", "open", "written"} => file = "table"
    /\ pc = "create" => file = "none"
    /\ file # "table" \/ pc = "download" => table = {}
    /\ file = "table" /\ pc # "download" => short \/ table = Ranges

\* The range in hand is among the oldest rows.
OldestInHand ==
    pc = "written" =>
        IF cur = NoRange THEN table = {} ELSE cur \in table /\ \A s \in table : time[cur] <= time[s]

\* The port table is empty only while it is being filled, or after a cut.
PortsKnown ==
    /\ ports = "empty" => ppc = "fill" \/ cut
    /\ ppc = "fill" => ports = "empty"
    /\ ppc = "open" => ports \in {"empty", "filled"}

\* A row has a time exactly if it was stamped, and only rows are stamped.
Stamped ==
    \A r \in Ranges : /\ marks[r] <= MaxMarks
                      /\ time[r] = 0 <=> marks[r] = 0
                      /\ r \notin table => time[r] = 0

\* The stamps go round: of two rows the newer one was stamped as often as the
\* older one, or once more.
Rounds ==
    ~tied => \A r, s \in table : r # s =>
        /\ time[r] = time[s] => time[r] = 0
        /\ time[r] < time[s] => marks[r] <= marks[s] /\ marks[s] <= marks[r] + 1

ScanInv == TypeOK /\ FileKnown /\ OldestInHand /\ PortsKnown /\ Stamped /\ Rounds

-----------------------------------------------------------------------------
\* A query on a table with rows yields rows, the oldest ones.
LEMMA QueriedRows ==
    ASSUME TypeOK, NEW q \in SUBSET table, Queried(q)
    PROVE  (q = {} => table = {}) /\ \A r \in q, s \in table \ q : time[r] <= time[s]
<1>1. IsFiniteSet(table) /\ IsFiniteSet(q)
  BY RangesAssumption, FS_Subset DEF TypeOK
<1>2. Cardinality(table) \in Nat /\ (Cardinality(table) = 0 <=> table = {})
  BY <1>1, FS_CardinalityType, FS_EmptySet
<1>3. q = {} => Cardinality(q) = 0
  BY FS_EmptySet
<1>4. QED
  BY <1>2, <1>3, LimitAssumption DEF Queried

\* What is handed out is one of the oldest rows, if there is one.
LEMMA HandedOut ==
    ASSUME TypeOK, HandOut
    PROVE  IF cur' = NoRange THEN table = {} ELSE cur' \in table /\ \A s \in table : time[cur'] <= time[s]
<1>1. PICK q \in SUBSET table : Queried(q) /\ cur' \in Choices(q)
  BY DEF HandOut
<1>2. q = {} => table = {}
  BY <1>1, QueriedRows
<1>3. \A r \in q, s \in table \ q : time[r] <= time[s]
  BY <1>1, QueriedRows
<1>4. time \in [Ranges -> Nat] /\ table \subseteq Ranges /\ NoRange \notin table
  BY RangesAssumption DEF TypeOK
<1>5. CASE q = {}
  BY <1>1, <1>2, <1>5 DEF Choices
<1>6. CASE q # {}
  <2>1. cur' \in q /\ \A s \in q : time[cur'] <= time[s]
    BY <1>1, <1>4, <1>6 DEF Choices
  <2>2. QED
    BY <1>3, <1>4, <2>1
<1>7. QED
  BY <1>5, <1>6

\* The initial state.
LEMMA ScanInit == Init => ScanInv
<1> SUFFICES ASSUME Init PROVE ScanInv
  OBVIOUS
<1>1. TypeOK
  <2>1. tied \in BOOLEAN /\ short \in BOOLEAN /\ cut \in BOOLEAN
    BY Zenon DEF Init
  <2>2. QED
    BY <2>1 DEF Init, TypeOK
<1>2. FileKnown /\ OldestInHand /\ PortsKnown /\ Rounds
  BY DEF Init, FileKnown, OldestInHand, PortsKnown, Rounds
<1>3. Stamped
  BY BoundsAssumption DEF Init, Stamped
<1>4. QED
  BY <1>1, <1>2, <1>3 DEF ScanInv

\* Every step keeps the types.
LEMMA ScanTypeStep ==
    ASSUME TypeOK, Next
    PROVE  TypeOK'
<1> USE DEF TypeOK, ipVars, portVars
<1>1. ASSUME Ended PROVE /\ pc' = "down" /\ cur' = NoRange /\ ppc' = "idle" /\ lost' \subseteq Ranges
                         /\ cut' \in BOOLEAN /\ short' \in BOOLEAN
  <2>1. cut' \in BOOLEAN /\ short' \in BOOLEAN
    BY <1>1, Zenon DEF Ended
  <2>2. QED
    BY <1>1, <2>1 DEF Ended
<1>2. CASE Ask
  BY <1>1, <1>2 DEF Ask
<1>3. CASE Create
  BY <1>1, <1>3 DEF Create
<1>4. CASE UpdateIPDB
  <2>1. short' \in BOOLEAN
    BY <1>4, Zenon DEF UpdateIPDB
  <2>2. QED
    BY <1>4, <2>1 DEF UpdateIPDB
<1>5. CASE UpdateIPDBFails
  BY <1>1, <1>5 DEF UpdateIPDBFails
<1>6. CASE HandOut
  <2>1. cur' \in Ranges \cup {NoRange}
    BY <1>6, HandedOut
  <2>2. QED
    BY <1>6, <2>1 DEF HandOut
<1>7. CASE WriteFails
  BY <1>7 DEF WriteFails
<1>8. CASE Mark
  <2>1. CASE cur = NoRange
    BY <1>8, <2>1 DEF Mark
  <2>2. CASE cur # NoRange
    <3>1. time' \in [Ranges -> Nat] /\ \A r \in Ranges : time'[r] <= now
      BY <1>8, <2>2 DEF Mark, NewTime
    <3>2. marks' \in [Ranges -> Nat]
      BY <1>8, <2>2 DEF Mark
    <3>3. tied' \in BOOLEAN
      BY <1>8, <2>2, Zenon DEF Mark
    <3>4. QED
      BY <1>8, <3>1, <3>2, <3>3 DEF Mark
  <2>3. QED
    BY <2>1, <2>2
<1>9. CASE MarkFails
  BY <1>9 DEF MarkFails
<1>10. CASE Crash
  BY <1>1, <1>10 DEF Crash
<1>11. CASE Restart
  BY <1>11 DEF Restart
<1>12. CASE AskPort
  BY <1>1, <1>12 DEF AskPort
<1>13. CASE FillPorts
  BY <1>13 DEF FillPorts
<1>14. CASE ReplyPorts
  BY <1>14 DEF ReplyPorts
<1>15. CASE Tick
  BY <1>15 DEF Tick
<1>16. QED
  BY <1>2, <1>3, <1>4, <1>5, <1>6, <1>7, <1>8, <1>9, <1>10, <1>11, <1>12, <1>13, <1>14, <1>15 DEF Next, Serve

\* Every step keeps the files, the range in hand and the ports known.
LEMMA KnownStep ==
    ASSUME ScanInv, Next
    PROVE  FileKnown' /\ OldestInHand' /\ PortsKnown'
<1> USE DEF ScanInv, FileKnown, OldestInHand, PortsKnown, ipVars, portVars
<1>1. ASSUME Ended
      PROVE  /\ pc' = "down" /\ ppc' = "idle"
             /\ short \/ pc \in {"create", "download"} => short'
             /\ cut \/ ppc = "fill" => cut'
  BY <1>1, Zenon DEF Ended
<1>2. CASE Ask
  <2>1. CASE file # "blank" /\ pc' = (IF file = "none" THEN "create" ELSE "open") /\ UNCHANGED <<ppc, cut, short>>
    BY <1>2, <2>1 DEF Ask, TypeOK
  <2>2. CASE file = "blank" /\ Ended
    BY <1>1, <1>2, <2>2 DEF Ask
  <2>3. QED
    BY <1>2, <2>1, <2>2 DEF Ask
<1>3. CASE Create
  BY <1>3 DEF Create, Ended
<1>4. CASE UpdateIPDB
  BY <1>4 DEF UpdateIPDB
<1>5. CASE UpdateIPDBFails
  BY <1>5 DEF UpdateIPDBFails, Ended
<1>6. CASE HandOut
  <2>1. OldestInHand'
    BY <1>6, HandedOut DEF HandOut
  <2>2. QED
    BY <1>6, <2>1 DEF HandOut
<1>7. CASE WriteFails
  BY <1>7 DEF WriteFails
<1>8. CASE Mark
  BY <1>8 DEF Mark
<1>9. CASE MarkFails
  BY <1>9 DEF MarkFails
<1>10. CASE Crash
  BY <1>10 DEF Crash, Ended
<1>11. CASE Restart
  BY <1>11 DEF Restart
<1>12. CASE AskPort
  <2>1. CASE UNCHANGED <<pc, cur, cut, short>> /\ ports = "none" /\ ppc' = "fill" /\ ports' = "empty"
    BY <1>12, <2>1 DEF AskPort
  <2>2. CASE ports \in {"none", "blank"} /\ ports' = "blank" /\ Ended
    BY <1>1, <1>12, <2>2 DEF AskPort
  <2>3. CASE UNCHANGED <<pc, cur, cut, short, ports>> /\ ports \in {"empty", "filled"} /\ ppc' = "open"
    BY <1>12, <2>3 DEF AskPort
  <2>4. QED
    BY <1>12, <2>1, <2>2, <2>3 DEF AskPort
<1>13. CASE FillPorts
  BY <1>13 DEF FillPorts
<1>14. CASE ReplyPorts
  BY <1>14 DEF ReplyPorts
<1>15. CASE Tick
  BY <1>15 DEF Tick
<1>16. QED
  BY <1>2, <1>3, <1>4, <1>5, <1>6, <1>7, <1>8, <1>9, <1>10, <1>11, <1>12, <1>13, <1>14, <1>15 DEF Next, Serve

\* Every step keeps the stamps even. Only UpdateIPDB changes the rows, before
\* any stamp, and only Mark stamps, an oldest row.
LEMMA StampStep ==
    ASSUME ScanInv, Next
    PROVE  Stamped' /\ Rounds'
<1>1. CASE UNCHANGED <<table, time, marks, tied>>
  BY <1>1 DEF ScanInv, Stamped, Rounds
<1>2. CASE UpdateIPDB
  <2>1. \A r \in Ranges : time[r] = 0 /\ marks[r] = 0
    BY <1>2 DEF UpdateIPDB, ScanInv, FileKnown, Stamped
  <2>2. table' \subseteq Ranges /\ UNCHANGED <<time, marks, tied>>
    BY <1>2 DEF UpdateIPDB
  <2>3. QED
    BY <2>1, <2>2, BoundsAssumption DEF Stamped, Rounds
<1>3. CASE Mark /\ cur # NoRange
  <2>1. /\ cur \in table /\ cur \in Ranges /\ \A s \in table : time[cur] <= time[s]
        /\ table' = table /\ table \subseteq Ranges
    BY <1>3 DEF Mark, ScanInv, OldestInHand, TypeOK
  <2>2. /\ time \in [Ranges -> Nat] /\ marks \in [Ranges -> Nat] /\ now \in Nat \ {0}
        /\ \A r \in Ranges : time[r] <= now
    BY DEF ScanInv, TypeOK
  <2>3. /\ time'[cur] = now
        /\ marks'[cur] = IF marks[cur] < MaxMarks THEN marks[cur] + 1 ELSE marks[cur]
        /\ \A r \in Ranges \ {cur} : time'[r] = time[r] /\ marks'[r] = marks[r]
    BY <1>3, <2>1, <2>2 DEF Mark, NewTime
  <2>4. \A r \in Ranges : marks[r] <= MaxMarks
    BY DEF ScanInv, Stamped
  <2>5. Stamped'
    BY <2>1, <2>2, <2>3, <2>4, BoundsAssumption DEF ScanInv, Stamped
  <2>6. ASSUME ~tied' PROVE ~tied /\ \A s \in table \ {cur} : time[s] < now
    <3>1. ~tied /\ \A s \in table \ {cur} : time[s] # now
      BY <1>3, <2>6, Zenon DEF Mark
    <3>2. QED
      BY <2>1, <2>2, <3>1
  <2>7. ASSUME ~tied', NEW s \in table \ {cur} PROVE marks[s] <= marks'[cur] /\ marks'[cur] <= marks[s] + 1
    <3>1. marks[cur] <= marks[s] /\ marks[s] <= marks[cur] + 1
      <4>1. CASE time[cur] = time[s]
        <5>1. time[cur] = 0 /\ time[s] = 0
          BY <2>1, <2>6, <2>7, <4>1 DEF ScanInv, Rounds
        <5>2. marks[cur] = 0 /\ marks[s] = 0
          BY <2>1, <2>7, <5>1 DEF ScanInv, Stamped
        <5>3. QED
          BY <5>2
      <4>2. CASE time[cur] < time[s]
        BY <2>1, <2>6, <2>7, <4>2 DEF ScanInv, Rounds
      <4>3. QED
        BY <2>1, <2>2, <4>1, <4>2
    <3>2. QED
      BY <2>1, <2>2, <2>3, <2>4, <3>1, BoundsAssumption
  <2>8. Rounds'
    <3> SUFFICES ASSUME ~tied', NEW r \in table, NEW s \in table, r # s
                 PROVE  /\ time'[r] = time'[s] => time'[r] = 0
                        /\ time'[r] < time'[s] => marks'[r] <= marks'[s] /\ marks'[s] <= marks'[r] + 1
      BY <2>1 DEF Rounds
    <3>1. CASE r = cur
      BY <2>1, <2>2, <2>3, <2>6, <3>1
    <3>2. CASE s = cur
      BY <2>1, <2>2, <2>3, <2>6, <2>7, <3>2
    <3>3. CASE r # cur /\ s # cur
      BY <2>1, <2>3, <2>6, <3>3 DEF ScanInv, Rounds
    <3>4. QED
      BY <3>1, <3>2, <3>3
  <2>9. QED
    BY <2>5, <2>8
<1>4. QED
  BY <1>1, <1>2, <1>3 DEF Next, Serve, Ask, Create, UpdateIPDBFails, HandOut, WriteFails, Mark, MarkFails,
     Crash, Restart, AskPort, FillPorts, ReplyPorts, Tick, ipVars

\* Together.
LEMMA ScanInvariant == Spec => []ScanInv
<1>1. ScanInv /\ UNCHANGED vars => ScanInv'
  BY DEF ScanInv, vars, ipVars, portVars, TypeOK, FileKnown, OldestInHand, PortsKnown, Stamped, Rounds
<1>2. ScanInv /\ Next => ScanInv'
  BY ScanTypeStep, KnownStep, StampStep DEF ScanInv
<1>3. QED
  BY <1>1, <1>2, ScanInit, PTL DEF Spec

-----------------------------------------------------------------------------
\* GetScannIP sends "0_0", and GetScannPort a short list, only after a failed
\* download or an end of the process while a table was being filled
\* (ShortForAReason).
THEOREM ShortForAReasonHolds == Spec => []ShortForAReason
<1>1. ScanInv => ShortForAReason
  BY RangesAssumption DEF ScanInv, FileKnown, OldestInHand, PortsKnown, ShortForAReason, RangeOrShort, PortsComplete
<1>2. QED
  BY <1>1, ScanInvariant, PTL

\* GetScannIP goes round: unless two stamps fell into one second, no range is
\* stamped twice more than another (EvenShare).
THEOREM EvenShareHolds == Spec => []EvenShare
<1>1. ASSUME ScanInv, ~tied, NEW r \in table, NEW s \in table PROVE marks[r] <= marks[s] + 1
  <2>1. /\ r \in Ranges /\ s \in Ranges /\ time[r] \in Nat /\ time[s] \in Nat
        /\ marks[r] \in Nat /\ marks[s] \in Nat
    BY <1>1 DEF ScanInv, TypeOK
  <2>2. CASE r = s
    BY <2>1, <2>2
  <2>3. CASE r # s /\ time[r] = time[s]
    BY <1>1, <2>1, <2>3 DEF ScanInv, Rounds, Stamped
  <2>4. CASE r # s /\ time[r] < time[s]
    BY <1>1, <2>1, <2>4 DEF ScanInv, Rounds
  <2>5. CASE r # s /\ time[s] < time[r]
    BY <1>1, <2>1, <2>5 DEF ScanInv, Rounds
  <2>6. QED
    BY <2>1, <2>2, <2>3, <2>4, <2>5
<1>2. ScanInv => EvenShare
  BY <1>1 DEF EvenShare
<1>3. QED
  BY <1>2, ScanInvariant, PTL

\* GetScannIP gives out a range again while another row was never given out only
\* if the stamp of the range's earlier hand-out was lost (RepeatForAReason).
THEOREM RepeatForAReasonHolds == Spec => RepeatForAReason
<1> DEFINE Repeats == \A r, s \in table :
                /\ HandOut /\ cur' = r
                /\ marks[r] > 0 \/ r \in lost
                /\ marks[s] = 0 /\ s \notin lost
                => r \in lost
<1>1. ScanInv => [Repeats]_vars
  <2> SUFFICES ASSUME ScanInv, NEW r \in table, NEW s \in table, HandOut, cur' = r, marks[s] = 0
               PROVE  marks[r] = 0
    BY DEF ScanInv, TypeOK
  <2>1. r \in Ranges /\ s \in Ranges /\ r # NoRange /\ time[r] \in Nat
    BY RangesAssumption DEF ScanInv, TypeOK
  <2>2. time[r] <= time[s]
    BY <2>1, HandedOut DEF ScanInv
  <2>3. time[s] = 0
    BY <2>1 DEF ScanInv, Stamped
  <2>4. QED
    BY <2>1, <2>2, <2>3 DEF ScanInv, Stamped
<1>2. QED
  BY <1>1, ScanInvariant, PTL DEF RepeatForAReason
=============================================================================
