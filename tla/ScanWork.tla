------------------------------ MODULE ScanWork ------------------------------
(***************************************************************************)
(* The scan server of scann/ScannDB.go: GetScannIP hands one address range *)
(* to each scanner that asks and stamps its row with the present second,   *)
(* GetScannPort sends the list of ports. Both create their table on first  *)
(* use. IPMutex and PortMutex make at most one call of each run at a time; *)
(* a panic in either ends the whole process, tables survive on disk.       *)
(***************************************************************************)
EXTENDS Naturals, FiniteSets

CONSTANTS
    Ranges,     \* the ranges the downloaded list holds
    NoRange,    \* what an empty table yields: the text "0_0"
    Limit,      \* rows a query returns, 20 in the code
    MaxNow,     \* bound on the clock
    MaxMarks,   \* bound on the counting of stamps
    MaxFaults   \* bound on process ends and lost marks

ASSUME LimitAssumption == Limit \in Nat \ {0}
ASSUME RangesAssumption == IsFiniteSet(Ranges) /\ Ranges # {} /\ NoRange \notin Ranges
ASSUME BoundsAssumption == MaxNow \in Nat /\ MaxMarks \in Nat \ {0} /\ MaxFaults \in Nat

VARIABLES
    pc,        \* GetScannIP: "idle", "create", "download", "open", "written"; "down" process ended
    file,      \* scannIP.db: "none", "blank" without a table, "table"
    table,     \* rows of scannIP
    time,      \* the column time
    now,       \* time.Now().Unix()
    cur,       \* the range in hand
    ppc,       \* GetScannPort: "idle", "fill", "open"
    ports,     \* scannPort.db: "none", "blank", "empty" table, "filled"
    marks,     \* history: times a row was stamped, counted up to MaxMarks
    lost,      \* history: ranges handed out without being stamped
    tied,      \* history: a stamp repeated the second of another row
    short,     \* history: the download failed or was cut short
    cut,       \* history: the process ended while the port table was being filled
    faults     \* process ends and lost marks so far

ipVars == <<pc, file, table, time, cur, marks, lost, tied, short>>
portVars == <<ppc, ports, cut>>
vars == <<ipVars, portVars, now, faults>>

\* Rows of the query: order by time, limit rows; ties in any order.
Queried(q) ==
    /\ q \subseteq table
    /\ Cardinality(q) = IF Cardinality(table) < Limit THEN Cardinality(table) ELSE Limit
    /\ \A r \in q, s \in table \ q : time[r] <= time[s]

\* Mutant of Choices: one of the limited rows at random, zeros or not.
ChoicesAny(q) == IF q = {} THEN {NoRange} ELSE q

\* The choice among the queried rows. zerolist is the index of the last row
\* with time 0, and Intn(zerolist) leaves that row out; rows with time 0 come in
\* any order, so that it may be any of them.
Choices(q) ==
    LET zeros == {r \in q : time[r] = 0} IN
    IF q = {} THEN {NoRange}
    ELSE IF zeros = {} THEN {r \in q : \A s \in q : time[r] <= time[s]} ELSE zeros

\* Mutant of NewTime: the column is only a flag.
NewTimeFlag(r) == [time EXCEPT ![r] = 1]

\* Mutant of NewTime: the condition of the UPDATE matches no row.
NewTimeNoRow(r) == time

\* The UPDATE of the row of range r.
NewTime(r) == [time EXCEPT ![r] = now]

\* Effect of the process ending: handlers are gone, files stay. A hand-out
\* whose stamp is missing is lost; a port table being filled stays empty.
Ended ==
    /\ pc' = "down" /\ cur' = NoRange
    /\ ppc' = "idle"
    /\ lost' = lost \cup ({cur} \ {NoRange})
    /\ cut' = (cut \/ ppc = "fill")
    /\ short' = (short \/ pc \in {"create", "download"})

Init ==
    /\ pc = "idle" /\ file = "none" /\ table = {}
    /\ time = [r \in Ranges |-> 0]
    /\ now = 1 /\ cur = NoRange
    /\ ppc = "idle" /\ ports = "none"
    /\ marks = [r \in Ranges |-> 0]
    /\ lost = {}
    /\ tied = FALSE /\ short = FALSE /\ cut = FALSE /\ faults = 0

\* os.Stat decides between creating and opening; a query on a file without a
\* table panics.
Ask ==
    /\ pc = "idle"
    /\ \/ /\ file # "blank"
          /\ pc' = IF file = "none" THEN "create" ELSE "open"
          /\ UNCHANGED <<cur, ppc, lost, cut, short>>
       \/ file = "blank" /\ Ended
    /\ UNCHANGED <<file, table, time, marks, tied, ports, now, faults>>

\* CREATE TABLE, which may fail after the file came into being and panic.
Create ==
    /\ pc = "create"
    /\ \/ /\ pc' = "download" /\ file' = "table"
          /\ UNCHANGED <<cur, ppc, lost, cut, short, faults>>
       \/ /\ faults < MaxFaults /\ faults' = faults + 1
          /\ file' = "blank" /\ Ended
    /\ UNCHANGED <<table, time, marks, tied, ports, now>>

\* UpdateIPDB: all rows in one transaction. A body that ends early commits the
\* rows read so far; any other failure panics before the commit.
UpdateIPDB ==
    /\ pc = "download"
    /\ \E rows \in SUBSET Ranges :
          /\ table' = rows
          /\ short' = (short \/ rows # Ranges)
          /\ pc' = "open"
    /\ UNCHANGED <<file, time, cur, marks, lost, tied, portVars, now, faults>>

UpdateIPDBFails ==
    /\ pc = "download" /\ faults < MaxFaults
    /\ faults' = faults + 1
    /\ Ended
    /\ UNCHANGED <<file, table, time, marks, tied, ports, now>>

\* Query, choice and a Write that succeeds.
HandOut ==
    /\ pc = "open"
    /\ \E q \in SUBSET table :
          /\ Queried(q)
          /\ cur' \in Choices(q)
    /\ pc' = "written"
    /\ UNCHANGED <<file, table, time, marks, lost, tied, short, portVars, now, faults>>

\* A Write that fails returns before the stamp.
WriteFails ==
    /\ pc = "open"
    /\ pc' = "idle"
    /\ UNCHANGED <<file, table, time, cur, marks, lost, tied, short, portVars, now, faults>>

\* UPDATE of the row handed out; it matches no row for "0_0".
Mark ==
    /\ pc = "written"
    /\ pc' = "idle" /\ cur' = NoRange
    /\ IF cur = NoRange THEN UNCHANGED <<time, marks, tied>>
       ELSE /\ time' = NewTime(cur)
            /\ marks' = [marks EXCEPT ![cur] = IF @ < MaxMarks THEN @ + 1 ELSE @]
            /\ tied' = (tied \/ \E s \in table \ {cur} : time[s] = now)
    /\ UNCHANGED <<file, table, lost, short, portVars, now, faults>>

MarkFails ==
    /\ pc = "written" /\ faults < MaxFaults
    /\ pc' = "idle" /\ cur' = NoRange
    /\ lost' = lost \cup ({cur} \ {NoRange})
    /\ faults' = faults + 1
    /\ UNCHANGED <<file, table, time, marks, tied, short, portVars, now>>

\* The process ends at any point, by a panic elsewhere or from outside.
Crash ==
    /\ pc # "down" /\ faults < MaxFaults
    /\ faults' = faults + 1
    /\ Ended
    /\ UNCHANGED <<file, table, time, marks, tied, ports, now>>

Restart ==
    /\ pc = "down"
    /\ pc' = "idle"
    /\ UNCHANGED <<file, table, time, cur, marks, lost, tied, short, portVars, now, faults>>

\* GetScannPort up to the query. CreateScannPortDB creates the table and fills
\* it in one transaction; a query without a table panics.
AskPort ==
    /\ pc # "down" /\ ppc = "idle"
    /\ \/ ports = "none"
          /\ \/ ppc' = "fill" /\ ports' = "empty" /\ UNCHANGED <<pc, cur, lost, cut, short, faults>>
             \/ faults < MaxFaults /\ faults' = faults + 1 /\ ports' = "blank" /\ Ended
       \/ ports = "blank" /\ Ended /\ UNCHANGED <<ports, faults>>
       \/ ports \in {"empty", "filled"} /\ ppc' = "open" /\ UNCHANGED <<pc, cur, lost, cut, short, ports, faults>>
    /\ UNCHANGED <<file, table, time, marks, tied, now>>

\* Mutant of FillPorts: the transaction is not committed.
FillPortsNoCommit ==
    /\ ppc = "fill"
    /\ ppc' = "open"
    /\ UNCHANGED <<ipVars, ports, cut, now, faults>>

FillPorts ==
    /\ ppc = "fill"
    /\ ports' = "filled" /\ ppc' = "open"
    /\ UNCHANGED <<ipVars, cut, now, faults>>

\* Rows, an empty line, Flush.
ReplyPorts ==
    /\ ppc = "open"
    /\ ppc' = "idle"
    /\ UNCHANGED <<ipVars, ports, cut, now, faults>>

Tick ==
    /\ now < MaxNow
    /\ now' = now + 1
    /\ UNCHANGED <<ipVars, portVars, faults>>

Serve == Ask \/ Create \/ UpdateIPDB \/ HandOut \/ Mark \/ Restart

Next ==
    \/ Serve \/ UpdateIPDBFails \/ WriteFails \/ MarkFails \/ Crash
    \/ AskPort \/ FillPorts \/ ReplyPorts \/ Tick

Spec == Init /\ [][Next]_vars

\* Scanners keep asking, a started call goes on, and writes to scanners do not
\* fail for ever.
FairSpec == Spec /\ WF_vars(Serve) /\ SF_vars(HandOut)

-----------------------------------------------------------------------------
\* The calls of both functions, the two files with their tables, and the stamps.
TypeOK ==
    /\ pc \in {"idle", "create", "download", "open", "written", "down"}
    /\ file \in {"none", "blank", "table"}
    /\ table \subseteq Ranges
    /\ time \in [Ranges -> Nat] /\ now \in Nat \ {0} /\ \A r \in Ranges : time[r] <= now
    /\ cur \in Ranges \cup {NoRange}
    /\ ppc \in {"idle", "fill", "open"}
    /\ ports \in {"none", "blank", "empty", "filled"}
    /\ marks \in [Ranges -> Nat] /\ lost \subseteq Ranges
    /\ tied \in BOOLEAN /\ short \in BOOLEAN /\ cut \in BOOLEAN /\ faults \in Nat

\* GetScannIP gives a range out a second time while another row was never given
\* out only when the range's earlier hand-out was not stamped: its UPDATE failed
\* or the process ended between the Write and the UPDATE.
RepeatForAReason ==
    [][\A r, s \in table :
          /\ HandOut /\ cur' = r
          /\ marks[r] > 0 \/ r \in lost
          /\ marks[s] = 0 /\ s \notin lost
          => r \in lost]_vars

\* As long as no two hand-outs fall into one second, ordering by time makes
\* GetScannIP go round: no range is stamped twice more than another.
EvenShare ==
    ~tied => \A r, s \in table : marks[r] <= marks[s] + 1

\* A scanner is sent "0_0" only when the download failed, was cut short or was
\* ended; an index past the last row never reaches it.
RangeOrShort ==
    pc = "written" /\ cur = NoRange => short

\* The port list is sent incomplete only when the process ended between the
\* creation of the port table and its commit, if only by a panic of GetScannIP.
PortsComplete ==
    ppc = "open" => ports = "filled" \/ cut

\* Every row of the table is handed out and stamped in the end, unless the port
\* file was left without a table: then every question for ports ends the process.
EveryRangeHanded ==
    \A r \in Ranges : r \in table ~> marks[r] > 0 \/ ports = "blank"

\* Scanners are sent an empty range or a short list of ports only after a failed
\* download or an end of the process while a table was being filled.
ShortForAReason == RangeOrShort /\ PortsComplete
====
