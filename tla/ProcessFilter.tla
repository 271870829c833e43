--------------------------- MODULE ProcessFilter ---------------------------
(***************************************************************************)
(* Filters of RunTool/serverHandle.cpp: whether the process that owns a    *)
(* local port may be relayed. The text ProcessNames holds the names of the *)
(* game's programs run together; the first process found under a name uses *)
(* the name up and is remembered by its id. A process that is refused is   *)
(* killed by loadPortWithHandle. Connection threads share one Filters,     *)
(* with the id being looked for in the member tmpProcessID.                *)
(***************************************************************************)
EXTENDS Naturals, Sequences, SequencesExt, FiniteSets

CONSTANTS
    Names,      \* names in ProcessNames at the start
    Others,     \* names of programs that are not in it
    Pids,       \* process ids, which Windows gives out again
    Threads,    \* connection threads
    None,
    MaxStarts   \* bound on process starts

VARIABLES
    proc,       \* the name of the process running under an id
    names,      \* names left in ProcessNames
    ids,        \* ProcessIDs[0 .. count - 1]
    tmp,        \* tmpProcessID
    th,         \* "idle", "tmp", "enum", "record", "refused"
    pid,        \* the id a thread was asked about
    hit,        \* the name a thread found
    starts,
    used,       \* history: names that have been used up
    reused,     \* history: ids whose process ended while remembered or being checked
    overlap     \* history: two threads looked for a process together

vars == <<proc, names, ids, tmp, th, pid, hit, starts, used, reused, overlap>>

Init ==
    /\ proc = [p \in Pids |-> None] /\ names = Names /\ ids = <<>> /\ tmp = None
    /\ th = [t \in Threads |-> "idle"]
    /\ pid = [t \in Threads |-> None] /\ hit = [t \in Threads |-> None]
    /\ starts = 0 /\ used = {} /\ reused = {} /\ overlap = FALSE

Start(p, n) ==
    /\ proc[p] = None /\ starts < MaxStarts
    /\ proc' = [proc EXCEPT ![p] = n]
    /\ starts' = starts + 1
    /\ UNCHANGED <<names, ids, tmp, th, pid, hit, used, reused, overlap>>

\* A process ends by itself.
Exit(p) ==
    /\ proc[p] # None
    /\ proc' = [proc EXCEPT ![p] = None]
    /\ reused' = IF p \in ToSet(ids) \/ \E t \in Threads : th[t] # "idle" /\ pid[t] = p
                 THEN reused \cup {p} ELSE reused
    /\ UNCHANGED <<names, ids, tmp, th, pid, hit, starts, used, overlap>>

\* Filters::check: a remembered id is admitted at once.
Check(t, p) ==
    /\ th[t] = "idle" /\ proc[p] # None
    /\ IF p \in ToSet(ids)
       THEN UNCHANGED <<th, pid, overlap>>
       ELSE /\ th' = [th EXCEPT ![t] = "tmp"]
            /\ pid' = [pid EXCEPT ![t] = p]
            /\ overlap' = (overlap \/ \E u \in Threads : th[u] # "idle")
    /\ UNCHANGED <<proc, names, ids, tmp, hit, starts, used, reused>>

\* this->tmpProcessID = h, and the test for names left.
SetTmp(t) ==
    /\ th[t] = "tmp"
    /\ tmp' = pid[t]
    /\ th' = [th EXCEPT ![t] = IF names = {} THEN "refused" ELSE "enum"]
    /\ UNCHANGED <<proc, names, ids, pid, hit, starts, used, reused, overlap>>

\* Mutant of Enumerate: the names left are not consulted.
EnumerateAny(t) ==
    /\ th[t] = "enum"
    /\ hit' = [hit EXCEPT ![t] = CHOOSE n \in names : TRUE]
    /\ th' = [th EXCEPT ![t] = "record"]
    /\ UNCHANGED <<proc, names, ids, tmp, pid, starts, used, reused, overlap>>

\* FindEnumProcess with CheckFilterProcessID: the process whose id is in
\* tmpProcessID now, and its name in what is left of ProcessNames.
Enumerate(t) ==
    /\ th[t] = "enum"
    /\ IF proc[tmp] \in names
       THEN /\ hit' = [hit EXCEPT ![t] = proc[tmp]]
            /\ th' = [th EXCEPT ![t] = "record"]
       ELSE /\ th' = [th EXCEPT ![t] = "refused"]
            /\ UNCHANGED hit
    /\ UNCHANGED <<proc, names, ids, tmp, pid, starts, used, reused, overlap>>

\* The name is cut out of the text and tmpProcessID is remembered.
Record(t) ==
    /\ th[t] = "record"
    /\ names' = names \ {hit[t]}
    /\ ids' = Append(ids, tmp)
    /\ used' = used \cup {hit[t]}
    /\ th' = [th EXCEPT ![t] = "idle"]
    /\ pid' = [pid EXCEPT ![t] = None] /\ hit' = [hit EXCEPT ![t] = None]
    /\ UNCHANGED <<proc, tmp, starts, reused, overlap>>

\* loadPortWithHandle kills the process that owns the port.
Kill(t) ==
    /\ th[t] = "refused"
    /\ proc' = [proc EXCEPT ![pid[t]] = None]
    /\ reused' = IF pid[t] \in ToSet(ids) THEN reused \cup {pid[t]} ELSE reused
    /\ th' = [th EXCEPT ![t] = "idle"]
    /\ pid' = [pid EXCEPT ![t] = None]
    /\ UNCHANGED <<names, ids, tmp, hit, starts, used, overlap>>

Next ==
    \/ \E p \in Pids : (\E n \in Names \cup Others : Start(p, n)) \/ Exit(p)
    \/ \E t \in Threads :
          \/ \E p \in Pids : Check(t, p)
          \/ SetTmp(t) \/ Enumerate(t) \/ Record(t) \/ Kill(t)

Spec == Init /\ [][Next]_vars

-----------------------------------------------------------------------------
\* Processes, the shared Filters and the threads that search; ids holds at most
\* what all threads can add together.
TypeOK ==
    /\ proc \in [Pids -> Names \cup Others \cup {None}]
    /\ names \subseteq Names /\ used \subseteq Names /\ reused \subseteq Pids
    /\ ids \in Seq(Pids \cup {None}) /\ tmp \in Pids \cup {None}
    /\ Len(ids) <= Cardinality(Threads) * Cardinality(Names)
    /\ th \in [Threads -> {"idle", "tmp", "enum", "record", "refused"}]
    /\ pid \in [Threads -> Pids \cup {None}] /\ hit \in [Threads -> Names \cup {None}]
    /\ starts \in 0 .. MaxStarts /\ overlap \in BOOLEAN

\* A process whose name is not in the filter is relayed only when Windows gave
\* it the id of an admitted one or of one being checked, or when two threads
\* shared tmpProcessID.
NoStranger ==
    [][\A t \in Threads, p \in Pids :
          /\ (Check(t, p) /\ p \in ToSet(ids)) \/ (Record(t) /\ p = pid[t])
          /\ proc[p] \in Others
          => p \in reused \/ overlap]_vars

\* A game program is killed only if its name was used up by an earlier process,
\* if it took over the id of a process being checked, or if two threads shared
\* tmpProcessID: the first process of a name is safe, a restarted one is not.
KilledForAReason ==
    [][\A t \in Threads : Kill(t) /\ proc[pid[t]] \in Names =>
          proc[pid[t]] \in used \/ pid[t] \in reused \/ overlap]_vars

\* The array ProcessIDs takes at most one id per name, so the ten places suffice
\* for three names, as long as no two threads look for a process together.
OneIdPerName ==
    overlap \/ Len(ids) + Cardinality(names) = Cardinality(Names)

\* The filter decides right and remembers one id per name, unless ids were given
\* out again, a name came up twice, or two threads shared tmpProcessID.
FilterRight == NoStranger /\ KilledForAReason /\ []OneIdPerName
=============================================================================
