---------------------------- MODULE ProxiesProofs ----------------------------
(***************************************************************************)
(* Proofs about the parts that MCProxies brings together: the database     *)
(* file (ProxyFile), the checks of proxies (ProxyCheck) and a dial through *)
(* a proxy (TunnelDial), for any number of goroutines, rows, kills,        *)
(* addresses and data.                                                     *)
(***************************************************************************)
EXTENDS MCProxies, FiniteSetTheorems, SequenceTheorems, TLAPS

-----------------------------------------------------------------------------
(* The database file.                                                      *)

\* Goroutines between os.Stat, which found no file, and the end of CreateDB.
InCreateDB == {w \in Goroutines : fpc[w] \in {"make", "create"}}

\* They are counted as having found no file. As long as nobody killed the
\* process, a table they meet was made by another one of them; afterwards no
\* goroutine finds the file missing again.
Creators ==
    /\ up => InCreateDB \subseteq missed
    /\ up /\ ftable /\ kills = 0 /\ InCreateDB # {} => missed \ InCreateDB # {}

\* A process that has ended left a file without a table only by a kill.
EndedWhole == ~up /\ file /\ ~ftable => torn

FileInv == F!TypeOK /\ Creators /\ EndedWhole /\ FileSound

\* The initial state.
LEMMA FileInit == F!Init => FileInv
<1> SUFFICES ASSUME F!Init PROVE FileInv
  OBVIOUS
<1> USE DEF F!Init
<1>1. F!TypeOK
  BY DEF F!TypeOK
<1>2. Creators
  BY DEF Creators, InCreateDB
<1>3. EndedWhole
  BY DEF EndedWhole
<1>4. FileSound
  BY DEF FileSound, F!FileSound, F!StoredStays, F!FatalForAReason, F!TableComes
<1>5. QED
  BY <1>1, <1>2, <1>3, <1>4 DEF FileInv

\* Every step keeps the types, and no table is without a file.
LEMMA FileTypeStep ==
    ASSUME F!TypeOK, F!Next
    PROVE  F!TypeOK'
<1> USE DEF F!TypeOK, F!Go
<1>1. ASSUME NEW w \in Goroutines, NEW r \in Rows \cup {None}, F!Call(w, r) PROVE F!TypeOK'
  BY <1>1 DEF F!Call
<1>2. ASSUME NEW w \in Goroutines, F!Stat(w) PROVE F!TypeOK'
  BY <1>2 DEF F!Stat
<1>3. ASSUME NEW w \in Goroutines, F!Make(w) PROVE F!TypeOK'
  BY <1>3 DEF F!Make
<1>4. ASSUME NEW w \in Goroutines, F!Create(w) PROVE F!TypeOK'
  <2>1. up' \in BOOLEAN /\ ftable' \in BOOLEAN /\ file' \in BOOLEAN /\ torn' \in BOOLEAN
    BY <1>4, Zenon DEF F!Create
  <2>2. ftable' => file'
    BY <1>4 DEF F!Create
  <2>3. QED
    BY <1>4, <2>1, <2>2 DEF F!Create
<1>5. ASSUME NEW w \in Goroutines, F!Lock(w) PROVE F!TypeOK'
  BY <1>5 DEF F!Lock
<1>6. ASSUME NEW w \in Goroutines, F!Exec(w) PROVE F!TypeOK'
  BY <1>6 DEF F!Exec
<1>7. ASSUME NEW w \in Goroutines, F!Return(w) PROVE F!TypeOK'
  BY <1>7 DEF F!Return
<1>8. CASE F!Kill
  <2>1. torn' \in BOOLEAN /\ up' \in BOOLEAN
    BY <1>8, Zenon DEF F!Kill
  <2>2. QED
    BY <1>8, <2>1 DEF F!Kill
<1>9. CASE F!Start
  BY <1>9 DEF F!Start
<1>10. QED
  BY <1>1, <1>2, <1>3, <1>4, <1>5, <1>6, <1>7, <1>8, <1>9 DEF F!Next, F!Step

\* Every step keeps track of the creators. Only Stat adds one, and only where
\* there is no file and so no table.
LEMMA CreatorsStep ==
    ASSUME F!TypeOK, Creators, F!Next
    PROVE  Creators'
<1> USE DEF F!TypeOK, F!Go, Creators, InCreateDB
<1>1. ASSUME NEW w \in Goroutines, NEW r \in Rows \cup {None}, F!Call(w, r) PROVE Creators'
  BY <1>1 DEF F!Call
<1>2. ASSUME NEW w \in Goroutines, F!Stat(w) PROVE Creators'
  BY <1>2 DEF F!Stat
<1>3. ASSUME NEW w \in Goroutines, F!Make(w) PROVE Creators'
  BY <1>3 DEF F!Make
<1>4. ASSUME NEW w \in Goroutines, F!Create(w) PROVE Creators'
  <2>1. w \in missed /\ fpc'[w] = "err" /\ missed' = missed
    BY <1>4 DEF F!Create
  <2>2. QED
    BY <1>4, <2>1 DEF F!Create
<1>5. ASSUME NEW w \in Goroutines, F!Lock(w) PROVE Creators'
  BY <1>5 DEF F!Lock
<1>6. ASSUME NEW w \in Goroutines, F!Exec(w) PROVE Creators'
  BY <1>6 DEF F!Exec
<1>7. ASSUME NEW w \in Goroutines, F!Return(w) PROVE Creators'
  BY <1>7 DEF F!Return
<1>8. CASE F!Kill
  BY <1>8 DEF F!Kill
<1>9. CASE F!Start
  BY <1>9 DEF F!Start
<1>10. QED
  BY <1>1, <1>2, <1>3, <1>4, <1>5, <1>6, <1>7, <1>8, <1>9 DEF F!Next, F!Step

\* Every step keeps saved rows, and the reasons for a useless database and for
\* the end of the process.
LEMMA FileSoundStep ==
    ASSUME FileInv, F!Next
    PROVE  FileSound' /\ EndedWhole'
<1> USE DEF FileInv, F!TypeOK, F!Go, FileSound, F!FileSound, F!StoredStays,
            F!FatalForAReason, F!TableComes, EndedWhole
<1>1. ASSUME NEW w \in Goroutines, NEW r \in Rows \cup {None}, F!Call(w, r)
      PROVE  FileSound' /\ EndedWhole'
  BY <1>1 DEF F!Call
<1>2. ASSUME NEW w \in Goroutines, F!Stat(w) PROVE FileSound' /\ EndedWhole'
  BY <1>2 DEF F!Stat
<1>3. ASSUME NEW w \in Goroutines, F!Make(w) PROVE FileSound' /\ EndedWhole'
  BY <1>3 DEF F!Make
<1>4. ASSUME NEW w \in Goroutines, F!Create(w) PROVE FileSound' /\ EndedWhole'
  <2>1. ASSUME ftable, kills = 0 PROVE \E u, v \in missed : u # v
    <3>1. w \in InCreateDB /\ w \in missed
      BY <1>4 DEF F!Create, InCreateDB, Creators
    <3>2. PICK u \in missed : u \notin InCreateDB
      BY <1>4, <2>1, <3>1 DEF F!Create, Creators
    <3>3. QED
      BY <3>1, <3>2
  <2>2. F!FatalForAReason'
    BY <1>4, <2>1 DEF F!Create
  <2>3. QED
    BY <1>4, <2>2 DEF F!Create
<1>5. ASSUME NEW w \in Goroutines, F!Lock(w) PROVE FileSound' /\ EndedWhole'
  BY <1>5 DEF F!Lock
<1>6. ASSUME NEW w \in Goroutines, F!Exec(w) PROVE FileSound' /\ EndedWhole'
  BY <1>6 DEF F!Exec
<1>7. ASSUME NEW w \in Goroutines, F!Return(w) PROVE FileSound' /\ EndedWhole'
  BY <1>7 DEF F!Return
<1>8. CASE F!Kill
  BY <1>8 DEF F!Kill
<1>9. CASE F!Start
  BY <1>9 DEF F!Start
<1>10. QED
  BY <1>1, <1>2, <1>3, <1>4, <1>5, <1>6, <1>7, <1>8, <1>9 DEF F!Next, F!Step

\* The first use of the database (SaveDB, GetProxyList, CreateDB): a saved row
\* stays, a file without a table is left only by a kill, and the process ends
\* itself only after two goroutines found no file (FileSound).
THEOREM FileSoundHolds == F!Spec => []FileSound
<1>1. F!Init => FileInv
  BY FileInit
<1>2. FileInv /\ [F!Next]_(F!vars) => FileInv'
  <2>1. ASSUME FileInv, F!Next PROVE FileInv'
    BY <2>1, FileTypeStep, CreatorsStep, FileSoundStep DEF FileInv
  <2>2. ASSUME FileInv, UNCHANGED F!vars PROVE FileInv'
    BY <2>2 DEF FileInv, F!vars, F!TypeOK, Creators, InCreateDB, EndedWhole, FileSound,
       F!FileSound, F!StoredStays, F!FatalForAReason, F!TableComes
  <2>3. QED
    BY <2>1, <2>2
<1>3. FileInv => FileSound
  BY DEF FileInv
<1>4. QED
  BY <1>1, <1>2, <1>3, PTL DEF F!Spec

-----------------------------------------------------------------------------
(* The checks of proxies.                                                  *)

\* Check drops the URL of a scheme that failed, so that the scheme it saves is
\* the one it dialled with; a check that succeeded dialled with its scheme.
JobsTrue ==
    \A w \in Workers : /\ job[w].url = 0
                       /\ pc[w] = "ok" => job[w].scheme \in accepted[job[w].addr]

\* CheckDB lists an address once, as a suspect; if it is usable by now, another
\* goroutine saved it. CheckDB checks the head of its list.
ListTrue ==
    /\ \A i, k \in 1 .. Len(list) : list[i].addr = list[k].addr => i = k
    /\ \A i \in 1 .. Len(list) :
          /\ list[i].scheme \in accepted[list[i].addr]
          /\ table[list[i].addr].ord = 1 => list[i].addr \in fresh
    /\ pc["checkdb"] # "idle" => list # <<>> /\ job["checkdb"].addr = list[1].addr

CheckInv == TypeOK /\ SchemeWorked /\ JobsTrue /\ ListTrue

\* The list of some suspects: their rows, each once.
LEMMA ListedSuspects ==
    ASSUME TypeOK, NEW S \in SUBSET Addrs, NEW l \in Listed(S),
           \A a \in S : table[a] # NoRow
    PROVE  /\ l \in Seq([addr : Addrs, scheme : 1 .. 6])
           /\ \A i \in 1 .. Len(l) : l[i].addr \in S /\ l[i].scheme = table[l[i].addr].scheme
           /\ \A i, k \in 1 .. Len(l) : l[i].addr = l[k].addr => i = k
<1> DEFINE T == {[addr |-> a, scheme |-> table[a].scheme] : a \in S}
           R == [addr : Addrs, scheme : 1 .. 6]
           f == [a \in S |-> [addr |-> a, scheme |-> table[a].scheme]]
<1>1. IsFiniteSet(S)
  BY AddrsAssumption, FS_Subset
<1>2. f \in Surjection(S, T)
  BY DEF Surjection
<1>3. IsFiniteSet(T) /\ Cardinality(T) \in Nat
  <2>1. IsFiniteSet(T)
    <3> HIDE DEF T, f
    <3> QED BY <1>1, <1>2, FS_Surjection
  <2>2. QED
    BY <2>1, FS_CardinalityType
<1>4. T \subseteq R
  BY DEF TypeOK, Row
<1>5. /\ l \in [1 .. Cardinality(T) -> T]
      /\ \A i, k \in 1 .. Cardinality(T) : i # k => l[i] # l[k]
  BY DEF Listed, SetToSeqs
<1>6. \A t \in T : t.addr \in S /\ t.scheme = table[t.addr].scheme
  OBVIOUS
<1>7. \A t, u \in T : t.addr = u.addr => t = u
  OBVIOUS
<1> HIDE DEF T, R
<1>8. l \in Seq(T) /\ Len(l) = Cardinality(T)
  BY <1>3, <1>5
<1>9. l \in Seq(R)
  BY <1>3, <1>4, <1>5
<1>10. \A i \in 1 .. Len(l) : l[i] \in T
  BY <1>5, <1>8
<1>11. QED
  BY <1>5, <1>6, <1>7, <1>8, <1>9, <1>10 DEF R

\* The initial state.
LEMMA CheckInit == Init => CheckInv
<1> SUFFICES ASSUME Init PROVE CheckInv
  OBVIOUS
<1> USE DEF Init
<1>1. \A w \in Workers : /\ job[w] \in [addr : Addrs, scheme : 1 .. 6, url : 0 .. 6, search : BOOLEAN]
                         /\ job[w].url = 0
  <2> DEFINE c == CHOOSE a \in Addrs : TRUE
  <2>1. c \in Addrs
    BY AddrsAssumption, Zenon
  <2>2. job \in [Workers -> {[addr |-> a, scheme |-> 1, url |-> 0, search |-> FALSE] : a \in {c}}]
    BY DEF c
  <2> HIDE DEF c, Init
  <2>3. \A w \in Workers : job[w] = [addr |-> c, scheme |-> 1, url |-> 0, search |-> FALSE]
    BY <2>2
  <2>4. [addr |-> c, scheme |-> 1, url |-> 0, search |-> FALSE]
            \in [addr : Addrs, scheme : 1 .. 6, url : 0 .. 6, search : BOOLEAN]
    BY <2>1
  <2>5. \A w \in Workers : job[w] \in [addr : Addrs, scheme : 1 .. 6, url : 0 .. 6, search : BOOLEAN]
    BY <2>3, <2>4, Zenon
  <2>6. \A w \in Workers : job[w].url = 0
    BY <2>3
  <2>7. QED
    BY <2>5, <2>6
<1>2. TypeOK
  BY <1>1 DEF TypeOK, Row
<1>3. SchemeWorked
  BY DEF SchemeWorked
<1>4. JobsTrue
  BY <1>1 DEF JobsTrue
<1>5. ListTrue
  BY DEF ListTrue, Workers
<1>6. QED
  BY <1>2, <1>3, <1>4, <1>5 DEF CheckInv

\* What a failed attempt leaves of a check: it ends, or goes on with the next
\* scheme.
LEMMA FailedCheck ==
    ASSUME CheckInv, NEW w \in Workers, pc[w] # "idle", Failed(w)
    PROVE  /\ job' \in [Workers -> [addr : Addrs, scheme : 1 .. 6, url : 0 .. 6, search : BOOLEAN]]
           /\ pc' \in [Workers -> {"idle", "dial", "hung", "ok", "err"}]
           /\ pc'[w] \in {"dial", "err"} /\ job'[w].addr = job[w].addr /\ job'[w].url = 0
           /\ \A u \in Workers \ {w} : job'[u] = job[u] /\ pc'[u] = pc[u]
<1>1. Len(SCHEME) = 6
  BY DEF SCHEME
<1>2. CASE job[w].search /\ job[w].scheme < 6
  <2>1. /\ job' = [job EXCEPT ![w] = [addr |-> job[w].addr, scheme |-> job[w].scheme + 1, url |-> 0, search |-> TRUE]]
        /\ pc' = [pc EXCEPT ![w] = "dial"]
    BY <1>1, <1>2 DEF Failed
  <2>2. [addr |-> job[w].addr, scheme |-> job[w].scheme + 1, url |-> 0, search |-> TRUE]
            \in [addr : Addrs, scheme : 1 .. 6, url : 0 .. 6, search : BOOLEAN]
    <3>1. /\ job[w] \in [addr : Addrs, scheme : 1 .. 6, url : 0 .. 6, search : BOOLEAN]
          /\ job[w].scheme + 1 \in 1 .. 6
      BY <1>2 DEF CheckInv, TypeOK
    <3>2. QED
      BY <3>1
  <2>3. QED
    BY <2>1, <2>2 DEF CheckInv, TypeOK
<1>3. CASE ~(job[w].search /\ job[w].scheme < 6)
  BY <1>1, <1>3 DEF Failed, CheckInv, TypeOK, JobsTrue
<1>4. QED
  BY <1>2, <1>3

\* Every step keeps the types, the schemes of the table, the jobs and the list.
LEMMA CheckStep ==
    ASSUME CheckInv, Next
    PROVE  CheckInv'
<1> DEFINE Jobs == [addr : Addrs, scheme : 1 .. 6, url : 0 .. 6, search : BOOLEAN]
           Items == [addr : Addrs, scheme : 1 .. 6]
<1>a. /\ table \in [Addrs -> Row] /\ job \in [Workers -> Jobs] /\ list \in Seq(Items)
      /\ "candidate" \in Workers /\ "checkdb" \in Workers
  BY DEF CheckInv, TypeOK, Workers
<1>1. ASSUME NEW a \in Addrs, Report(a) PROVE CheckInv'
  <2> USE <1>1 DEF Report
  <2>1. [addr |-> a, scheme |-> 1, url |-> 0, search |-> TRUE] \in Jobs
    OBVIOUS
  <2>2. TypeOK'
    BY <1>a, <2>1 DEF CheckInv, TypeOK
  <2>3. SchemeWorked'
    BY DEF CheckInv, SchemeWorked
  <2>4. JobsTrue'
    BY <1>a DEF CheckInv, JobsTrue, TypeOK
  <2>5. ListTrue'
    BY <1>a DEF CheckInv, ListTrue, TypeOK
  <2>6. QED
    BY <2>2, <2>3, <2>4, <2>5 DEF CheckInv
<1>2. ASSUME NEW a \in Addrs, Suspect(a) PROVE CheckInv'
  <2> USE <1>2 DEF Suspect
  <2>1. /\ table' \in [Addrs -> Row]
        /\ \A b \in Addrs : /\ table'[b].scheme = table[b].scheme
                            /\ table'[b] # NoRow => table[b] # NoRow
                            /\ table'[b].ord = 1 => table[b].ord = 1
    BY <1>a DEF Row, NoRow
  <2>2. TypeOK'
    BY <2>1 DEF CheckInv, TypeOK
  <2>3. SchemeWorked'
    BY <2>1 DEF CheckInv, SchemeWorked
  <2>4. JobsTrue'
    BY DEF CheckInv, JobsTrue
  <2>5. ListTrue'
    BY <1>a, <2>1 DEF CheckInv, ListTrue
  <2>6. QED
    BY <2>2, <2>3, <2>4, <2>5 DEF CheckInv
<1>3. ASSUME NEW a \in Addrs, Change(a) PROVE CheckInv'
  BY <1>3 DEF Change, CheckInv, TypeOK, SchemeWorked, JobsTrue, ListTrue
<1>4. CASE Pass
  <2> USE <1>4 DEF Pass
  <2>1. /\ list' \in Seq(Items)
        /\ \A i \in 1 .. Len(list') : /\ list'[i].addr \in {a \in Addrs : table[a].ord = 0}
                                      /\ list'[i].scheme = table[list'[i].addr].scheme
        /\ \A i, k \in 1 .. Len(list') : list'[i].addr = list'[k].addr => i = k
    <3>1. \A a \in {b \in Addrs : table[b].ord = 0} : table[a] # NoRow
      BY DEF NoRow
    <3>2. QED
      BY <3>1, ListedSuspects DEF CheckInv
  <2>2. TypeOK'
    BY <2>1 DEF CheckInv, TypeOK
  <2>3. SchemeWorked'
    BY DEF CheckInv, SchemeWorked
  <2>4. JobsTrue'
    BY DEF CheckInv, JobsTrue
  <2>5. ListTrue'
    BY <2>1 DEF CheckInv, ListTrue, SchemeWorked, NoRow
  <2>6. QED
    BY <2>2, <2>3, <2>4, <2>5 DEF CheckInv
<1>5. CASE PassCheck
  <2> USE <1>5 DEF PassCheck
  <2>1. list[1] \in Items
    <3> HIDE DEF Items
    <3> QED BY <1>a
  <2>2. [addr |-> list[1].addr, scheme |-> list[1].scheme, url |-> 0, search |-> FALSE] \in Jobs
    BY <2>1
  <2>3. TypeOK'
    BY <1>a, <2>2 DEF CheckInv, TypeOK
  <2>4. SchemeWorked'
    BY DEF CheckInv, SchemeWorked
  <2>5. JobsTrue'
    BY <1>a DEF CheckInv, JobsTrue, TypeOK
  <2>6. ListTrue'
    BY <1>a DEF CheckInv, ListTrue, TypeOK
  <2>7. QED
    BY <2>3, <2>4, <2>5, <2>6 DEF CheckInv
<1>6. ASSUME NEW w \in Workers, pc[w] # "idle", Failed(w), UNCHANGED <<ep, table, list, fresh, accepted>>,
             left' = left \/ left' = [left EXCEPT ![w] = @ + 1]
      PROVE  CheckInv'
  <2>1. left' \in [Workers -> Nat]
    BY <1>6 DEF CheckInv, TypeOK
  <2>2. TypeOK'
    BY <1>6, <2>1, FailedCheck DEF CheckInv, TypeOK
  <2>3. SchemeWorked'
    BY <1>6 DEF CheckInv, SchemeWorked
  <2>4. JobsTrue'
    BY <1>6, FailedCheck DEF CheckInv, JobsTrue
  <2>5. ListTrue'
    <3>1. /\ job'["checkdb"].addr = job["checkdb"].addr
          /\ pc'["checkdb"] # "idle" => pc["checkdb"] # "idle"
      BY <1>a, <1>6, FailedCheck DEF CheckInv
    <3>2. QED
      BY <1>6, <3>1 DEF CheckInv, ListTrue
  <2>6. QED
    BY <2>2, <2>3, <2>4, <2>5 DEF CheckInv
<1>7. ASSUME NEW w \in Workers, Dial(w) PROVE CheckInv'
  <2> DEFINE s == Tried(job[w])
             e == ep[job[w].addr]
  <2>1. pc[w] = "dial" /\ s = job[w].scheme /\ s \in 1 .. 6 /\ job[w].addr \in Addrs
    BY <1>a, <1>7 DEF Dial, Tried, CheckInv, JobsTrue
  <2> HIDE DEF s, e
  <2>2. CASE /\ pc' = [pc EXCEPT ![w] = "ok"]
             /\ accepted' = [accepted EXCEPT ![job[w].addr] = @ \cup {s}]
             /\ UNCHANGED <<ep, table, job, list, left, fresh, changes>>
    <3>1. /\ accepted' \in [Addrs -> SUBSET (1 .. 6)]
          /\ \A a \in Addrs : accepted[a] \subseteq accepted'[a]
          /\ s \in accepted'[job[w].addr]
      BY <2>1, <2>2 DEF CheckInv, TypeOK
    <3>2. TypeOK'
      BY <2>2, <3>1 DEF CheckInv, TypeOK
    <3>3. SchemeWorked'
      BY <2>2, <3>1 DEF CheckInv, SchemeWorked
    <3>4. JobsTrue'
      BY <1>a, <2>1, <2>2, <3>1 DEF CheckInv, JobsTrue, TypeOK
    <3>5. ListTrue'
      BY <1>a, <2>1, <2>2, <3>1 DEF CheckInv, ListTrue, TypeOK
    <3>6. QED
      BY <3>2, <3>3, <3>4, <3>5 DEF CheckInv
  <2>3. CASE /\ Failed(w) /\ (left' = left \/ left' = [left EXCEPT ![w] = @ + 1])
             /\ UNCHANGED <<ep, table, list, fresh, accepted, changes>>
    BY <1>6, <2>1, <2>3
  <2>4. CASE pc' = [pc EXCEPT ![w] = "hung"] /\ UNCHANGED <<ep, table, job, list, left, fresh, accepted, changes>>
    <3>1. TypeOK'
      BY <2>4 DEF CheckInv, TypeOK
    <3>2. JobsTrue'
      BY <2>4 DEF CheckInv, JobsTrue, TypeOK
    <3>3. SchemeWorked' /\ ListTrue'
      BY <1>a, <2>1, <2>4 DEF CheckInv, ListTrue, SchemeWorked, TypeOK
    <3>4. QED
      BY <3>1, <3>2, <3>3 DEF CheckInv
  <2>5. QED
    BY <1>7, <2>2, <2>3, <2>4 DEF Dial, s, e
<1>8. ASSUME NEW w \in Workers, HungCloses(w) PROVE CheckInv'
  BY <1>6, <1>8 DEF HungCloses
<1>9. ASSUME NEW w \in Workers, pc[w] = "ok"
      PROVE  Saved(w) \in Row /\ Saved(w).ord = 1 /\ Saved(w).scheme \in accepted[job[w].addr]
  <2>1. job[w].scheme \in 1 .. 6 /\ job[w].scheme \in accepted[job[w].addr]
    BY <1>a, <1>9 DEF CheckInv, JobsTrue
  <2>2. QED
    BY <2>1 DEF Saved, Row
<1>10. CASE ReportEnds
  <2> DEFINE a == job["candidate"].addr
  <2>1. a \in Addrs
    BY <1>a
  <2>2. CASE /\ pc["candidate"] = "ok"
             /\ table' = [table EXCEPT ![a] = Saved("candidate")]
             /\ fresh' = fresh \cup {a}
    <3>1. /\ table' \in [Addrs -> Row] /\ table'[a] = Saved("candidate")
          /\ \A b \in Addrs \ {a} : table'[b] = table[b]
      BY <1>a, <1>9, <2>1, <2>2
    <3> HIDE DEF a
    <3>2. TypeOK'
      BY <1>10, <2>1, <2>2, <3>1 DEF ReportEnds, CheckInv, TypeOK
    <3>3. SchemeWorked'
      BY <1>a, <1>9, <1>10, <2>1, <2>2, <3>1 DEF ReportEnds, CheckInv, SchemeWorked, a
    <3>4. JobsTrue'
      BY <1>10 DEF ReportEnds, CheckInv, JobsTrue, TypeOK
    <3>5. ListTrue'
      BY <1>a, <1>10, <2>1, <2>2, <3>1 DEF ReportEnds, CheckInv, ListTrue, TypeOK
    <3>6. QED
      BY <3>2, <3>3, <3>4, <3>5 DEF CheckInv
  <2>3. CASE pc["candidate"] # "ok" /\ UNCHANGED <<table, fresh>>
    BY <1>a, <1>10, <2>3 DEF ReportEnds, CheckInv, TypeOK, SchemeWorked, JobsTrue, ListTrue
  <2>4. QED
    BY <1>10, <2>2, <2>3 DEF ReportEnds
<1>11. CASE PassEnds
  <2> DEFINE a == job["checkdb"].addr
  <2>1. /\ a \in Addrs /\ list # <<>> /\ a = list[1].addr
    BY <1>a, <1>11 DEF PassEnds, CheckInv, ListTrue
  <2>2. /\ table' \in [Addrs -> Row]
        /\ table'[a] = NoRow \/ (table'[a] = Saved("checkdb") /\ pc["checkdb"] = "ok")
        /\ \A b \in Addrs \ {a} : table'[b] = table[b]
    BY <1>a, <1>9, <1>11, <2>1 DEF PassEnds, Row
  <2>3. /\ list' \in Seq(Items) /\ Len(list') = Len(list) - 1
        /\ \A i \in 1 .. Len(list') : i + 1 \in 1 .. Len(list) /\ list'[i] = list[i + 1]
    <3> HIDE DEF Items
    <3> QED BY <1>a, <1>11, <2>1 DEF PassEnds
  <2>4. ASSUME NEW i \in 1 .. Len(list')
        PROVE  /\ list'[i].addr \in Addrs \ {a}
               /\ list'[i].scheme \in accepted[list'[i].addr]
               /\ table[list'[i].addr].ord = 1 => list'[i].addr \in fresh
    <3>1. list'[i] \in Items /\ list'[i] = list[i + 1] /\ i + 1 \in 1 .. Len(list)
      <4> HIDE DEF Items
      <4> QED BY <2>3
    <3>2. list[i + 1].addr # list[1].addr
      <4>1. 1 \in 1 .. Len(list) /\ i + 1 # 1
        BY <3>1
      <4>2. QED
        BY <3>1, <4>1 DEF CheckInv, ListTrue
    <3>3. QED
      BY <2>1, <3>1, <3>2 DEF CheckInv, ListTrue
  <2> HIDE DEF a
  <2>5. TypeOK'
    BY <1>11, <2>2, <2>3 DEF PassEnds, CheckInv, TypeOK
  <2>6. SchemeWorked'
    BY <1>a, <1>9, <1>11, <2>1, <2>2 DEF PassEnds, CheckInv, SchemeWorked, a
  <2>7. JobsTrue'
    BY <1>11 DEF PassEnds, CheckInv, JobsTrue, TypeOK
  <2>8. ListTrue'
    <3>1. \A i, k \in 1 .. Len(list') : list'[i].addr = list'[k].addr => i = k
      <4>1. SUFFICES ASSUME NEW i \in 1 .. Len(list'), NEW k \in 1 .. Len(list'),
                            list[i + 1].addr = list[k + 1].addr
                     PROVE  i = k
        BY <2>3
      <4>2. i + 1 \in 1 .. Len(list) /\ k + 1 \in 1 .. Len(list)
        BY <2>3
      <4>3. i + 1 = k + 1
        BY <4>1, <4>2 DEF CheckInv, ListTrue
      <4>4. QED
        BY <4>3
    <3>2. \A i \in 1 .. Len(list') : /\ list'[i].scheme \in accepted[list'[i].addr]
                                     /\ table'[list'[i].addr].ord = 1 => list'[i].addr \in fresh
      BY <2>2, <2>4
    <3>3. pc'["checkdb"] = "idle" /\ fresh' = fresh /\ accepted' = accepted
      BY <1>a, <1>11 DEF PassEnds, CheckInv, TypeOK
    <3>4. QED
      BY <3>1, <3>2, <3>3 DEF ListTrue
  <2>9. QED
    BY <2>5, <2>6, <2>7, <2>8 DEF CheckInv
<1>12. QED
  BY <1>a, <1>1, <1>2, <1>3, <1>4, <1>5, <1>7, <1>8, <1>10, <1>11 DEF Next, CheckDB, Candidate

\* Together.
LEMMA CheckInvariant == Spec => []CheckInv
<1>1. CheckInv /\ UNCHANGED vars => CheckInv'
  BY DEF CheckInv, vars, TypeOK, SchemeWorked, JobsTrue, ListTrue
<1>2. CheckInv /\ [Next]_vars => CheckInv'
  BY <1>1, CheckStep
<1>3. QED
  BY <1>2, CheckInit, PTL DEF Spec

\* Check and its callers: every row of the table, suspect or usable, has a scheme
\* with which a connection was once made through that proxy (SchemeWorked),
\* whatever changes at its address while the schemes are tried.
THEOREM SchemeWorkedHolds == Spec => []SchemeWorked
<1>1. CheckInv => SchemeWorked
  BY DEF CheckInv
<1>2. QED
  BY <1>1, CheckInvariant, PTL

\* CheckDB deletes a usable row only if it listed the row as a suspect and another
\* goroutine saved the proxy as usable since (UsableDeleted).
THEOREM UsableDeletedHolds == Spec => UsableDeleted
<1> DEFINE Kept == \A a \in Addrs : table[a].ord = 1 /\ table'[a] = NoRow => a \in fresh
<1>1. CheckInv /\ [Next]_vars => [Kept]_vars
  <2> SUFFICES ASSUME CheckInv, Next, NEW a \in Addrs, table[a].ord = 1, table'[a] = NoRow
               PROVE  a \in fresh
    OBVIOUS
  <2>1. table \in [Addrs -> Row] /\ NoRow.ord = -1 /\ \A w \in Workers : Saved(w).ord = 1
    BY DEF CheckInv, TypeOK, NoRow, Saved
  <2>2. PassEnds /\ a = job["checkdb"].addr
    <3>1. table' # table
      BY <2>1
    <3>2. ASSUME NEW b \in Addrs, Suspect(b) PROVE FALSE
      BY <2>1, <3>2 DEF Suspect, Row, NoRow
    <3>3. ~ReportEnds
      BY <2>1 DEF ReportEnds, Workers
    <3>4. PassEnds
      BY <3>1, <3>2, <3>3 DEF Next, CheckDB, Candidate, Report, Change, Pass, PassCheck, Dial, HungCloses
    <3>5. QED
      BY <2>1, <3>4 DEF PassEnds
  <2>3. list \in Seq([addr : Addrs, scheme : 1 .. 6]) /\ list # <<>> /\ a = list[1].addr
    BY <2>2 DEF PassEnds, CheckInv, TypeOK, ListTrue
  <2>4. 1 \in 1 .. Len(list)
    BY <2>3
  <2>5. QED
    BY <2>3, <2>4 DEF CheckInv, ListTrue
<1>2. QED
  BY <1>1, CheckInvariant, PTL DEF Spec, UsableDeleted

\* While a check dials, it has left open at most one connection for each SOCKS
\* scheme behind it: a search those before its present scheme, of which three are
\* SOCKS schemes, a check with a scheme of its own none.
DiallingOpen ==
    \A w \in Workers : pc[w] \in {"dial", "hung"} =>
        IF job[w].search THEN left[w] < job[w].scheme /\ left[w] <= 3 ELSE left[w] = 0

LeftInv == CheckInv /\ DiallingOpen /\ FewLeftOpen

\* A failed attempt leaves at most one connection, and only a SOCKS scheme does.
LEMMA FailedOpen ==
    ASSUME LeftInv, NEW w \in Workers, pc[w] \in {"dial", "hung"}, NEW e, Failed(w),
           left' = IF LeavesOpen(Tried(job[w]), e) THEN [left EXCEPT ![w] = @ + 1] ELSE left
    PROVE  DiallingOpen' /\ FewLeftOpen'
<1>1. /\ Tried(job[w]) = job[w].scheme /\ job[w].scheme \in 1 .. 6 /\ job[w].search \in BOOLEAN
      /\ left \in [Workers -> Nat]
  BY DEF LeftInv, CheckInv, TypeOK, JobsTrue, Tried
<1>2. LeavesOpen(Tried(job[w]), e) => job[w].scheme <= 3
  BY <1>1 DEF LeavesOpen, SCHEME
<1>3. /\ \A u \in Workers \ {w} : left'[u] = left[u]
      /\ left'[w] \in Nat /\ (left'[w] = left[w] \/ (left'[w] = left[w] + 1 /\ job[w].scheme <= 3))
  <2>1. CASE LeavesOpen(Tried(job[w]), e)
    BY <1>1, <1>2, <2>1
  <2>2. CASE ~LeavesOpen(Tried(job[w]), e)
    BY <1>1, <2>2
  <2>3. QED
    BY <2>1, <2>2
<1>4. \A u \in Workers \ {w} : job'[u] = job[u] /\ pc'[u] = pc[u]
  BY FailedCheck DEF LeftInv
<1>5. Len(SCHEME) = 6
  BY DEF SCHEME
<1>6. CASE job[w].search /\ job[w].scheme < 6
  <2>1. job'[w].search /\ job'[w].scheme = job[w].scheme + 1
    BY <1>5, <1>6 DEF Failed, LeftInv, CheckInv, TypeOK
  <2>2. left'[w] < job'[w].scheme /\ left'[w] <= 3
    BY <1>1, <1>3, <1>6, <2>1 DEF LeftInv, DiallingOpen
  <2>3. QED
    BY <1>3, <1>4, <2>1, <2>2 DEF LeftInv, DiallingOpen, FewLeftOpen
<1>7. CASE ~(job[w].search /\ job[w].scheme < 6)
  <2>1. job' = job /\ pc'[w] = "err"
    BY <1>5, <1>7 DEF Failed, LeftInv, CheckInv, TypeOK
  <2>2. left'[w] <= IF job[w].search THEN 3 ELSE IF job[w].scheme <= 3 THEN 1 ELSE 0
    BY <1>1, <1>3, <1>7 DEF LeftInv, DiallingOpen
  <2>3. QED
    BY <1>3, <1>4, <2>1, <2>2 DEF LeftInv, DiallingOpen, FewLeftOpen
<1>8. QED
  BY <1>6, <1>7

\* Every step keeps the number of connections left open within bounds.
LEMMA OpenStep ==
    ASSUME LeftInv, Next
    PROVE  DiallingOpen' /\ FewLeftOpen'
<1> USE DEF LeftInv, DiallingOpen, FewLeftOpen
<1>a. /\ job \in [Workers -> [addr : Addrs, scheme : 1 .. 6, url : 0 .. 6, search : BOOLEAN]]
      /\ pc \in [Workers -> {"idle", "dial", "hung", "ok", "err"}] /\ left \in [Workers -> Nat]
      /\ "candidate" \in Workers /\ "checkdb" \in Workers
  BY DEF CheckInv, TypeOK, Workers
<1>1. ASSUME NEW a \in Addrs, Report(a) PROVE DiallingOpen' /\ FewLeftOpen'
  BY <1>1, <1>a DEF Report
<1>2. ASSUME NEW a \in Addrs, Suspect(a) \/ Change(a) PROVE DiallingOpen' /\ FewLeftOpen'
  BY <1>2 DEF Suspect, Change
<1>3. CASE Pass
  BY <1>3 DEF Pass
<1>4. CASE PassCheck
  BY <1>4, <1>a DEF PassCheck
<1>5. ASSUME NEW w \in Workers, Dial(w) PROVE DiallingOpen' /\ FewLeftOpen'
  <2>1. CASE Failed(w) /\ left' = IF LeavesOpen(Tried(job[w]), ep[job[w].addr])
                                  THEN [left EXCEPT ![w] = @ + 1] ELSE left
    <3>1. pc[w] \in {"dial", "hung"}
      BY <1>5 DEF Dial
    <3> HIDE DEF LeftInv, DiallingOpen, FewLeftOpen
    <3>2. QED
      BY <2>1, <3>1, FailedOpen
  <2>2. CASE pc' = [pc EXCEPT ![w] = "ok"] /\ UNCHANGED <<job, left>>
    BY <1>a, <2>2
  <2>3. CASE pc' = [pc EXCEPT ![w] = "hung"] /\ UNCHANGED <<job, left>>
    <3>1. pc[w] = "dial"
      BY <1>5 DEF Dial
    <3>2. QED
      BY <1>a, <2>3, <3>1
  <2>4. QED
    BY <1>5, <2>1, <2>2, <2>3 DEF Dial
<1>6. ASSUME NEW w \in Workers, HungCloses(w) PROVE DiallingOpen' /\ FewLeftOpen'
  <2> HIDE DEF LeftInv, DiallingOpen, FewLeftOpen
  <2>1. QED
    BY <1>6, FailedOpen DEF HungCloses
<1>7. CASE ReportEnds
  BY <1>7, <1>a DEF ReportEnds
<1>8. CASE PassEnds
  BY <1>8, <1>a DEF PassEnds
<1>9. QED
  BY <1>a, <1>1, <1>2, <1>3, <1>4, <1>5, <1>6, <1>7, <1>8 DEF Next, CheckDB, Candidate

\* Check and the SOCKS clients: a check leaves at most one connection open for each
\* SOCKS scheme it tried, however the endpoint changes during the search, and a
\* check of an HTTP proxy none (FewLeftOpen).
THEOREM FewLeftOpenHolds == Spec => []FewLeftOpen
<1>1. Init => LeftInv
  <2> SUFFICES ASSUME Init PROVE DiallingOpen /\ FewLeftOpen
    BY CheckInit DEF LeftInv
  <2>1. \A w \in Workers : left[w] = 0 /\ pc[w] = "idle"
    BY DEF Init
  <2>2. QED
    BY <2>1 DEF DiallingOpen, FewLeftOpen
<1>2. LeftInv /\ [Next]_vars => LeftInv'
  <2>1. ASSUME LeftInv, Next PROVE LeftInv'
    BY <2>1, CheckStep, OpenStep DEF LeftInv
  <2>2. ASSUME LeftInv, UNCHANGED vars PROVE LeftInv'
    BY <2>2 DEF LeftInv, DiallingOpen, FewLeftOpen, CheckInv, vars, TypeOK, SchemeWorked, JobsTrue, ListTrue
  <2>3. QED
    BY <2>1, <2>2
<1>3. LeftInv => FewLeftOpen
  BY DEF LeftInv
<1>4. QED
  BY <1>1, <1>2, <1>3, PTL DEF Spec

-----------------------------------------------------------------------------
(* A dial through a proxy.                                                 *)

\* The data messages after the nth, up to the mth.
Numbered(n, m) == [i \in 1 .. m - n |-> D!Data(n + i)]

\* Before the request is granted, at most one packet is under way, the one the
\* other side waits for, and no data.
Handshake ==
    /\ spc # "gone" => open
    /\ spc \in {"accept", "methods", "request"} =>
          csent = 0 /\ tsent = 0 /\ app = <<>> /\ tgot = <<>>
    /\ spc = "accept" =>
          /\ s2c = <<>>
          /\ \/ cpc \in {"start", "failed"} /\ c2s = <<>>
             \/ cpc \in {"methods", "hello"} /\ c2s = <<D!Packet(cpc)>>
             \/ cpc = "reply" /\ c2s = <<D!Packet("request")>>
    /\ spc = "methods" => cpc = "methods" /\ Len(c2s) = 1 /\ s2c = <<>>
    /\ spc = "request" =>
          \/ cpc = "methods" /\ c2s = <<>> /\ s2c = <<D!Packet("method0")>>
          \/ cpc = "reply" /\ Len(c2s) = 1 /\ s2c = <<>>

\* The answer is under way, with what the target sent behind it.
Answered ==
    /\ cpc = "reply" /\ c2s = <<>> /\ csent = 0 /\ app = <<>> /\ tgot = <<>>
    /\ s2c = <<D!Packet("granted")>> \o Numbered(0, tsent)

\* Both directions hold numbered data only.
Through ==
    /\ cpc = "open"
    /\ \E n \in 0 .. tsent : app \o s2c = Numbered(n, tsent)
    /\ tgot \o c2s = Numbered(0, csent)

\* After the request was granted.
Flow ==
    /\ spc = "dial" => tsent = 0
    /\ spc \in {"dial", "pipe"} => Answered \/ Through

DialInv == D!TypeOK /\ Handshake /\ Flow

\* What is read from one sequence and appended to another stays in its place.
LEMMA MoveHead ==
    ASSUME NEW S, NEW a \in Seq(S), NEW b \in Seq(S), b # <<>>
    PROVE  Append(a, b[1]) \o Tail(b) = a \o b
<1>1. /\ Append(a, b[1]) \in Seq(S) /\ Len(Append(a, b[1])) = Len(a) + 1
      /\ Tail(b) \in Seq(S) /\ Len(Tail(b)) = Len(b) - 1 /\ Len(b) >= 1
  OBVIOUS
<1>2. /\ Append(a, b[1]) \o Tail(b) \in Seq(S) /\ a \o b \in Seq(S)
      /\ Len(Append(a, b[1]) \o Tail(b)) = Len(a) + Len(b) /\ Len(a \o b) = Len(a) + Len(b)
  BY <1>1
<1>3. ASSUME NEW i \in 1 .. Len(a) + Len(b)
      PROVE  (Append(a, b[1]) \o Tail(b))[i] = (a \o b)[i]
  BY <1>1
<1>4. QED
  BY <1>2, <1>3, SeqEqual

\* A message appended to the second of two sequences is appended to both.
LEMMA AppendBehind ==
    ASSUME NEW S, NEW a \in Seq(S), NEW b \in Seq(S), NEW x \in S
    PROVE  a \o Append(b, x) = Append(a \o b, x)
OBVIOUS

\* The messages there are, and what distinguishes two packets.
LEMMA Messages ==
    /\ \A t \in {"methods", "hello", "request", "method0", "method2", "method255", "granted", "rejected"} :
          D!Packet(t) \in D!Message
    /\ \A n \in 1 .. MaxData : D!Data(n) \in D!Message
    /\ \A t, u : D!Packet(t) = D!Packet(u) => t = u
BY DEF D!Message, D!Packet, D!Data

\* A packet that is sent.
LEMMA Sent ==
    ASSUME NEW q \in Seq(D!Message),
           NEW t \in {"methods", "hello", "request", "method0", "method2", "method255", "granted", "rejected"}
    PROVE  Append(q, D!Packet(t)) \in Seq(D!Message) /\ Append(<<>>, D!Packet(t)) = <<D!Packet(t)>>
<1>1. PICK p \in D!Message : p = D!Packet(t)
  BY Messages
<1>2. Append(q, p) \in Seq(D!Message) /\ Append(<<>>, p) = <<p>>
  OBVIOUS
<1>3. QED
  BY <1>1, <1>2, Zenon

\* Numbered data are messages.
LEMMA NumberedData ==
    ASSUME NEW n \in Nat, NEW m \in Nat, n <= m, m <= MaxData
    PROVE  /\ Numbered(n, m) \in Seq(D!Message) /\ Len(Numbered(n, m)) = m - n
           /\ \A i \in 1 .. m - n : Numbered(n, m)[i] = D!Data(n + i)
<1>1. \A i \in 1 .. m - n : D!Data(n + i) \in D!Message
  BY Messages, DialAssumption
<1>2. Numbered(n, m) \in [1 .. m - n -> D!Message]
  BY <1>1 DEF Numbered
<1>3. m - n \in Nat
  OBVIOUS
<1>4. QED
  BY <1>2, <1>3 DEF Numbered

\* The next message continues the numbers.
LEMMA NextNumber ==
    ASSUME NEW n \in Nat, NEW m \in Nat, n <= m, m < MaxData
    PROVE  Append(Numbered(n, m), D!Data(m + 1)) = Numbered(n, m + 1)
<1>1. D!Data(m + 1) \in D!Message
  BY Messages, DialAssumption
<1>2. /\ Numbered(n, m) \in Seq(D!Message) /\ Len(Numbered(n, m)) = m - n
      /\ \A i \in 1 .. m - n : Numbered(n, m)[i] = D!Data(n + i)
  BY NumberedData, DialAssumption
<1>3. /\ Numbered(n, m + 1) \in Seq(D!Message) /\ Len(Numbered(n, m + 1)) = (m + 1) - n
      /\ \A i \in 1 .. (m + 1) - n : Numbered(n, m + 1)[i] = D!Data(n + i)
  BY NumberedData, DialAssumption
<1>4. /\ Append(Numbered(n, m), D!Data(m + 1)) \in Seq(D!Message)
      /\ Len(Append(Numbered(n, m), D!Data(m + 1))) = (m + 1) - n
  BY <1>1, <1>2
<1>5. ASSUME NEW i \in 1 .. (m + 1) - n
      PROVE  Append(Numbered(n, m), D!Data(m + 1))[i] = D!Data(n + i)
  <2>1. CASE i = (m + 1) - n
    <3>1. n + i = m + 1
      BY <2>1
    <3>2. QED
      BY <1>1, <1>2, <2>1, <3>1
  <2>2. CASE i # (m + 1) - n
    BY <1>1, <1>2, <2>2
  <2>3. QED
    BY <2>1, <2>2
<1>6. QED
  BY <1>3, <1>4, <1>5, SeqEqual

\* What a reader leaves of an answer and the data behind it, when it takes k
\* messages.
LEMMA BehindTheAnswer ==
    ASSUME NEW p \in D!Message, NEW t \in Nat, t <= MaxData, NEW k \in 1 .. t + 1,
           NEW s, s = <<p>> \o Numbered(0, t)
    PROVE  Len(s) = t + 1 /\ s[1] = p /\ SubSeq(s, k + 1, Len(s)) = Numbered(k - 1, t)
<1>1. /\ Numbered(0, t) \in Seq(D!Message) /\ Len(Numbered(0, t)) = t
      /\ \A i \in 1 .. t : Numbered(0, t)[i] = D!Data(i)
  <2>1. /\ Numbered(0, t) \in Seq(D!Message) /\ Len(Numbered(0, t)) = t - 0
        /\ \A i \in 1 .. t - 0 : Numbered(0, t)[i] = D!Data(0 + i)
    <3>1. 0 \in Nat /\ 0 <= t
      OBVIOUS
    <3>2. QED
      BY <3>1, NumberedData, Zenon
  <2>2. t - 0 = t /\ \A i \in 1 .. t : 0 + i = i
    OBVIOUS
  <2>3. QED
    BY <2>1, <2>2
<1>2. /\ s \in Seq(D!Message) /\ Len(s) = t + 1 /\ s[1] = p
      /\ \A i \in 1 .. t : s[i + 1] = D!Data(i)
  BY <1>1
<1>3. /\ Numbered(k - 1, t) \in Seq(D!Message) /\ Len(Numbered(k - 1, t)) = t - (k - 1)
      /\ \A i \in 1 .. t - (k - 1) : Numbered(k - 1, t)[i] = D!Data((k - 1) + i)
  <2>1. k - 1 \in Nat /\ k - 1 <= t
    OBVIOUS
  <2>2. QED
    BY <2>1, NumberedData
<1>4. /\ SubSeq(s, k + 1, t + 1) \in Seq(D!Message)
      /\ Len(SubSeq(s, k + 1, t + 1)) = t - (k - 1)
      /\ \A i \in 1 .. t - (k - 1) : SubSeq(s, k + 1, t + 1)[i] = s[((k - 1) + i) + 1]
  <2>1. SubSeq(s, k + 1, t + 1) \in Seq(D!Message)
    BY <1>2
  <2>2. Len(SubSeq(s, k + 1, t + 1)) = t - (k - 1)
    BY <1>2
  <2>3. ASSUME NEW i \in 1 .. t - (k - 1)
        PROVE  SubSeq(s, k + 1, t + 1)[i] = s[((k - 1) + i) + 1]
    BY <1>2
  <2>4. QED
    BY <2>1, <2>2, <2>3
<1>5. \A i \in 1 .. t - (k - 1) : SubSeq(s, k + 1, t + 1)[i] = D!Data((k - 1) + i)
  <2>1. SUFFICES ASSUME NEW i \in 1 .. t - (k - 1)
                 PROVE  SubSeq(s, k + 1, t + 1)[i] = D!Data((k - 1) + i)
    OBVIOUS
  <2>2. (k - 1) + i \in 1 .. t
    OBVIOUS
  <2>3. s[((k - 1) + i) + 1] = D!Data((k - 1) + i)
    BY <1>2, <2>2, Zenon
  <2>4. SubSeq(s, k + 1, t + 1)[i] = s[((k - 1) + i) + 1]
    BY <1>4, Zenon
  <2>5. QED
    BY <2>3, <2>4, Zenon
<1>6. SubSeq(s, k + 1, t + 1) = Numbered(k - 1, t)
  BY <1>3, <1>4, <1>5, SeqEqual
<1>7. QED
  BY <1>2, <1>6

\* No message is numbered yet.
LEMMA NoNumber ==
    ASSUME NEW m \in Nat, m <= MaxData
    PROVE  Numbered(m, m) = <<>>
<1>1. Numbered(m, m) \in Seq(D!Message) /\ Len(Numbered(m, m)) = m - m
  BY NumberedData
<1>2. QED
  BY <1>1

\* The initial state.
LEMMA DialInit == D!Init => DialInv
BY DialAssumption DEF D!Init, DialInv, D!TypeOK, Handshake, Flow

\* Every step keeps the types.
LEMMA DialTypeStep ==
    ASSUME DialInv, D!Next
    PROVE  D!TypeOK'
<1> USE DEF DialInv, D!TypeOK, D!data
<1>1. CASE D!ClientStart
  <2>1. Append(c2s, D!Packet(D!Greeting(conf.scheme))) \in Seq(D!Message)
    <3>1. D!Greeting(conf.scheme) \in {"methods", "hello", "request"}
      BY DEF D!Greeting
    <3>2. QED
      BY <3>1, Sent
  <2>2. c2s' \in Seq(D!Message)
    BY <1>1, <2>1, Zenon DEF D!ClientStart
  <2>3. cpc' \in {"failed", "methods", "hello", "reply"}
    BY <1>1 DEF D!ClientStart, D!Greeting, D!Five
  <2>4. QED
    BY <1>1, <2>2, <2>3 DEF D!ClientStart
<1>2. CASE D!ClientMethod
  <2>1. Append(c2s, D!Packet("request")) \in Seq(D!Message)
    BY Sent
  <2>2. c2s' \in Seq(D!Message)
    BY <1>2, <2>1, Zenon DEF D!ClientMethod
  <2>3. s2c' \in Seq(D!Message) /\ cpc' \in {"failed", "reply"}
    BY <1>2 DEF D!ClientMethod
  <2>4. QED
    BY <1>2, <2>2, <2>3 DEF D!ClientMethod
<1>3. CASE D!ClientReply
  <2>1. PICK n \in 1 .. Len(s2c) : s2c' = SubSeq(s2c, n + 1, Len(s2c))
    BY <1>3 DEF D!ClientReply
  <2>2. s2c' \in Seq(D!Message)
    BY <2>1
  <2>3. QED
    BY <1>3, <2>2 DEF D!ClientReply
<1>4. CASE D!ClientEof
  BY <1>4 DEF D!ClientEof
<1>5. CASE D!ClientRead
  BY <1>5 DEF D!ClientRead
<1>6. CASE D!ClientWrite
  <2>1. csent' \in 1 .. MaxData /\ D!Data(csent') \in D!Message
    BY <1>6, Messages, DialAssumption DEF D!ClientWrite
  <2>2. QED
    BY <1>6, <2>1 DEF D!ClientWrite
<1>7. CASE D!Accept
  <2>1. spc' \in {"gone", "methods", "request"}
    BY <1>7 DEF D!Accept
  <2>2. QED
    BY <1>7, <2>1 DEF D!Accept
<1>8. CASE D!Methods
  <2>1. \A t \in {"method0", "method2", "method255"} : Append(s2c, D!Packet(t)) \in Seq(D!Message)
    BY Sent
  <2>2. c2s' \in Seq(D!Message) /\ s2c' \in Seq(D!Message)
    <3>1. c2s' \in Seq(D!Message)
      <4>1. c2s' = Tail(c2s) /\ Len(c2s) = 1
        BY <1>8 DEF D!Methods, Handshake
      <4>2. c2s # <<>> /\ c2s \in Seq(D!Message)
        <5>1. ASSUME c2s = <<>> PROVE FALSE
          BY <4>1, <5>1
        <5>2. QED
          BY <5>1
      <4>3. QED
        BY <4>1, <4>2, HeadTailProperties, Zenon
    <3>2. s2c' \in Seq(D!Message)
      BY <1>8, <2>1, Zenon DEF D!Methods
    <3>3. QED
      BY <3>1, <3>2
  <2>3. open' \in BOOLEAN /\ spc' \in {"request", "password", "gone"}
    BY <1>8, Zenon DEF D!Methods
  <2>4. QED
    BY <1>8, <2>2, <2>3 DEF D!Methods
<1>9. CASE D!Password
  <2>1. c2s' \in Seq(D!Message)
    BY <1>9 DEF D!Password
  <2>2. QED
    BY <1>9, <2>1 DEF D!Password
<1>10. CASE D!Request
  <2>1. Append(s2c, D!Packet("granted")) \in Seq(D!Message)
    BY Sent
  <2>2. s2c' \in Seq(D!Message)
    BY <1>10, <2>1, Zenon DEF D!Request
  <2>3. c2s' = Tail(c2s) /\ c2s # <<>> /\ spc' = "dial" /\ UNCHANGED <<cpc, open, csent, tsent, app, tgot>>
    BY <1>10, Zenon DEF D!Request
  <2>4. QED
    BY <2>2, <2>3
<1>11. CASE D!DialTarget
  <2>1. Append(s2c, D!Packet("rejected")) \in Seq(D!Message)
    BY Sent
  <2>2. s2c' \in Seq(D!Message)
    BY <1>11, <2>1, Zenon DEF D!DialTarget
  <2>3. open' \in BOOLEAN /\ spc' \in {"pipe", "gone"}
    BY <1>11, Zenon DEF D!DialTarget
  <2>4. QED
    BY <1>11, <2>2, <2>3 DEF D!DialTarget
<1>12. CASE D!CopyBack
  <2>1. tsent' \in 1 .. MaxData /\ D!Data(tsent') \in D!Message
    BY <1>12, Messages, DialAssumption DEF D!CopyBack
  <2>2. QED
    BY <1>12, <2>1 DEF D!CopyBack
<1>13. CASE D!CopyForth
  BY <1>13 DEF D!CopyForth
<1>14. CASE D!Break
  <2>1. c2s' \in Seq(D!Message) /\ s2c' \in Seq(D!Message)
    BY <1>14 DEF D!Break
  <2>2. QED
    BY <1>14, <2>1 DEF D!Break
<1>15. QED
  BY <1>1, <1>2, <1>3, <1>4, <1>5, <1>6, <1>7, <1>8, <1>9, <1>10, <1>11, <1>12, <1>13, <1>14
     DEF D!Next, D!Client, D!Server

\* Every step up to the answer leaves at most one packet under way.
LEMMA HandshakeStep ==
    ASSUME DialInv, D!Next
    PROVE  Handshake'
<1> USE DEF DialInv, D!TypeOK, Handshake, D!data
<1>1. CASE D!ClientStart
  <2>1. CASE cpc' = "failed" /\ c2s' = c2s
    BY <1>1, <2>1, AppendProperties, Zenon DEF D!ClientStart
  <2>2. CASE c2s' = Append(c2s, D!Packet(D!Greeting(conf.scheme)))
             /\ cpc' = IF D!Five(conf.scheme) THEN D!Greeting(conf.scheme) ELSE "reply"
    <3>1. spc = "accept" => c2s = <<>>
      BY <1>1 DEF D!ClientStart
    <3>2. spc = "accept" => c2s' = <<D!Packet(D!Greeting(conf.scheme))>>
      BY <2>2, <3>1
    <3>3. \/ D!Greeting(conf.scheme) \in {"methods", "hello"} /\ cpc' = D!Greeting(conf.scheme)
          \/ D!Greeting(conf.scheme) = "request" /\ cpc' = "reply"
      BY <2>2 DEF D!Greeting, D!Five
    <3>4. spc \notin {"methods", "request"}
      BY <1>1 DEF D!ClientStart
    <3>5. QED
      BY <1>1, <3>2, <3>3, <3>4 DEF D!ClientStart
  <2>3. QED
    BY <1>1, <2>1, <2>2 DEF D!ClientStart
<1>2. CASE D!ClientMethod
  BY <1>2 DEF D!ClientMethod
<1>3. CASE D!ClientReply
  BY <1>3 DEF D!ClientReply
<1>4. CASE D!ClientEof
  BY <1>4 DEF D!ClientEof
<1>5. CASE D!ClientRead
  BY <1>5 DEF D!ClientRead
<1>6. CASE D!ClientWrite
  BY <1>6 DEF D!ClientWrite
<1>7. CASE D!Accept
  <2>1. c2s[1] = D!Packet("hello") => spc' = "gone"
    BY <1>7, Messages DEF D!Accept
  <2>2. c2s[1] = D!Packet("methods") => spc' = "methods"
    BY <1>7, Messages DEF D!Accept
  <2>3. c2s[1] = D!Packet("request") => spc' \in {"gone", "request"}
    BY <1>7, Messages DEF D!Accept
  <2>4. QED
    BY <1>7, <2>1, <2>2, <2>3 DEF D!Accept
<1>8. CASE D!Methods
  <2>1. c2s' = <<>>
    BY <1>8 DEF D!Methods
  <2>2. spc' = "request" => s2c' = <<D!Packet("method0")>> /\ open'
    <3>1. s2c = <<>> /\ Append(<<>>, D!Packet("method0")) = <<D!Packet("method0")>>
      BY <1>8, Sent DEF D!Methods
    <3>2. spc' = "request" => s2c' = Append(s2c, D!Packet("method0")) /\ open' = open
      BY <1>8 DEF D!Methods
    <3>3. QED
      BY <1>8, <3>1, <3>2 DEF D!Methods
  <2>3. spc' \in {"request", "password", "gone"} /\ (spc' # "gone" => open') /\ cpc' = "methods"
    BY <1>8 DEF D!Methods
  <2>4. csent' = 0 /\ tsent' = 0 /\ app' = <<>> /\ tgot' = <<>>
    BY <1>8 DEF D!Methods
  <2>5. QED
    BY <2>1, <2>2, <2>3, <2>4
<1>9. CASE D!Password
  BY <1>9 DEF D!Password
<1>10. CASE D!Request
  BY <1>10 DEF D!Request
<1>11. CASE D!DialTarget
  BY <1>11 DEF D!DialTarget
<1>12. CASE D!CopyBack
  BY <1>12 DEF D!CopyBack
<1>13. CASE D!CopyForth
  BY <1>13 DEF D!CopyForth
<1>14. CASE D!Break
  BY <1>14 DEF D!Break
<1>15. QED
  BY <1>1, <1>2, <1>3, <1>4, <1>5, <1>6, <1>7, <1>8, <1>9, <1>10, <1>11, <1>12, <1>13, <1>14
     DEF D!Next, D!Client, D!Server

\* Every step after the answer keeps the data of both directions in order.
LEMMA FlowStep ==
    ASSUME DialInv, D!Next
    PROVE  Flow'
<1>a. /\ c2s \in Seq(D!Message) /\ s2c \in Seq(D!Message) /\ app \in Seq(D!Message) /\ tgot \in Seq(D!Message)
      /\ csent \in Nat /\ tsent \in Nat /\ csent <= MaxData /\ tsent <= MaxData
  BY DialAssumption DEF DialInv, D!TypeOK
<1>1. CASE D!ClientStart
  BY <1>1 DEF D!ClientStart, DialInv, Flow, Answered, Through
<1>2. CASE D!ClientMethod
  BY <1>2 DEF D!ClientMethod, D!data, DialInv, Flow, Answered, Through
<1>3. CASE D!ClientReply
  <2> SUFFICES ASSUME spc \in {"dial", "pipe"} PROVE Through'
    BY <1>3 DEF D!ClientReply, D!data, DialInv, Flow
  <2>1. Answered
    BY <1>3 DEF D!ClientReply, DialInv, Flow, Through
  <2>2. PICK k \in 1 .. Len(s2c) : s2c' = SubSeq(s2c, k + 1, Len(s2c))
    BY <1>3 DEF D!ClientReply
  <2>3. PICK p \in D!Message : p = D!Packet("granted")
    BY Messages
  <2>4. s2c = <<p>> \o Numbered(0, tsent)
    BY <2>1, <2>3, Zenon DEF Answered
  <2>5. s2c[1] = D!Packet("granted") /\ s2c' = Numbered(k - 1, tsent) /\ k \in 1 .. tsent + 1
    <3>1. 1 \in 1 .. tsent + 1
      BY <1>a
    <3>2. Len(s2c) = tsent + 1 /\ s2c[1] = p
      BY <1>a, <2>4, <3>1, BehindTheAnswer, Zenon
    <3>3. k \in 1 .. tsent + 1
      BY <2>2, <3>2
    <3>4. SubSeq(s2c, k + 1, Len(s2c)) = Numbered(k - 1, tsent)
      BY <1>a, <2>4, <3>3, BehindTheAnswer, Zenon
    <3>5. QED
      BY <2>2, <2>3, <3>2, <3>3, <3>4, Zenon
  <2>6. app' = <<>> /\ tgot' = <<>> /\ c2s' = <<>> /\ tsent' = tsent /\ csent' = 0 /\ cpc' = "open"
    BY <1>3, <2>1, <2>5 DEF D!ClientReply, D!data, Answered
  <2>7. k - 1 \in 0 .. tsent /\ k - 1 \in Nat /\ k - 1 <= tsent
    BY <1>a, <2>5
  <2>8. app' \o s2c' = Numbered(k - 1, tsent')
    BY <1>a, <2>5, <2>6, <2>7, NumberedData, ConcatEmptySeq
  <2>9. tgot' \o c2s' = Numbered(0, csent')
    <3>1. Numbered(0, 0) = <<>>
      BY NoNumber, DialAssumption
    <3>2. <<>> \o <<>> = <<>>
      OBVIOUS
    <3>3. QED
      BY <2>6, <3>1, <3>2, Zenon
  <2>10. QED
    BY <2>6, <2>7, <2>8, <2>9 DEF Through
<1>4. CASE D!ClientEof
  BY <1>4 DEF D!ClientEof, D!data, DialInv, Handshake, Flow
<1>5. CASE D!ClientRead
  <2> SUFFICES ASSUME spc \in {"dial", "pipe"} PROVE Through'
    BY <1>5 DEF D!ClientRead, DialInv, Flow
  <2>1. Through /\ s2c # <<>> /\ app' = Append(app, s2c[1]) /\ s2c' = Tail(s2c)
    BY <1>5 DEF D!ClientRead, DialInv, Flow, Answered
  <2>2. app' \o s2c' = app \o s2c
    BY <1>a, <2>1, MoveHead
  <2>3. QED
    BY <1>5, <2>1, <2>2 DEF D!ClientRead, Through
<1>6. CASE D!ClientWrite
  <2> SUFFICES ASSUME spc \in {"dial", "pipe"} PROVE Through'
    BY <1>6 DEF D!ClientWrite, DialInv, Flow
  <2>1. Through /\ csent' = csent + 1 /\ csent < MaxData /\ c2s' = Append(c2s, D!Data(csent + 1))
    BY <1>6 DEF D!ClientWrite, DialInv, Flow, Answered
  <2>2. D!Data(csent + 1) \in D!Message
    BY <1>a, <2>1, Messages, DialAssumption
  <2>3. tgot \o c2s' = Append(tgot \o c2s, D!Data(csent + 1))
    BY <1>a, <2>1, <2>2, AppendBehind
  <2>4. Append(Numbered(0, csent), D!Data(csent + 1)) = Numbered(0, csent + 1)
    BY <1>a, <2>1, NextNumber
  <2>5. tgot \o c2s' = Numbered(0, csent')
    BY <2>1, <2>3, <2>4 DEF Through
  <2>6. QED
    BY <1>6, <2>1, <2>5 DEF D!ClientWrite, Through
<1>7. CASE D!Accept
  <2>1. spc' \in {"gone", "methods", "request"}
    BY <1>7 DEF D!Accept
  <2>2. QED
    BY <2>1 DEF Flow
<1>8. CASE D!Methods
  <2>1. spc' \in {"request", "password", "gone"}
    BY <1>8 DEF D!Methods
  <2>2. QED
    BY <2>1 DEF Flow
<1>9. CASE D!Password
  BY <1>9 DEF D!Password, Flow
<1>10. CASE D!Request
  <2>1. /\ spc = "request" /\ c2s # <<>> /\ c2s' = Tail(c2s) /\ s2c' = Append(s2c, D!Packet("granted"))
        /\ spc' = "dial" /\ cpc' = cpc /\ UNCHANGED <<csent, tsent, app, tgot>>
    BY <1>10, Zenon DEF D!Request, D!data
  <2>2. /\ cpc = "reply" /\ Len(c2s) = 1 /\ s2c = <<>>
        /\ csent = 0 /\ tsent = 0 /\ app = <<>> /\ tgot = <<>>
    BY <2>1 DEF DialInv, Handshake
  <2>3. c2s' = <<>>
    BY <1>a, <2>1, <2>2
  <2>4. s2c' = <<D!Packet("granted")>> \o Numbered(0, tsent')
    <3>1. D!Packet("granted") \in D!Message
      BY Messages
    <3>2. <<D!Packet("granted")>> \in Seq(D!Message)
      BY <3>1
    <3>3. <<D!Packet("granted")>> \o <<>> = <<D!Packet("granted")>>
      BY <3>2, ConcatEmptySeq
    <3>4. s2c' = <<D!Packet("granted")>>
      BY <1>a, <2>1, <2>2, Sent
    <3>5. Numbered(0, 0) = <<>> /\ tsent' = 0
      BY <1>a, <2>1, <2>2, NoNumber
    <3>6. QED
      BY <3>3, <3>4, <3>5
  <2>5. QED
    BY <2>1, <2>2, <2>3, <2>4 DEF Flow, Answered
<1>11. CASE D!DialTarget
  <2>1. spc' \in {"pipe", "gone"} /\ (spc' = "pipe" => UNCHANGED s2c) /\ spc = "dial"
        /\ UNCHANGED <<cpc, c2s, csent, tsent, app, tgot>>
    BY <1>11 DEF D!DialTarget, D!data
  <2>2. QED
    BY <2>1 DEF DialInv, Flow, Answered, Through
<1>12. CASE D!CopyBack
  <2>1. /\ tsent' = tsent + 1 /\ tsent < MaxData /\ s2c' = Append(s2c, D!Data(tsent + 1)) /\ spc = "pipe"
        /\ UNCHANGED <<cpc, spc, c2s, csent, app, tgot>>
    BY <1>12 DEF D!CopyBack
  <2>2. D!Data(tsent + 1) \in D!Message
    BY <1>a, <2>1, Messages, DialAssumption
  <2>3. CASE Answered
    <3>1. Append(Numbered(0, tsent), D!Data(tsent + 1)) = Numbered(0, tsent + 1)
      BY <1>a, <2>1, NextNumber
    <3>2. PICK p \in D!Message : p = D!Packet("granted")
      BY Messages
    <3>3. <<p>> \in Seq(D!Message) /\ Numbered(0, tsent) \in Seq(D!Message)
      BY <1>a, NumberedData
    <3>4. <<p>> \o Append(Numbered(0, tsent), D!Data(tsent + 1)) = Append(<<p>> \o Numbered(0, tsent), D!Data(tsent + 1))
      BY <2>2, <3>3, AppendBehind
    <3>5. s2c' = <<D!Packet("granted")>> \o Numbered(0, tsent')
      BY <2>1, <2>3, <3>1, <3>2, <3>4, Zenon DEF Answered
    <3>6. Answered'
      BY <2>1, <2>3, <3>5, Zenon DEF Answered
    <3>7. QED
      BY <2>1, <3>6 DEF Flow
  <2>4. CASE Through
    <3>1. PICK n \in 0 .. tsent : app \o s2c = Numbered(n, tsent)
      BY <2>4 DEF Through
    <3>2. Append(Numbered(n, tsent), D!Data(tsent + 1)) = Numbered(n, tsent + 1)
      BY <1>a, <2>1, NextNumber
    <3>3. app' \o s2c' = Numbered(n, tsent') /\ n \in 0 .. tsent'
      <4>1. app \o Append(s2c, D!Data(tsent + 1)) = Append(app \o s2c, D!Data(tsent + 1))
        BY <1>a, <2>2, AppendBehind
      <4>2. n \in 0 .. tsent'
        BY <1>a, <2>1
      <4>3. QED
        BY <2>1, <3>1, <3>2, <4>1, <4>2, Zenon
    <3>4. Through'
      BY <2>1, <2>4, <3>3 DEF Through
    <3>5. QED
      BY <2>1, <3>4 DEF Flow
  <2>5. QED
    BY <2>1, <2>3, <2>4 DEF DialInv, Flow
<1>13. CASE D!CopyForth
  <2>1. /\ c2s # <<>> /\ tgot' = Append(tgot, c2s[1]) /\ c2s' = Tail(c2s) /\ spc = "pipe"
        /\ UNCHANGED <<cpc, spc, s2c, csent, tsent, app>>
    BY <1>13 DEF D!CopyForth
  <2>2. Through
    BY <2>1 DEF DialInv, Flow, Answered
  <2>3. tgot' \o c2s' = tgot \o c2s
    BY <1>a, <2>1, MoveHead
  <2>4. QED
    BY <2>1, <2>2, <2>3 DEF Flow, Through
<1>14. CASE D!Break
  BY <1>14 DEF D!Break, Flow
<1>15. QED
  BY <1>1, <1>2, <1>3, <1>4, <1>5, <1>6, <1>7, <1>8, <1>9, <1>10, <1>11, <1>12, <1>13, <1>14
     DEF D!Next, D!Client, D!Server

\* A prefix, where the whole is known.
LEMMA PrefixOfConcat ==
    ASSUME NEW S, NEW a \in Seq(S), NEW b \in Seq(S)
    PROVE  D!IsPrefix(a, a \o b)
BY DEF D!IsPrefix

\* What the phases say of the tunnel.
LEMMA DialFaithful == DialInv => TunnelFaithful
<1> SUFFICES ASSUME DialInv, spc = "pipe" PROVE TunnelFaithful
  BY DEF TunnelFaithful, D!TunnelFaithful, D!ReadsTarget, D!WritesAll
<1>a. /\ c2s \in Seq(D!Message) /\ s2c \in Seq(D!Message) /\ app \in Seq(D!Message) /\ tgot \in Seq(D!Message)
      /\ csent \in Nat /\ tsent \in Nat /\ csent <= MaxData
  BY DialAssumption DEF DialInv, D!TypeOK
<1>1. \A n \in 0 .. tsent : Numbered(n, tsent) = [i \in 1 .. tsent - n |-> D!Data(n + i)]
  BY DEF Numbered
<1>2. Numbered(0, csent) = [i \in 1 .. csent |-> D!Data(i)]
  <2>1. csent - 0 = csent /\ \A i \in 1 .. csent : 0 + i = i
    BY <1>a
  <2>2. QED
    BY <2>1 DEF Numbered
<1>3. D!ReadsTarget
  BY <1>1 DEF DialInv, Flow, Answered, Through, D!ReadsTarget
<1>4. tgot \o c2s = Numbered(0, csent)
  <2>1. CASE Answered
    BY <1>a, <2>1, NoNumber, ConcatEmptySeq DEF Answered
  <2>2. CASE Through
    BY <2>2 DEF Through
  <2>3. QED
    BY <2>1, <2>2 DEF DialInv, Flow
<1>5. D!WritesAll
  <2>1. D!IsPrefix(tgot, tgot \o c2s)
    BY <1>a, PrefixOfConcat
  <2>2. QED
    BY <1>2, <1>4, <2>1 DEF D!WritesAll
<1>6. QED
  BY <1>3, <1>5 DEF TunnelFaithful, D!TunnelFaithful

\* The phases of a dial, in every state.
LEMMA DialInvariant == D!Spec => []DialInv
<1>1. DialInv /\ UNCHANGED D!vars => DialInv'
  <2> SUFFICES ASSUME DialInv, UNCHANGED D!vars PROVE DialInv'
    OBVIOUS
  <2>1. D!TypeOK'
    BY DEF DialInv, D!vars, D!TypeOK
  <2>2. Handshake'
    BY DEF DialInv, D!vars, Handshake
  <2>3. Flow'
    BY Zenon DEF DialInv, D!vars, Flow, Answered, Through
  <2>4. QED
    BY <2>1, <2>2, <2>3 DEF DialInv
<1>2. DialInv /\ [D!Next]_(D!vars) => DialInv'
  BY <1>1, DialTypeStep, HandshakeStep, FlowStep DEF DialInv
<1>3. QED
  BY <1>2, DialInit, PTL DEF D!Spec

\* The SOCKS and HTTP clients and servers: a tunnel carries what either side sent,
\* in order and without packets of the handshake, but for what the target sent
\* behind the answer before the client had read it (TunnelFaithful).
THEOREM TunnelFaithfulHolds == D!Spec => []TunnelFaithful
BY DialInvariant, DialFaithful, PTL

\* As long as the network works and the server has no Auth, what the client waits
\* for is on its way or the connection is open, and the first packet it reads is
\* the one it hopes for.
Hopeful ==
    ~fault /\ ~conf.auth =>
        /\ cpc # "failed" /\ spc # "password"
        /\ cpc \in {"start", "methods", "hello"} => open
        /\ cpc = "start" => s2c = <<>>
        /\ cpc = "methods" => s2c = <<>> \/ s2c = <<D!Packet("method0")>>
        /\ cpc = "reply" => /\ s2c # <<>> => s2c[1] = D!Packet("granted")
                            /\ s2c = <<>> => open

\* The first packet of an answer stays the first when something comes behind it.
LEMMA AnswerFirst ==
    ASSUME DialInv, Answered, NEW m \in D!Message
    PROVE  /\ s2c # <<>> /\ s2c[1] = D!Packet("granted")
           /\ Append(s2c, m) # <<>> /\ Append(s2c, m)[1] = D!Packet("granted")
<1>1. PICK p \in D!Message : p = D!Packet("granted")
  BY Messages
<1>2. tsent \in Nat /\ tsent <= MaxData /\ 1 \in 1 .. tsent + 1 /\ s2c \in Seq(D!Message)
  BY DialAssumption DEF DialInv, D!TypeOK
<1>3. s2c = <<p>> \o Numbered(0, tsent)
  BY <1>1, Zenon DEF Answered
<1>4. Len(s2c) = tsent + 1 /\ s2c[1] = p
  BY <1>2, <1>3, BehindTheAnswer, Zenon
<1>5. s2c # <<>> /\ Append(s2c, m) # <<>> /\ Append(s2c, m)[1] = s2c[1]
  BY <1>2, <1>4
<1>6. QED
  BY <1>1, <1>4, <1>5, Zenon

\* Every step keeps the client's hope.
LEMMA HopefulStep ==
    ASSUME DialInv, Hopeful, D!Next
    PROVE  Hopeful'
<1> SUFFICES ASSUME ~fault', ~conf'.auth PROVE Hopeful'
  BY DEF Hopeful
<1>a. conf' = conf /\ ~fault /\ ~conf.auth
  <2>1. D!Client => conf' = conf /\ (fault' \/ fault' = fault)
    BY Zenon DEF D!Client, D!ClientStart, D!ClientMethod, D!ClientReply, D!ClientEof, D!ClientRead, D!data
  <2>2. D!Server => conf' = conf /\ fault' = fault
    BY Zenon DEF D!Server, D!Accept, D!Methods, D!Password, D!Request, D!DialTarget, D!CopyForth, D!data
  <2>3. D!ClientWrite \/ D!CopyBack \/ D!Break => conf' = conf /\ (fault' \/ fault' = fault)
    BY Zenon DEF D!ClientWrite, D!CopyBack, D!Break
  <2>4. conf' = conf /\ fault' = fault
    BY <2>1, <2>2, <2>3, Zenon DEF D!Next
  <2>5. QED
    BY <2>4, Zenon
<1>b. /\ cpc # "failed" /\ spc # "password"
      /\ cpc \in {"start", "methods", "hello"} => open
      /\ cpc = "start" => s2c = <<>>
      /\ cpc = "methods" => s2c = <<>> \/ s2c = <<D!Packet("method0")>>
      /\ cpc = "reply" => /\ s2c # <<>> => s2c[1] = D!Packet("granted")
                          /\ s2c = <<>> => open
  BY <1>a DEF Hopeful
<1>c. s2c \in Seq(D!Message)
  BY DEF DialInv, D!TypeOK
<1>1. CASE D!ClientStart
  <2>1. cpc' \in {"methods", "hello", "reply"}
    BY <1>1 DEF D!ClientStart, D!Greeting, D!Five
  <2>2. QED
    BY <1>1, <1>b, <2>1 DEF D!ClientStart, Hopeful
<1>2. CASE D!ClientMethod
  <2>1. s2c = <<D!Packet("method0")>> /\ s2c[1] = D!Packet("method0") /\ Tail(s2c) = <<>>
    <3>1. s2c = <<D!Packet("method0")>>
      BY <1>2, <1>b DEF D!ClientMethod
    <3>2. PICK p \in D!Message : p = D!Packet("method0")
      BY Messages
    <3>3. <<p>>[1] = p /\ Tail(<<p>>) = <<>>
      OBVIOUS
    <3>4. QED
      BY <3>1, <3>2, <3>3
  <2>2. cpc' = "reply" /\ s2c' = <<>> /\ open /\ open' = open /\ spc' = spc
    BY <1>2, <1>b, <2>1 DEF D!ClientMethod
  <2>3. QED
    BY <1>b, <2>2 DEF Hopeful
<1>3. CASE D!ClientReply
  BY <1>3, <1>b DEF D!ClientReply, Hopeful
<1>4. CASE D!ClientEof
  BY <1>4, <1>b DEF D!ClientEof, Hopeful
<1>5. CASE D!ClientRead \/ D!ClientWrite
  BY <1>5, <1>b DEF D!ClientRead, D!ClientWrite, Hopeful
<1>6. CASE D!Accept
  <2>1. spc' \in {"gone", "methods", "request"}
    BY <1>6 DEF D!Accept
  <2>2. QED
    BY <1>6, <1>b, <2>1 DEF D!Accept, Hopeful
<1>7. CASE D!Methods
  <2>1. cpc = "methods" /\ s2c = <<>>
    BY <1>7 DEF D!Methods, DialInv, Handshake
  <2>2. s2c' = <<D!Packet("method0")>> /\ spc' = "request" /\ open' = open /\ cpc' = cpc
    BY <1>7, <1>a, <1>c, <2>1, Sent DEF D!Methods
  <2>3. QED
    BY <1>b, <2>1, <2>2 DEF Hopeful
<1>8. CASE D!Password
  BY <1>8, <1>b DEF D!Password
<1>9. CASE D!Request
  <2>1. cpc = "reply" /\ s2c = <<>>
    BY <1>9 DEF D!Request, DialInv, Handshake
  <2>2. s2c' = <<D!Packet("granted")>> /\ spc' = "dial" /\ cpc' = cpc
    BY <1>9, <1>c, <2>1, Sent DEF D!Request
  <2>3. PICK p \in D!Message : p = D!Packet("granted")
    BY Messages
  <2>4. <<p>> # <<>> /\ <<p>>[1] = p
    OBVIOUS
  <2>5. QED
    BY <2>1, <2>2, <2>3, <2>4 DEF Hopeful
<1>10. CASE D!DialTarget
  <2>1. /\ spc' \in {"pipe", "gone"} /\ cpc' = cpc
        /\ s2c' = s2c \/ s2c' = Append(s2c, D!Packet("rejected"))
    BY <1>10 DEF D!DialTarget
  <2>2. CASE Answered
    <3>1. cpc = "reply" /\ s2c' # <<>> /\ s2c'[1] = D!Packet("granted")
      BY <2>1, <2>2, AnswerFirst, Messages DEF Answered
    <3>2. QED
      BY <2>1, <3>1 DEF Hopeful
  <2>3. CASE Through
    BY <2>1, <2>3 DEF Through, Hopeful
  <2>4. QED
    BY <1>10, <2>2, <2>3 DEF D!DialTarget, DialInv, Flow
<1>11. CASE D!CopyBack
  <2>1. /\ spc' = "pipe" /\ cpc' = cpc /\ s2c' = Append(s2c, D!Data(tsent + 1))
        /\ D!Data(tsent + 1) \in D!Message
    <3>1. tsent + 1 \in 1 .. MaxData
      BY <1>11, DialAssumption DEF D!CopyBack, DialInv, D!TypeOK
    <3>2. QED
      BY <1>11, <3>1, Messages DEF D!CopyBack
  <2>2. CASE Answered
    <3>1. cpc = "reply" /\ s2c' # <<>> /\ s2c'[1] = D!Packet("granted")
      BY <2>1, <2>2, AnswerFirst DEF Answered
    <3>2. QED
      BY <2>1, <3>1 DEF Hopeful
  <2>3. CASE Through
    BY <2>1, <2>3 DEF Through, Hopeful
  <2>4. QED
    BY <1>11, <2>2, <2>3 DEF D!CopyBack, DialInv, Flow
<1>12. CASE D!CopyForth
  BY <1>12, <1>b DEF D!CopyForth, Hopeful
<1>13. CASE D!Break
  BY <1>13 DEF D!Break
<1>14. QED
  BY <1>1, <1>2, <1>3, <1>4, <1>5, <1>6, <1>7, <1>8, <1>9, <1>10, <1>11, <1>12, <1>13
     DEF D!Next, D!Client, D!Server

\* The SOCKS and HTTP clients and servers: a dial fails only when the network did or
\* when the server demands a password, never because of the target, which the server
\* dials after it has granted the request (FailsForAReason).
THEOREM FailsForAReasonHolds == D!Spec => []D!FailsForAReason
<1>1. D!Init => Hopeful
  BY DEF D!Init, Hopeful
<1>2. DialInv /\ Hopeful /\ [D!Next]_(D!vars) => Hopeful'
  <2>1. Hopeful /\ UNCHANGED D!vars => Hopeful'
    BY DEF Hopeful, D!vars
  <2>2. QED
    BY <2>1, HopefulStep
<1>3. Hopeful => D!FailsForAReason
  BY DEF Hopeful, D!FailsForAReason
<1>4. QED
  BY <1>1, <1>2, <1>3, DialInvariant, PTL DEF D!Spec
=============================================================================
