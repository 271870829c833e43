----------------------------- MODULE ProxyFile ------------------------------
(***************************************************************************)
(* The first use of the proxy database (proxyPool/ProxyInfo.go): SaveDB    *)
(* and GetProxyList look for the file before they take the lock, and       *)
(* CreateDB runs without it. SQLite makes the file when it is opened and   *)
(* the table when the statement commits; a second CREATE TABLE is an error *)
(* that ends the process (log.Fatal). The process may also be ended at any *)
(* step; it is started again on the file it left.                          *)
(***************************************************************************)
EXTENDS Naturals

CONSTANTS
    Workers,    \* goroutines
    Rows,       \* proxies they save
    None,
    MaxKills    \* bound: ends of the process from outside

VARIABLES
    pc,         \* "idle", "stat", "lock", "exec", "make", "create", "ok", "err"
    op,         \* the row a worker saves, or None for GetProxyList
    lock,       \* the worker that has Lo, or None
    file, table,    \* the file exists; the table exists
    rows,       \* the rows of the table
    up,         \* the process runs
    kills,
    stored,     \* history: rows whose SaveDB returned nil
    missed,     \* history: workers of this process that found no file
    torn        \* history: a kill hit CreateDB between file and table

vars == <<pc, op, lock, file, table, rows, up, kills, stored, missed, torn>>

Init ==
    /\ pc = [w \in Workers |-> "idle"] /\ op = [w \in Workers |-> None] /\ lock = None
    /\ file = FALSE /\ table = FALSE /\ rows = {} /\ up = TRUE /\ kills = 0
    /\ stored = {} /\ missed = {} /\ torn = FALSE

Go(w, from, to) == up /\ pc[w] = from /\ pc' = [pc EXCEPT ![w] = to]

-----------------------------------------------------------------------------
\* SaveDB of a row, or GetProxyList.
Call(w, r) ==
    /\ Go(w, "idle", "stat")
    /\ op' = [op EXCEPT ![w] = r]
    /\ UNCHANGED <<lock, file, table, rows, up, kills, stored, missed, torn>>

\* os.Stat.
Stat(w) ==
    /\ Go(w, "stat", IF file THEN "lock" ELSE "make")
    /\ missed' = IF file THEN missed ELSE missed \cup {w}
    /\ UNCHANGED <<op, lock, file, table, rows, up, kills, stored, torn>>

\* CreateDB: SQLite opens the file.
Make(w) ==
    /\ Go(w, "make", "create")
    /\ file' = TRUE
    /\ UNCHANGED <<op, lock, table, rows, up, kills, stored, missed, torn>>

\* Mutant of Create: the table is made anew.
CreateAnew(w) ==
    /\ Go(w, "create", "err")
    /\ table' = TRUE /\ rows' = {}
    /\ UNCHANGED <<op, lock, file, up, kills, stored, missed, torn>>

\* CREATE TABLE, which fails when the table is there. The caller returns the
\* error of os.Stat: what it wanted to save is not saved.
Create(w) ==
    /\ \/ ~table /\ Go(w, "create", "err") /\ table' = TRUE /\ UNCHANGED up
       \/ table /\ Go(w, "create", "err") /\ up' = FALSE /\ UNCHANGED table
    /\ UNCHANGED <<op, lock, file, rows, kills, stored, missed, torn>>

\* Lo.Lock.
Lock(w) ==
    /\ Go(w, "lock", "exec") /\ lock = None
    /\ lock' = w
    /\ UNCHANGED <<op, file, table, rows, up, kills, stored, missed, torn>>

\* Mutant of Exec: Lo.Unlock is left out when the statement fails.
ExecKeepsLock(w) ==
    /\ \/ /\ table /\ Go(w, "exec", "ok") /\ lock' = None
          /\ rows' = IF op[w] = None THEN rows ELSE rows \cup {op[w]}
       \/ ~table /\ Go(w, "exec", "err") /\ UNCHANGED <<lock, rows>>
    /\ stored' = IF table /\ op[w] # None THEN stored \cup {op[w]} ELSE stored
    /\ UNCHANGED <<op, file, table, up, kills, missed, torn>>

\* The statements and Lo.Unlock; without the table both fail.
Exec(w) ==
    /\ \/ /\ table /\ Go(w, "exec", "ok")
          /\ rows' = IF op[w] = None THEN rows ELSE rows \cup {op[w]}
       \/ ~table /\ Go(w, "exec", "err") /\ UNCHANGED rows
    /\ lock' = None
    /\ stored' = IF table /\ op[w] # None THEN stored \cup {op[w]} ELSE stored
    /\ UNCHANGED <<op, file, table, up, kills, missed, torn>>

Return(w) ==
    /\ up /\ pc[w] \in {"ok", "err"}
    /\ pc' = [pc EXCEPT ![w] = "idle"]
    /\ UNCHANGED <<op, lock, file, table, rows, up, kills, stored, missed, torn>>

-----------------------------------------------------------------------------
\* The process is ended from outside.
Kill ==
    /\ up /\ kills < MaxKills
    /\ up' = FALSE /\ kills' = kills + 1
    /\ torn' = (torn \/ (file /\ ~table))
    /\ UNCHANGED <<pc, op, lock, file, table, rows, stored, missed>>

\* It is started again.
Start ==
    /\ ~up
    /\ up' = TRUE /\ pc' = [w \in Workers |-> "idle"] /\ lock' = None /\ missed' = {}
    /\ UNCHANGED <<op, file, table, rows, kills, stored, torn>>

Step(w) == Stat(w) \/ Make(w) \/ Create(w) \/ Lock(w) \/ Exec(w) \/ Return(w)

Next ==
    \/ \E w \in Workers : Step(w) \/ \E r \in Rows \cup {None} : Call(w, r)
    \/ Kill \/ Start

Spec == Init /\ [][Next]_vars

\* Every goroutine runs, and a mutex waiter is served at last.
Fairness == \A w \in Workers : WF_vars(Step(w)) /\ SF_vars(Lock(w))

FairSpec == Spec /\ Fairness

-----------------------------------------------------------------------------
\* The file, the lock and the goroutines; no table is made, or is,
\* without a file.
TypeOK ==
    /\ file \in BOOLEAN /\ table \in BOOLEAN /\ up \in BOOLEAN /\ torn \in BOOLEAN /\ kills \in Nat
    /\ pc \in [Workers -> {"idle", "stat", "lock", "exec", "make", "create", "ok", "err"}]
    /\ op \in [Workers -> Rows \cup {None}] /\ lock \in Workers \cup {None}
    /\ rows \subseteq Rows /\ stored \subseteq Rows /\ missed \subseteq Workers
    /\ table \/ (\E w \in Workers : pc[w] = "create") => file

\* A SaveDB that returned nil has its row in the table, whoever else was
\* creating the table meanwhile, and after every restart.
StoredStays == stored \subseteq rows

\* The process ends by itself only if two of its goroutines found no file.
FatalForAReason == ~up /\ kills = 0 => \E u, v \in missed : u # v

\* A file without a table, which makes every later call fail for ever, is left
\* only by a kill between the two; otherwise someone is about to make the table.
TableComes ==
    file /\ ~table => torn \/ \E w \in Workers : pc[w] = "create"

\* Every call returns, unless the process ends.
SaveReturns ==
    \A w \in Workers : pc[w] = "stat" ~> pc[w] = "idle" \/ ~up

\* A row that a caller was told is saved stays saved; the database becomes
\* useless, or ends the process, only when two goroutines both found no file or
\* when a kill hit its creation.
FileSound == StoredStays /\ FatalForAReason /\ TableComes
=============================================================================
