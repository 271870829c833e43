------------------------------ MODULE ProxyStore ------------------------------
(***************************************************************************)
(* The table ProxyPool of proxyPool/ProxyInfo.go, the goroutines that      *)
(* check candidates (main.go, ProxyHandle) and re-check suspects (CheckDB),*)
(* and the proxy lists of the hosts' pools that are loaded from the table  *)
(* (proxyPool/proxy.go LoadProxyList, Replace, GetConn; main.go            *)
(* ListHandle[1]).                                                         *)
(*                                                                         *)
(* A proxy is its address, an IP and a port.  The primary key of its row   *)
(* is IpInt<<8 | Port, in which a port of more than eight bits runs into   *)
(* the bits of the IP.  Of Ord only zero (suspect) and not zero (usable)   *)
(* are told apart; usable rows come in any order.  The table exists.       *)
(***************************************************************************)
EXTENDS Integers, Sequences, FiniteSets, SequencesExt

CONSTANTS
    Candidates,   \* proxy addresses [ip, port] that clients report
    Hosts,        \* game hosts that open a pool
    MaxPending,   \* bound: replaced proxies whose SaveDB has not run yet
    MaxReload     \* bound: Replaces of a host that are about to load its list

ASSUME BoundsAssumption == MaxPending \in Nat /\ MaxReload \in Nat
\* The values of a byte.
Byte == 256

ASSUME CandidatesAssumption ==
    \A p \in Candidates : p.ip \in Nat /\ p.port \in 0 .. Byte * Byte - 1

\* Mutant of KeyOf: a sum, which carries into the IP.
KeySum(p) == p.ip * Byte + p.port

\* Go's operator | on one, two, four and eight bits.
Or1(a, b) == IF a = 0 /\ b = 0 THEN 0 ELSE 1
Or2(a, b) == 2 * Or1(a \div 2, b \div 2) + Or1(a % 2, b % 2)
Or4(a, b) == 4 * Or2(a \div 4, b \div 4) + Or2(a % 4, b % 4)
Or8(a, b) == 16 * Or4(a \div 16, b \div 16) + Or4(a % 16, b % 16)

\* The key of a row: IpInt<<8 | Port.  The low byte of the port has a byte of its
\* own, the high byte meets the last byte of the IP.
KeyOf(p) ==
    LET ip == Byte * (p.ip \div Byte) + Or8(p.ip % Byte, p.port \div Byte)
    IN  Byte * ip + (p.port % Byte)

\* GetProxyList makes an address of a row: tmpPr.IpInt = tmpPr.IpInt >>8.
Loaded(k, row) == [ip |-> k \div Byte, port |-> row.port]

RowKeys   == {KeyOf(p) : p \in Candidates}
Addresses == Candidates \cup {[ip |-> KeyOf(p) \div Byte, port |-> p.port] : p \in Candidates}

VARIABLES
    table,      \* the rows: key -> [port, ord]
    reported,   \* history: the candidate addresses saved under each key
    alive,      \* the addresses at which a proxy answers now
    list,       \* CheckDB: the suspects still to be checked
    err,        \* CheckDB: err holds an error
    answer,     \* CheckDB: the outcome of pr.Check(), "none" between checks
    pools,      \* ProxyList of each host that has a pool
    reload,     \* per host, the Replaces that saw an empty list and have not loaded it
    emptied,    \* hosts whose list had a proxy and lost its last
    overlap,    \* history: hosts two of whose Replaces were about to load the list
    pending,    \* proxies replaced whose SaveDB has not run yet
    server      \* "up" or "panic"

storeVars == <<table, reported>>
checkVars == <<list, err, answer>>
poolVars  == <<pools, reload, emptied, overlap, pending>>
vars == <<storeVars, alive, checkVars, poolVars, server>>

Init ==
    /\ table = <<>>
    /\ reported = [k \in RowKeys |-> {}]
    /\ alive \in SUBSET Candidates
    /\ list = <<>> /\ err = FALSE /\ answer = "none"
    /\ pools = <<>>
    /\ reload = [h \in Hosts |-> 0] /\ emptied = {} /\ overlap = {} /\ pending = {}
    /\ server = "up"

-----------------------------------------------------------------------------
(* The table.                                                              *)

\* SaveDB: insert, or update the row that has the key.
Save(p, ord) ==
    LET key == KeyOf(p)
    IN  table' = [k \in DOMAIN table \cup {key} |->
                     IF k = key THEN [port |-> p.port, ord |-> ord] ELSE table[k]]

\* DeleteDB.
Delete(p) == table' = [k \in DOMAIN table \ {KeyOf(p)} |-> table[k]]

Rows(ord) == {k \in DOMAIN table : table[k].ord = ord}

\* GetProxyList: the suspects or the usable rows, in any order.
Entries(ord) == {Loaded(k, table[k]) : k \in Rows(ord)}
GetProxyList(ord) == SetToSeqs(Entries(ord))

\* A proxy starts or stops answering.
Flip(p) ==
    /\ alive' = (alive \ {p}) \cup ({p} \ alive)
    /\ UNCHANGED <<storeVars, checkVars, poolVars, server>>

\* ProxyHandle: a reported candidate that answers is saved as usable.
AddCandidate(p) ==
    /\ p \in alive
    /\ Save(p, 1)
    /\ reported' = [reported EXCEPT ![KeyOf(p)] = @ \cup {p}]
    /\ UNCHANGED <<alive, checkVars, poolVars, server>>

-----------------------------------------------------------------------------
(* CheckDB, once an hour.                                                  *)

CheckStart ==
    /\ list = <<>>
    /\ Rows(0) # {}
    /\ list' \in GetProxyList(0)
    /\ err' = FALSE
    /\ UNCHANGED <<storeVars, alive, answer, poolVars, server>>

\* pr.Check(): does the loaded address answer?
CheckOne ==
    /\ list # <<>>
    /\ answer = "none"
    /\ answer' = IF Head(list) \in alive THEN "ok" ELSE "fail"
    /\ UNCHANGED <<storeVars, alive, list, err, poolVars, server>>

\* Mutant of Verdict: the test the wrong way round.
VerdictInverted == IF ~err /\ answer = "ok" THEN "delete" ELSE "save"

\* err != pr.Check(): err is still the outcome of the previous row's database
\* statement, and two errors are never equal.
Verdict == IF ~err /\ answer = "ok" THEN "save" ELSE "delete"

CheckApply ==
    /\ answer # "none"
    /\ \/ /\ Verdict = "save"
          /\ Save(Head(list), 1)
       \/ /\ Verdict = "delete"
          /\ Delete(Head(list))
    /\ err' = FALSE
    /\ list' = Tail(list)
    /\ answer' = "none"
    /\ UNCHANGED <<reported, alive, poolVars, server>>

\* The statement fails in the database: nothing changes but err.
CheckApplyFails ==
    /\ answer # "none"
    /\ err' = TRUE
    /\ list' = Tail(list)
    /\ answer' = "none"
    /\ UNCHANGED <<storeVars, alive, poolVars, server>>

-----------------------------------------------------------------------------
(* The proxy lists of the pools.                                           *)

WithIP(S, p) == {q \in S : q.ip = p.ip}

\* Mutant of LoadProxyList: nothing is taken out of the loaded list.
LoadAll(used) == {used \o l : l \in GetProxyList(1)}

\* What is left of the loaded entries when for each proxy in use one with the
\* same IP was taken out, if one was left.  The code takes the first, which can be
\* any of them: the query leaves the order open.
Rests(used, fresh) ==
    LET uses(p) == Cardinality({i \in DOMAIN used : used[i].ip = p.ip})
        out(R, p) == Cardinality(WithIP(fresh \ R, p))
    IN  {R \in SUBSET fresh : \A p \in fresh :
            out(R, p) <= uses(p) /\ (out(R, p) < uses(p) => WithIP(R, p) = {})}

\* LoadProxyList: the proxies in use come first.
LoadProxyList(used) ==
    {used \o l : l \in UNION {SetToSeqs(R) : R \in Rests(used, Entries(1))}}

SetPool(h, l) == pools' = [g \in DOMAIN pools \cup {h} |-> IF g = h THEN l ELSE pools[g]]

\* p.ProxyList[0] of every pool, in the order the map is ranged over.
InUse == {[i \in DOMAIN order |-> Head(pools[order[i]])] : order \in SetToSeqs(DOMAIN pools)}

\* ListHandle[1]: the first connection of a host.  A pool with an empty list
\* makes ProxyList[0] panic.  A failed query leaves the new list empty.
NewPool(h) ==
    /\ h \notin DOMAIN pools
    /\ \/ /\ \E g \in DOMAIN pools : pools[g] = <<>>
          /\ server' = "panic"
          /\ UNCHANGED pools
       \/ /\ \A g \in DOMAIN pools : pools[g] # <<>>
          /\ \/ \E used \in InUse : \E l \in LoadProxyList(used) : SetPool(h, l)
             \/ SetPool(h, <<>>)
          /\ UNCHANGED server
    /\ UNCHANGED <<storeVars, alive, checkVars, reload, emptied, overlap, pending>>

\* A Replace is about to load the list.
Reloads(h) ==
    /\ reload[h] < MaxReload
    /\ reload' = [reload EXCEPT ![h] = @ + 1]
    /\ overlap' = IF reload[h] > 0 THEN overlap \cup {h} ELSE overlap

\* Replace drops the head of the list.  The last one is forgotten and the list
\* loaded again; otherwise the dropped proxy is saved, with Order 0, by a
\* goroutine of its own.
Replace(h) ==
    /\ h \in DOMAIN pools
    /\ pools[h] # <<>>
    /\ SetPool(h, Tail(pools[h]))
    /\ \/ /\ Len(pools[h]) = 1
          /\ Reloads(h)
          /\ emptied' = emptied \cup {h}
          /\ UNCHANGED pending
       \/ /\ Len(pools[h]) > 1
          /\ Cardinality(pending) < MaxPending
          /\ pending' = pending \cup {[host |-> h, proxy |-> Head(pools[h])]}
          /\ UNCHANGED <<reload, emptied, overlap>>
    /\ UNCHANGED <<storeVars, alive, checkVars, server>>

\* Replace of an empty list.
ReplaceEmpty(h) ==
    /\ h \in DOMAIN pools
    /\ pools[h] = <<>>
    /\ Reloads(h)
    /\ UNCHANGED <<storeVars, alive, checkVars, pools, emptied, pending, server>>

\* LoadProxyList(nil) appends to the list, which another Replace may have loaded
\* meanwhile; a failed query leaves it as it is, and so does the other's write
\* of the list in a race.
ReplaceReload(h) ==
    /\ reload[h] > 0
    /\ reload' = [reload EXCEPT ![h] = @ - 1]
    /\ \/ \E l \in LoadProxyList(<<>>) : SetPool(h, pools[h] \o l)
       \/ UNCHANGED pools
    /\ UNCHANGED <<storeVars, alive, checkVars, emptied, overlap, pending, server>>

\* The goroutine Replace started: tmp.SaveDB(), which may fail.
SaveReplaced(e) ==
    /\ e \in pending
    /\ pending' = pending \ {e}
    /\ Save(e.proxy, 0) \/ UNCHANGED table
    /\ UNCHANGED <<reported, alive, checkVars, pools, reload, emptied, overlap, server>>

\* GetConn: a relay saw a proxy in the list (len(self.ProxyList) is not 0),
\* Replace has dropped it since, and self.ProxyList[0] panics.  A GetConn that
\* dials or finds no proxy changes nothing here.
GetConn(h) ==
    /\ h \in emptied
    /\ pools[h] = <<>>
    /\ server' = "panic"
    /\ UNCHANGED <<storeVars, alive, checkVars, poolVars>>

-----------------------------------------------------------------------------
Pool(h) ==
    \/ NewPool(h) \/ Replace(h) \/ ReplaceEmpty(h) \/ ReplaceReload(h) \/ GetConn(h)

CheckDB == CheckStart \/ CheckOne \/ CheckApply \/ CheckApplyFails

Next ==
    /\ server = "up"
    /\ \/ \E p \in Candidates : Flip(p) \/ AddCandidate(p)
       \/ CheckDB
       \/ \E h \in Hosts : Pool(h)
       \/ \E e \in pending : SaveReplaced(e)

Spec == Init /\ [][Next]_vars

-----------------------------------------------------------------------------
(* Properties.                                                             *)

\* Every variable has its type.
TypeOK ==
    /\ DOMAIN table \subseteq RowKeys
    /\ \A k \in DOMAIN table : table[k] \in [port : Nat, ord : {0, 1}]
    /\ alive \subseteq Candidates
    /\ Range(list) \subseteq Addresses
    /\ err \in BOOLEAN
    /\ answer \in {"none", "ok", "fail"}
    /\ DOMAIN pools \subseteq Hosts
    /\ \A h \in DOMAIN pools : Range(pools[h]) \subseteq Addresses
    /\ reload \in [Hosts -> 0..MaxReload] /\ emptied \cup overlap \subseteq Hosts
    /\ pending \subseteq [host : Hosts, proxy : Addresses]
    /\ server \in {"up", "panic"}

\* Whatever happens to the address of a proxy on its way through the table,
\* every copy of it in a list finds the row it came from: marking a proxy
\* suspect, deleting it and saving it again act on one row and make no other.
RowKeepsItsKey ==
    /\ \A k \in DOMAIN table : KeyOf(Loaded(k, table[k])) = k
    /\ \A h \in DOMAIN pools : \A i \in DOMAIN pools[h] : KeyOf(pools[h][i]) \in RowKeys

\* CheckDB deletes a proxy that has just answered only when the database
\* failed on the row before it.
DeletedForAReason ==
    [][DOMAIN table' # DOMAIN table /\ DOMAIN table' \subseteq DOMAIN table
         => answer = "fail" \/ err]_vars

DistinctIPs(S) == \A x, y \in S : x.ip = y.ip => x = y

\* LoadProxyList makes no pool list a proxy twice, provided the pools use
\* different proxies and no two proxies share an IP.
NewListNoRepeats ==
    [][\A h \in DOMAIN pools' \ DOMAIN pools :
          /\ \A g, f \in DOMAIN pools : g # f => Head(pools[g]) # Head(pools[f])
          /\ DistinctIPs({Loaded(k, table[k]) : k \in DOMAIN table}
                         \cup {Head(pools[g]) : g \in DOMAIN pools})
          => IsInjective(pools'[h])]_vars

\* The only pool has a proxy twice only if two Replaces of its host overlapped:
\* both saw an empty list and both appended the table to it.
RepeatsForAReason ==
    \A h \in DOMAIN pools : DOMAIN pools = {h} /\ h \notin overlap => IsInjective(pools[h])

\* A proxy is loaded at the address under which it was saved: Init accepts
\* every port up to 65535, and GetProxyList takes the IP back out of the key.
LoadedAsReported ==
    \A k \in DOMAIN table : Loaded(k, table[k]) \in reported[k]

\* A pool without a proxy is a case the code handles ("Found Not Proxy"), it
\* does not end the server.
EmptyListRefused == server # "panic"

\* A list has a proxy twice only if two proxies share an IP, two pools use one
\* proxy, or two Replaces of the host overlapped.
ListsRepeatForAReason == NewListNoRepeats /\ []RepeatsForAReason
=============================================================================
