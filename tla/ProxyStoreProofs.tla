-------------------------- MODULE ProxyStoreProofs --------------------------
(***************************************************************************)
(* Proofs about the proxy table and the lists loaded from it (ProxyStore), *)
(* for any candidates, any hosts and any bounds.                           *)
(***************************************************************************)
EXTENDS ProxyStore, FiniteSetTheorems, SequenceTheorems, TLAPS

-----------------------------------------------------------------------------
\* A row has the key and the port of one candidate, however often it was saved,
\* loaded at another address, and saved again.
Row(k) ==
    /\ table[k].ord \in {0, 1}
    /\ \E c \in Candidates : k = KeyOf(c) /\ table[k].port = c.port

\* What is loaded are addresses of candidates, as reported or as the table
\* makes them; the goroutines hand on nothing else.
StoreTypes ==
    /\ IsFiniteSet(DOMAIN table) /\ IsFiniteSet(DOMAIN pools) /\ DOMAIN pools \subseteq Hosts
    /\ \A k \in DOMAIN table : Row(k)
    /\ list \in Seq(Addresses) /\ answer \in {"none", "ok", "fail"}
    /\ answer # "none" => list # <<>>
    /\ \A h \in DOMAIN pools : pools[h] \in Seq(Addresses)
    /\ \A e \in pending : e.proxy \in Addresses
    /\ reload \in [Hosts -> Nat]

\* A host whose list is about to be loaded by one Replace has an empty list.
Loading ==
    \A h \in Hosts : reload[h] > 0 =>
        /\ h \in DOMAIN pools
        /\ h \notin overlap => pools[h] = <<>> /\ reload[h] = 1

StoreInv == StoreTypes /\ Loading /\ RepeatsForAReason

-----------------------------------------------------------------------------
\* To put bits on top of others that are there already changes nothing.
LEMMA Or1Again == \A a, b \in 0 .. 1 : Or1(a, b) \in 0 .. 1 /\ Or1(Or1(a, b), b) = Or1(a, b)
  BY DEF Or1

LEMMA Or2Again == \A a, b \in 0 .. 3 : Or2(a, b) \in 0 .. 3 /\ Or2(Or2(a, b), b) = Or2(a, b)
<1> SUFFICES ASSUME NEW a \in 0 .. 3, NEW b \in 0 .. 3
             PROVE  Or2(a, b) \in 0 .. 3 /\ Or2(Or2(a, b), b) = Or2(a, b)
  OBVIOUS
<1> DEFINE x == Or1(a \div 2, b \div 2)  y == Or1(a % 2, b % 2)
<1>1. a \div 2 \in 0 .. 1 /\ a % 2 \in 0 .. 1 /\ b \div 2 \in 0 .. 1 /\ b % 2 \in 0 .. 1
  OBVIOUS
<1>2. x \in 0 .. 1 /\ y \in 0 .. 1 /\ Or1(x, b \div 2) = x /\ Or1(y, b % 2) = y
  BY <1>1, Or1Again
<1>3. Or2(a, b) = 2 * x + y
  BY DEF Or2
<1>4. Or2(2 * x + y, b) = 2 * Or1((2 * x + y) \div 2, b \div 2) + Or1((2 * x + y) % 2, b % 2)
  BY DEF Or2
<1> HIDE DEF x, y
<1>5. (2 * x + y) \div 2 = x /\ (2 * x + y) % 2 = y /\ 2 * x + y \in 0 .. 3
  BY <1>2
<1>6. QED
  BY <1>2, <1>3, <1>4, <1>5

LEMMA Or4Again == \A a, b \in 0 .. 15 : Or4(a, b) \in 0 .. 15 /\ Or4(Or4(a, b), b) = Or4(a, b)
<1> SUFFICES ASSUME NEW a \in 0 .. 15, NEW b \in 0 .. 15
             PROVE  Or4(a, b) \in 0 .. 15 /\ Or4(Or4(a, b), b) = Or4(a, b)
  OBVIOUS
<1> DEFINE x == Or2(a \div 4, b \div 4)  y == Or2(a % 4, b % 4)
<1>1. a \div 4 \in 0 .. 3 /\ a % 4 \in 0 .. 3 /\ b \div 4 \in 0 .. 3 /\ b % 4 \in 0 .. 3
  OBVIOUS
<1>2. x \in 0 .. 3 /\ y \in 0 .. 3 /\ Or2(x, b \div 4) = x /\ Or2(y, b % 4) = y
  BY <1>1, Or2Again
<1>3. Or4(a, b) = 4 * x + y
  BY DEF Or4
<1>4. Or4(4 * x + y, b) = 4 * Or2((4 * x + y) \div 4, b \div 4) + Or2((4 * x + y) % 4, b % 4)
  BY DEF Or4
<1> HIDE DEF x, y
<1>5. (4 * x + y) \div 4 = x /\ (4 * x + y) % 4 = y /\ 4 * x + y \in 0 .. 15
  BY <1>2
<1>6. QED
  BY <1>2, <1>3, <1>4, <1>5

LEMMA Or8Again == \A a, b \in 0 .. Byte - 1 : Or8(a, b) \in 0 .. Byte - 1 /\ Or8(Or8(a, b), b) = Or8(a, b)
<1>0. Byte - 1 = 255
  BY DEF Byte
<1> SUFFICES ASSUME NEW a \in 0 .. 255, NEW b \in 0 .. 255
             PROVE  Or8(a, b) \in 0 .. 255 /\ Or8(Or8(a, b), b) = Or8(a, b)
  BY <1>0, Zenon
<1> DEFINE x == Or4(a \div 16, b \div 16)  y == Or4(a % 16, b % 16)
<1>1. a \div 16 \in 0 .. 15 /\ a % 16 \in 0 .. 15 /\ b \div 16 \in 0 .. 15 /\ b % 16 \in 0 .. 15
  OBVIOUS
<1>2. x \in 0 .. 15 /\ y \in 0 .. 15 /\ Or4(x, b \div 16) = x /\ Or4(y, b % 16) = y
  BY <1>1, Or4Again
<1>3. Or8(a, b) = 16 * x + y
  BY DEF Or8
<1>4. Or8(16 * x + y, b) = 16 * Or4((16 * x + y) \div 16, b \div 16) + Or4((16 * x + y) % 16, b % 16)
  BY DEF Or8
<1> HIDE DEF x, y
<1>5. (16 * x + y) \div 16 = x /\ (16 * x + y) % 16 = y /\ 16 * x + y \in 0 .. 255
  BY <1>2
<1>6. QED
  BY <1>2, <1>3, <1>4, <1>5

\* The bytes of an IP, of a port and of a key.
LEMMA Bytes ==
    /\ \A n \in Nat : n \div Byte \in Nat /\ n % Byte \in 0 .. Byte - 1
    /\ \A n \in 0 .. Byte * Byte - 1 : n \div Byte \in 0 .. Byte - 1 /\ n % Byte \in 0 .. Byte - 1
    /\ \A q \in Nat, r \in 0 .. Byte - 1 : /\ Byte * q + r \in Nat
                                           /\ (Byte * q + r) \div Byte = q /\ (Byte * q + r) % Byte = r
<1>1. \A n \in Nat : n \div Byte \in Nat /\ n % Byte \in 0 .. Byte - 1
  BY SMT DEF Byte
<1>2. ASSUME NEW n \in 0 .. Byte * Byte - 1
      PROVE  n \div Byte \in 0 .. Byte - 1 /\ n % Byte \in 0 .. Byte - 1
  <2>1. n = 256 * (n \div 256) + (n % 256) /\ n \div 256 \in Nat /\ n % 256 \in 0 .. 255
    BY SMT DEF Byte
  <2>2. n < 256 * 256
    BY SMT DEF Byte
  <2>3. n \div 256 \in 0 .. 255
    BY <2>1, <2>2, SMT
  <2>4. QED
    BY <2>1, <2>3, SMT DEF Byte
<1>3. \A q \in Nat, r \in 0 .. Byte - 1 : /\ Byte * q + r \in Nat
                                          /\ (Byte * q + r) \div Byte = q /\ (Byte * q + r) % Byte = r
  BY SMT DEF Byte
<1>4. QED
  BY <1>1, <1>2, <1>3, Zenon

\* An address that is made of a key and saved again has that key.
LEMMA KeyAgain ==
    ASSUME NEW p, p.ip \in Nat, p.port \in 0 .. Byte * Byte - 1
    PROVE  KeyOf([ip |-> KeyOf(p) \div Byte, port |-> p.port]) = KeyOf(p)
<1> DEFINE a == [ip |-> KeyOf(p) \div Byte, port |-> p.port]
<1>1. a.ip = KeyOf(p) \div Byte /\ a.port = p.port
  OBVIOUS
<1> HIDE DEF a
<1>2. PICK q, m, hi, lo, o : /\ q = p.ip \div Byte /\ m = p.ip % Byte
                             /\ hi = p.port \div Byte /\ lo = p.port % Byte /\ o = Or8(m, hi)
  OBVIOUS
<1>3. KeyOf(p) = Byte * (Byte * q + o) + lo
  BY <1>2 DEF KeyOf
<1>4. KeyOf(a) = Byte * (Byte * (a.ip \div Byte) + Or8(a.ip % Byte, hi)) + lo
  BY <1>1, <1>2 DEF KeyOf
<1>5. q \in Nat /\ m \in 0 .. Byte - 1 /\ hi \in 0 .. Byte - 1 /\ lo \in 0 .. Byte - 1
  BY <1>2, Bytes, Zenon
<1>6. o \in 0 .. Byte - 1 /\ Or8(o, hi) = o
  BY <1>2, <1>5, Or8Again, Zenon
<1>7. /\ (Byte * (Byte * q + o) + lo) \div Byte = Byte * q + o
      /\ (Byte * q + o) \div Byte = q /\ (Byte * q + o) % Byte = o
  BY <1>5, <1>6, Bytes, Zenon
<1>8. a.ip = Byte * q + o
  BY <1>1, <1>3, <1>7, Zenon
<1>9. KeyOf(a) = KeyOf(p)
  BY <1>3, <1>4, <1>6, <1>7, <1>8, Zenon
<1>10. QED
  BY <1>9 DEF a

\* Every address has the key and the port of a candidate.
LEMMA AddressKey ==
    ASSUME NEW p \in Addresses
    PROVE  \E c \in Candidates : KeyOf(p) = KeyOf(c) /\ p.port = c.port
<1>1. CASE p \in Candidates
  BY <1>1
<1>2. ASSUME NEW c \in Candidates, p = [ip |-> KeyOf(c) \div Byte, port |-> c.port]
      PROVE  KeyOf(p) = KeyOf(c) /\ p.port = c.port
  BY <1>2, KeyAgain, CandidatesAssumption
<1>3. QED
  BY <1>1, <1>2 DEF Addresses

-----------------------------------------------------------------------------
\* What is loaded of the table.
LEMMA EntriesLoaded ==
    ASSUME StoreTypes, NEW ord
    PROVE  Entries(ord) \subseteq Addresses /\ IsFiniteSet(Entries(ord))
<1>1. \A k \in DOMAIN table : Loaded(k, table[k]) \in Addresses
  BY DEF StoreTypes, Row, Loaded, Addresses
<1>2. Entries(ord) \subseteq Addresses
  BY <1>1 DEF Entries, Rows
<1>3. IsFiniteSet(Rows(ord))
  <2>1. Rows(ord) \in SUBSET DOMAIN table
    BY DEF Rows
  <2>2. QED
    BY <2>1, FS_Subset DEF StoreTypes
<1>4. IsFiniteSet(Entries(ord))
  <2> DEFINE f == [k \in Rows(ord) |-> Loaded(k, table[k])]
  <2>1. f \in [Rows(ord) -> Entries(ord)]
    BY DEF Entries
  <2>2. \A e \in Entries(ord) : \E k \in Rows(ord) : f[k] = e
    BY DEF Entries
  <2>3. f \in Surjection(Rows(ord), Entries(ord))
    BY <2>1, <2>2 DEF Surjection
  <2>4. QED
    BY <1>3, <2>3, FS_Surjection
<1>5. QED
  BY <1>2, <1>4

\* The orderings of a set.
LEMMA Ordering ==
    ASSUME NEW S, IsFiniteSet(S), NEW l \in SetToSeqs(S)
    PROVE  l \in Seq(S) /\ IsInjective(l)
<1>1. Cardinality(S) \in Nat
  BY FS_CardinalityType
<1>2. l \in [1 .. Cardinality(S) -> S]
      /\ \A i, j \in 1 .. Cardinality(S) : i # j => l[i] # l[j]
  BY DEF SetToSeqs
<1>3. QED
  BY <1>1, <1>2 DEF IsInjective

\* The heads of the lists of all pools.
LEMMA UsedHeads ==
    ASSUME StoreTypes, \A g \in DOMAIN pools : pools[g] # <<>>, NEW used \in InUse
    PROVE  /\ used \in Seq(Addresses)
           /\ \A i \in DOMAIN used : \E g \in DOMAIN pools : used[i] = Head(pools[g])
           /\ (\A g, f \in DOMAIN pools : g # f => Head(pools[g]) # Head(pools[f])) => IsInjective(used)
           /\ DOMAIN pools = {} => used = <<>>
<1>1. PICK order \in SetToSeqs(DOMAIN pools) : used = [i \in DOMAIN order |-> Head(pools[order[i]])]
  BY DEF InUse
<1>2. order \in Seq(DOMAIN pools) /\ IsInjective(order)
  BY Ordering DEF StoreTypes
<1>3. \A g \in DOMAIN pools : Head(pools[g]) \in Addresses
  BY HeadTailProperties DEF StoreTypes
<1>4. \A i \in DOMAIN order : order[i] \in DOMAIN pools
  BY <1>2
<1>5. DOMAIN order = 1 .. Len(order) /\ Len(order) \in Nat
  BY <1>2
<1>6. used \in Seq(Addresses)
  BY <1>1, <1>3, <1>4, <1>5
<1>7. \A i \in DOMAIN used : \E g \in DOMAIN pools : used[i] = Head(pools[g])
  BY <1>1, <1>4
<1>8. (\A g, f \in DOMAIN pools : g # f => Head(pools[g]) # Head(pools[f])) => IsInjective(used)
  BY <1>1, <1>2, <1>4 DEF IsInjective
<1>9. DOMAIN pools = {} => used = <<>>
  <2> SUFFICES ASSUME DOMAIN pools = {} PROVE used = <<>>
    OBVIOUS
  <2>1. DOMAIN order = {}
    BY <1>4
  <2>2. DOMAIN used = {} /\ Len(used) = 0
    BY <1>1, <1>5, <1>6, <2>1
  <2>3. QED
    BY <1>6, <2>2
<1>10. QED
  BY <1>6, <1>7, <1>8, <1>9

\* A loaded list begins with the proxies in use; the others come in any order.
LEMMA LoadedList ==
    ASSUME StoreTypes, NEW used \in Seq(Addresses), NEW l \in LoadProxyList(used)
    PROVE  \E R \in Rests(used, Entries(1)), rest \in Seq(Addresses) :
              l = used \o rest /\ rest \in Seq(R) /\ IsInjective(rest) /\ l \in Seq(Addresses)
<1>1. PICK R \in Rests(used, Entries(1)) : \E rest \in SetToSeqs(R) : l = used \o rest
  BY DEF LoadProxyList
<1>2. PICK rest \in SetToSeqs(R) : l = used \o rest
  BY <1>1
<1>3. R \in SUBSET Entries(1)
  BY DEF Rests
<1>4. IsFiniteSet(R) /\ R \subseteq Addresses
  BY <1>3, EntriesLoaded, FS_Subset
<1>5. rest \in Seq(R) /\ IsInjective(rest)
  BY <1>4, Ordering
<1>6. rest \in Seq(Addresses)
  BY <1>4, <1>5
<1>7. l \in Seq(Addresses)
  BY <1>2, <1>6, ConcatProperties
<1>8. QED
  BY <1>2, <1>5, <1>6, <1>7

-----------------------------------------------------------------------------
\* SaveDB adds or replaces the row of a candidate, DeleteDB takes one out.
LEMMA SaveRow ==
    ASSUME StoreTypes, NEW p \in Addresses, NEW ord \in {0, 1}, Save(p, ord)
    PROVE  /\ DOMAIN table' = DOMAIN table \cup {KeyOf(p)} /\ IsFiniteSet(DOMAIN table')
           /\ \A k \in DOMAIN table' : Row(k)'
<1>1. DOMAIN table' = DOMAIN table \cup {KeyOf(p)}
      /\ \A k \in DOMAIN table' : table'[k] = IF k = KeyOf(p) THEN [port |-> p.port, ord |-> ord] ELSE table[k]
  BY DEF Save
<1>2. IsFiniteSet(DOMAIN table')
  BY <1>1, FS_AddElement DEF StoreTypes
<1>3. ASSUME NEW k \in DOMAIN table' PROVE Row(k)'
  <2>1. CASE k = KeyOf(p)
    <3>1. table'[k].port = p.port /\ table'[k].ord = ord
      BY <1>1, <2>1
    <3>2. PICK c \in Candidates : KeyOf(p) = KeyOf(c) /\ p.port = c.port
      BY AddressKey
    <3>3. QED
      BY <2>1, <3>1, <3>2 DEF Row
  <2>2. CASE k # KeyOf(p)
    BY <1>1, <2>2 DEF StoreTypes, Row
  <2>3. QED
    BY <2>1, <2>2
<1>4. QED
  BY <1>1, <1>2, <1>3

LEMMA DeleteRow ==
    ASSUME StoreTypes, NEW p, Delete(p)
    PROVE  IsFiniteSet(DOMAIN table') /\ \A k \in DOMAIN table' : Row(k)'
<1>1. DOMAIN table' = DOMAIN table \ {KeyOf(p)} /\ \A k \in DOMAIN table' : table'[k] = table[k]
  BY DEF Delete
<1>2. IsFiniteSet(DOMAIN table')
  BY <1>1, FS_RemoveElement DEF StoreTypes
<1>3. QED
  BY <1>1, <1>2 DEF StoreTypes, Row

\* The lists that are not touched.
LEMMA SamePools ==
    ASSUME UNCHANGED poolVars, Loading, RepeatsForAReason
    PROVE  Loading' /\ RepeatsForAReason'
BY DEF poolVars, Loading, RepeatsForAReason

\* Candidates and CheckDB.
LEMMA FlipStep ==
    ASSUME StoreInv, NEW p \in Candidates, Flip(p)
    PROVE  StoreInv'
<1>1. StoreTypes /\ Loading /\ RepeatsForAReason
  BY DEF StoreInv
<1>2. UNCHANGED <<storeVars, checkVars, poolVars>>
  BY DEF Flip
<1>3. StoreTypes'
  BY <1>1, <1>2 DEF StoreTypes, Row, storeVars, checkVars, poolVars
<1>4. QED
  BY <1>1, <1>2, <1>3, SamePools DEF StoreInv

LEMMA AddCandidateStep ==
    ASSUME StoreInv, NEW p \in Candidates, AddCandidate(p)
    PROVE  StoreInv'
<1>1. StoreTypes /\ Loading /\ RepeatsForAReason
  BY DEF StoreInv
<1>2. Save(p, 1) /\ UNCHANGED <<checkVars, poolVars>> /\ p \in Addresses
  BY DEF AddCandidate, Addresses
<1>3. IsFiniteSet(DOMAIN table') /\ \A k \in DOMAIN table' : Row(k)'
  BY <1>1, <1>2, SaveRow
<1>4. StoreTypes'
  BY <1>1, <1>2, <1>3 DEF StoreTypes, checkVars, poolVars
<1>5. QED
  BY <1>1, <1>2, <1>4, SamePools DEF StoreInv

LEMMA CheckDBStep ==
    ASSUME StoreInv, CheckDB
    PROVE  StoreInv'
<1>1. StoreTypes /\ Loading /\ RepeatsForAReason
  BY DEF StoreInv
<1>2. UNCHANGED poolVars
  BY DEF CheckDB, CheckStart, CheckOne, CheckApply, CheckApplyFails
<1>3. list # <<>> => Head(list) \in Addresses /\ Tail(list) \in Seq(Addresses)
  BY <1>1, HeadTailProperties DEF StoreTypes
<1>4. CASE CheckStart
  <2>1. UNCHANGED <<storeVars, answer>> /\ list' \in SetToSeqs(Entries(0)) /\ answer = "none"
    BY <1>1, <1>4 DEF CheckStart, GetProxyList, StoreTypes
  <2>2. Entries(0) \subseteq Addresses /\ IsFiniteSet(Entries(0))
    BY <1>1, EntriesLoaded
  <2>3. list' \in Seq(Entries(0))
    BY <2>1, <2>2, Ordering
  <2>4. list' \in Seq(Addresses)
    BY <2>2, <2>3
  <2>5. QED
    BY <1>1, <1>2, <2>1, <2>4, SamePools DEF StoreInv, StoreTypes, Row, storeVars, poolVars
<1>5. CASE CheckOne
  <2>1. UNCHANGED <<storeVars, list>> /\ answer' \in {"none", "ok", "fail"} /\ list # <<>>
    BY <1>5 DEF CheckOne
  <2>2. QED
    BY <1>1, <1>2, <2>1, SamePools DEF StoreInv, StoreTypes, Row, storeVars, poolVars
<1>6. CASE CheckApply
  <2>1. answer # "none" /\ list # <<>> /\ list' = Tail(list) /\ answer' = "none"
        /\ (Save(Head(list), 1) \/ Delete(Head(list)))
    BY <1>1, <1>6 DEF CheckApply, StoreTypes
  <2>2. IsFiniteSet(DOMAIN table') /\ \A k \in DOMAIN table' : Row(k)'
    BY <1>1, <1>3, <2>1, SaveRow, DeleteRow
  <2>3. QED
    BY <1>1, <1>2, <1>3, <2>1, <2>2, SamePools DEF StoreInv, StoreTypes, poolVars
<1>7. CASE CheckApplyFails
  <2>1. answer # "none" /\ list # <<>> /\ list' = Tail(list) /\ answer' = "none" /\ UNCHANGED storeVars
    BY <1>1, <1>7 DEF CheckApplyFails, StoreTypes
  <2>2. QED
    BY <1>1, <1>2, <1>3, <2>1, SamePools DEF StoreInv, StoreTypes, Row, storeVars, poolVars
<1>8. QED
  BY <1>4, <1>5, <1>6, <1>7 DEF CheckDB

\* The goroutine of a Replace saves the proxy that was dropped.
LEMMA SaveReplacedStep ==
    ASSUME StoreInv, NEW e \in pending, SaveReplaced(e)
    PROVE  StoreInv'
<1>1. StoreTypes /\ Loading /\ RepeatsForAReason
  BY DEF StoreInv
<1>2. /\ UNCHANGED <<checkVars, pools, reload, overlap>> /\ pending' = pending \ {e}
      /\ Save(e.proxy, 0) \/ UNCHANGED table
  BY DEF SaveReplaced
<1>3. IsFiniteSet(DOMAIN table') /\ \A k \in DOMAIN table' : Row(k)'
  <2>1. CASE Save(e.proxy, 0)
    <3>1. e.proxy \in Addresses
      BY <1>1 DEF StoreTypes
    <3>2. QED
      BY <1>1, <2>1, <3>1, SaveRow
  <2>2. CASE UNCHANGED table
    BY <1>1, <2>2 DEF StoreTypes, Row
  <2>3. QED
    BY <1>2, <2>1, <2>2
<1>4. StoreTypes'
  BY <1>1, <1>2, <1>3 DEF StoreTypes, checkVars
<1>5. QED
  BY <1>1, <1>2, <1>4 DEF StoreInv, Loading, RepeatsForAReason

-----------------------------------------------------------------------------
\* One list is replaced.
LEMMA PoolsSet ==
    ASSUME NEW h \in Hosts, NEW l \in Seq(Addresses), SetPool(h, l), StoreTypes
    PROVE  /\ DOMAIN pools' = DOMAIN pools \cup {h} /\ pools'[h] = l
           /\ \A g \in DOMAIN pools : g # h => pools'[g] = pools[g]
           /\ IsFiniteSet(DOMAIN pools') /\ DOMAIN pools' \subseteq Hosts
           /\ \A g \in DOMAIN pools' : pools'[g] \in Seq(Addresses)
<1>1. DOMAIN pools' = DOMAIN pools \cup {h} /\ pools'[h] = l
      /\ \A g \in DOMAIN pools : g # h => pools'[g] = pools[g]
  BY DEF SetPool
<1>2. IsFiniteSet(DOMAIN pools')
  <2>1. IsFiniteSet(DOMAIN pools)
    BY DEF StoreTypes
  <2>2. IsFiniteSet(DOMAIN pools \cup {h})
    BY <2>1, FS_AddElement
  <2>3. QED
    BY <1>1, <2>2
<1>3. QED
  BY <1>1, <1>2 DEF StoreTypes

\* A Replace announces itself.
LEMMA ReloadsOf ==
    ASSUME NEW h \in Hosts, Reloads(h), StoreTypes
    PROVE  /\ reload' \in [Hosts -> Nat] /\ reload'[h] = reload[h] + 1
           /\ \A g \in Hosts : g # h => reload'[g] = reload[g] /\ (g \in overlap' <=> g \in overlap)
           /\ reload[h] > 0 => h \in overlap'
           /\ overlap \subseteq overlap'
BY DEF Reloads, StoreTypes

LEMMA ReplaceStep ==
    ASSUME StoreInv, NEW h \in Hosts, Replace(h)
    PROVE  StoreInv'
<1>1. StoreTypes /\ Loading /\ RepeatsForAReason
  BY DEF StoreInv
<1>2. /\ h \in DOMAIN pools /\ pools[h] # <<>> /\ SetPool(h, Tail(pools[h]))
      /\ UNCHANGED <<storeVars, checkVars>>
  BY DEF Replace
<1>3. pools[h] \in Seq(Addresses) /\ Head(pools[h]) \in Addresses /\ Tail(pools[h]) \in Seq(Addresses)
      /\ Len(Tail(pools[h])) = Len(pools[h]) - 1
      /\ \A i \in 1 .. Len(Tail(pools[h])) : Tail(pools[h])[i] = pools[h][i + 1]
  BY <1>1, <1>2, HeadTailProperties DEF StoreTypes
<1>4. /\ DOMAIN pools' = DOMAIN pools /\ pools'[h] = Tail(pools[h])
      /\ \A g \in DOMAIN pools : g # h => pools'[g] = pools[g]
      /\ IsFiniteSet(DOMAIN pools') /\ DOMAIN pools' \subseteq Hosts
      /\ \A g \in DOMAIN pools' : pools'[g] \in Seq(Addresses)
  BY <1>1, <1>2, <1>3, PoolsSet
<1>5. overlap \subseteq overlap' /\ StoreTypes' /\ Loading'
  <2>1. CASE Len(pools[h]) = 1
    <3>1. Reloads(h) /\ UNCHANGED pending
      BY <2>1 DEF Replace
    <3>2. /\ reload' \in [Hosts -> Nat] /\ reload'[h] = reload[h] + 1
          /\ \A g \in Hosts : g # h => reload'[g] = reload[g] /\ (g \in overlap' <=> g \in overlap)
          /\ reload[h] > 0 => h \in overlap'
          /\ overlap \subseteq overlap'
      BY <1>1, <3>1, ReloadsOf
    <3>3. pools'[h] = <<>>
      <4>1. Len(Tail(pools[h])) = 0
        BY <1>3, <2>1
      <4>2. QED
        BY <1>3, <1>4, <4>1, EmptySeq
    <3>4. StoreTypes'
      BY <1>1, <1>2, <1>4, <3>1, <3>2 DEF StoreTypes, Row, storeVars, checkVars
    <3>5. Loading'
      <4> SUFFICES ASSUME NEW g \in Hosts, reload'[g] > 0
                   PROVE  g \in DOMAIN pools /\ (g \notin overlap' => pools'[g] = <<>> /\ reload'[g] = 1)
        BY <1>4 DEF Loading
      <4>1. CASE g = h
        BY <1>1, <1>2, <3>2, <3>3, <4>1 DEF StoreTypes
      <4>2. CASE g # h
        BY <1>1, <1>4, <3>2, <4>2 DEF Loading
      <4>3. QED
        BY <4>1, <4>2
    <3>6. QED
      BY <3>2, <3>4, <3>5
  <2>2. CASE Len(pools[h]) # 1
    <3>1. pending' = pending \cup {[host |-> h, proxy |-> Head(pools[h])]} /\ UNCHANGED <<reload, overlap>>
      BY <2>2 DEF Replace
    <3>2. \A e \in pending' : e.proxy \in Addresses
      BY <1>1, <1>3, <3>1 DEF StoreTypes
    <3>3. StoreTypes'
      BY <1>1, <1>2, <1>4, <3>1, <3>2 DEF StoreTypes, Row, storeVars, checkVars
    <3>4. Loading'
      BY <1>1, <1>2, <1>4, <3>1 DEF Loading
    <3>5. QED
      BY <3>1, <3>3, <3>4
  <2>3. QED
    BY <2>1, <2>2
<1>6. RepeatsForAReason'
  <2> SUFFICES ASSUME NEW g \in DOMAIN pools, DOMAIN pools = {g}, g \notin overlap'
               PROVE  IsInjective(pools'[g])
    BY <1>4 DEF RepeatsForAReason
  <2>1. g = h /\ IsInjective(pools[h])
    BY <1>1, <1>2, <1>5 DEF RepeatsForAReason
  <2>2. QED
    BY <1>3, <1>4, <2>1 DEF IsInjective
<1>7. QED
  BY <1>5, <1>6 DEF StoreInv

LEMMA ReplaceEmptyStep ==
    ASSUME StoreInv, NEW h \in Hosts, ReplaceEmpty(h)
    PROVE  StoreInv'
<1>1. StoreTypes /\ Loading /\ RepeatsForAReason
  BY DEF StoreInv
<1>2. /\ h \in DOMAIN pools /\ pools[h] = <<>> /\ Reloads(h)
      /\ UNCHANGED <<storeVars, checkVars, pools, pending>>
  BY DEF ReplaceEmpty
<1>3. /\ reload' \in [Hosts -> Nat] /\ reload'[h] = reload[h] + 1
      /\ \A g \in Hosts : g # h => reload'[g] = reload[g] /\ (g \in overlap' <=> g \in overlap)
      /\ reload[h] > 0 => h \in overlap'
      /\ overlap \subseteq overlap'
  BY <1>1, <1>2, ReloadsOf
<1>4. StoreTypes'
  BY <1>1, <1>2, <1>3 DEF StoreTypes, Row, storeVars, checkVars
<1>5. Loading'
  BY <1>1, <1>2, <1>3 DEF Loading, StoreTypes
<1>6. RepeatsForAReason'
  BY <1>1, <1>2, <1>3 DEF RepeatsForAReason
<1>7. QED
  BY <1>4, <1>5, <1>6 DEF StoreInv

\* The list is loaded with nothing in use: each row once.
LEMMA ReplaceReloadStep ==
    ASSUME StoreInv, NEW h \in Hosts, ReplaceReload(h)
    PROVE  StoreInv'
<1>1. StoreTypes /\ Loading /\ RepeatsForAReason
  BY DEF StoreInv
<1>2. /\ reload[h] > 0 /\ reload' = [reload EXCEPT ![h] = @ - 1]
      /\ UNCHANGED <<storeVars, checkVars, overlap, pending>>
  BY DEF ReplaceReload
<1>3. /\ h \in DOMAIN pools /\ pools[h] \in Seq(Addresses)
      /\ h \notin overlap => pools[h] = <<>> /\ reload[h] = 1
  BY <1>1, <1>2 DEF Loading, StoreTypes
<1>4. /\ reload' \in [Hosts -> Nat] /\ \A g \in Hosts : g # h => reload'[g] = reload[g]
      /\ h \notin overlap => ~(reload'[h] > 0)
  BY <1>1, <1>2, <1>3 DEF StoreTypes
<1>5. CASE UNCHANGED pools
  <2>1. StoreTypes'
    BY <1>1, <1>2, <1>4, <1>5 DEF StoreTypes, Row, storeVars, checkVars
  <2>2. Loading' /\ RepeatsForAReason'
    BY <1>1, <1>2, <1>3, <1>4, <1>5 DEF Loading, RepeatsForAReason
  <2>3. QED
    BY <2>1, <2>2 DEF StoreInv
<1>6. ASSUME NEW l \in LoadProxyList(<<>>), SetPool(h, pools[h] \o l)
      PROVE  StoreInv'
  <2>1. <<>> \in Seq(Addresses)
    OBVIOUS
  <2>2. PICK rest \in Seq(Addresses) : l = <<>> \o rest /\ IsInjective(rest)
    BY <1>1, <2>1, LoadedList
  <2>3. l = rest
    BY <2>2
  <2>4. pools[h] \o l \in Seq(Addresses)
    BY <1>3, <2>3, ConcatProperties
  <2>5. /\ DOMAIN pools' = DOMAIN pools /\ pools'[h] = pools[h] \o l
        /\ \A g \in DOMAIN pools : g # h => pools'[g] = pools[g]
        /\ IsFiniteSet(DOMAIN pools') /\ DOMAIN pools' \subseteq Hosts
        /\ \A g \in DOMAIN pools' : pools'[g] \in Seq(Addresses)
    BY <1>1, <1>3, <1>6, <2>4, PoolsSet
  <2>6. StoreTypes'
    BY <1>1, <1>2, <1>4, <2>5 DEF StoreTypes, Row, storeVars, checkVars
  <2>7. Loading'
    BY <1>1, <1>2, <1>3, <1>4, <2>5 DEF Loading
  <2>8. RepeatsForAReason'
    <3> SUFFICES ASSUME NEW g \in DOMAIN pools, DOMAIN pools = {g}, g \notin overlap
                 PROVE  IsInjective(pools'[g])
      BY <1>2, <2>5 DEF RepeatsForAReason
    <3>1. g = h /\ pools[h] = <<>>
      BY <1>3
    <3>2. pools'[g] = rest
      BY <2>3, <2>5, <3>1
    <3>3. QED
      BY <2>2, <3>2
  <2>9. QED
    BY <2>6, <2>7, <2>8 DEF StoreInv
<1>7. QED
  BY <1>5, <1>6 DEF ReplaceReload

LEMMA NewPoolStep ==
    ASSUME StoreInv, NEW h \in Hosts, NewPool(h)
    PROVE  StoreInv'
<1>1. StoreTypes /\ Loading /\ RepeatsForAReason
  BY DEF StoreInv
<1>2. h \notin DOMAIN pools /\ UNCHANGED <<storeVars, checkVars, reload, overlap, pending>>
  BY DEF NewPool
<1>3. CASE UNCHANGED pools
  BY <1>1, <1>2, <1>3 DEF StoreInv, StoreTypes, Row, Loading, RepeatsForAReason, storeVars, checkVars
<1>4. ASSUME NEW l \in Seq(Addresses), SetPool(h, l), DOMAIN pools = {} => IsInjective(l)
      PROVE  StoreInv'
  <2>1. /\ DOMAIN pools' = DOMAIN pools \cup {h} /\ pools'[h] = l
        /\ \A g \in DOMAIN pools : g # h => pools'[g] = pools[g]
        /\ IsFiniteSet(DOMAIN pools') /\ DOMAIN pools' \subseteq Hosts
        /\ \A g \in DOMAIN pools' : pools'[g] \in Seq(Addresses)
    BY <1>1, <1>4, PoolsSet
  <2>2. StoreTypes'
    BY <1>1, <1>2, <2>1 DEF StoreTypes, Row, storeVars, checkVars
  <2>3. Loading'
    BY <1>1, <1>2, <2>1 DEF Loading
  <2>4. RepeatsForAReason'
    <3> SUFFICES ASSUME NEW g, DOMAIN pools' = {g} PROVE IsInjective(pools'[g])
      BY DEF RepeatsForAReason
    <3>1. g = h /\ DOMAIN pools = {}
      BY <1>2, <2>1
    <3>2. QED
      BY <1>4, <2>1, <3>1
  <2>5. QED
    BY <2>2, <2>3, <2>4 DEF StoreInv
<1>5. CASE SetPool(h, <<>>)
  <2>1. <<>> \in Seq(Addresses)
    OBVIOUS
  <2>2. IsInjective(<<>>)
    BY DEF IsInjective
  <2>3. QED
    BY <1>4, <1>5, <2>1, <2>2
<1>6. ASSUME NEW used \in InUse, NEW l \in LoadProxyList(used), SetPool(h, l),
             \A g \in DOMAIN pools : pools[g] # <<>>
      PROVE  StoreInv'
  <2>1. used \in Seq(Addresses) /\ (DOMAIN pools = {} => used = <<>>)
    BY <1>1, <1>6, UsedHeads
  <2>2. PICK rest \in Seq(Addresses) : l = used \o rest /\ IsInjective(rest) /\ l \in Seq(Addresses)
    BY <1>1, <2>1, LoadedList
  <2>3. DOMAIN pools = {} => l = rest
    BY <2>1, <2>2
  <2>4. QED
    BY <1>4, <1>6, <2>2, <2>3
<1>7. QED
  BY <1>3, <1>5, <1>6 DEF NewPool

-----------------------------------------------------------------------------
\* The table holds rows of candidates and the lists their addresses, whatever the
\* goroutines do to both.
THEOREM StoreInvariant == Spec => []StoreInv
<1>1. Init => StoreInv
  <2> SUFFICES ASSUME Init PROVE StoreInv
    OBVIOUS
  <2>1. DOMAIN table = {} /\ DOMAIN pools = {} /\ reload = [g \in Hosts |-> 0] /\ pending = {}
        /\ list = <<>> /\ answer = "none"
    BY DEF Init
  <2>2. StoreTypes
    BY <2>1, FS_EmptySet DEF StoreTypes
  <2>3. Loading /\ RepeatsForAReason
    BY <2>1 DEF Loading, RepeatsForAReason
  <2>4. QED
    BY <2>2, <2>3 DEF StoreInv
<1>2. StoreInv /\ [Next]_vars => StoreInv'
  <2> SUFFICES ASSUME StoreInv, [Next]_vars PROVE StoreInv'
    OBVIOUS
  <2>1. ASSUME NEW p \in Candidates, Flip(p) \/ AddCandidate(p) PROVE StoreInv'
    BY <2>1, FlipStep, AddCandidateStep
  <2>2. CASE CheckDB
    BY <2>2, CheckDBStep
  <2>3. ASSUME NEW h \in Hosts, Pool(h) PROVE StoreInv'
    <3>1. CASE GetConn(h)
      BY <3>1 DEF GetConn, StoreInv, StoreTypes, Row, Loading, RepeatsForAReason, storeVars, checkVars,
                  poolVars
    <3>2. QED
      BY <2>3, <3>1, NewPoolStep, ReplaceStep, ReplaceEmptyStep, ReplaceReloadStep DEF Pool
  <2>4. ASSUME NEW e \in pending, SaveReplaced(e) PROVE StoreInv'
    BY <2>4, SaveReplacedStep
  <2>5. CASE UNCHANGED vars
    BY <2>5 DEF vars, StoreInv, StoreTypes, Row, Loading, RepeatsForAReason, storeVars, checkVars, poolVars
  <2>6. QED
    BY <2>1, <2>2, <2>3, <2>4, <2>5 DEF Next
<1>3. QED
  BY <1>1, <1>2, PTL DEF Spec

\* A loaded address finds the row it came from, although its IP may have changed
\* (SaveDB packs a 16-bit port into 8 bits of the key, GetProxyList unpacks it).
THEOREM RowKeepsItsKeyHolds == Spec => []RowKeepsItsKey
<1>1. StoreInv => RowKeepsItsKey
  <2> SUFFICES ASSUME StoreInv PROVE RowKeepsItsKey
    OBVIOUS
  <2>0. StoreTypes
    BY DEF StoreInv
  <2>1. ASSUME NEW k \in DOMAIN table PROVE KeyOf(Loaded(k, table[k])) = k
    <3>1. PICK c \in Candidates : k = KeyOf(c) /\ table[k].port = c.port
      BY <2>0 DEF StoreTypes, Row
    <3>2. Loaded(k, table[k]) = [ip |-> KeyOf(c) \div Byte, port |-> c.port]
      BY <3>1 DEF Loaded
    <3>3. QED
      BY <3>1, <3>2, KeyAgain, CandidatesAssumption
  <2>2. ASSUME NEW h \in DOMAIN pools, NEW i \in DOMAIN pools[h] PROVE KeyOf(pools[h][i]) \in RowKeys
    <3>1. pools[h][i] \in Addresses
      BY <2>0 DEF StoreTypes
    <3>2. QED
      BY <3>1, AddressKey DEF RowKeys
  <2>3. QED
    BY <2>1, <2>2 DEF RowKeepsItsKey
<1>2. QED
  BY <1>1, StoreInvariant, PTL

\* CheckDB deletes a proxy that has just answered only after a database error on
\* the row before it, and nothing else deletes one.
THEOREM DeletedForAReasonHolds == Spec => DeletedForAReason
<1>1. StoreInv /\ [Next]_vars =>
        [DOMAIN table' # DOMAIN table /\ DOMAIN table' \subseteq DOMAIN table => answer = "fail" \/ err]_vars
  <2> SUFFICES ASSUME StoreInv, Next, DOMAIN table' # DOMAIN table, DOMAIN table' \subseteq DOMAIN table
               PROVE  answer = "fail" \/ err
    OBVIOUS
  <2>1. \A p, ord : ~Save(p, ord)
    BY DEF Save
  <2>2. CheckApply /\ Verdict = "delete"
    BY <2>1 DEF Next, Flip, AddCandidate, CheckDB, CheckStart, CheckOne, CheckApply, CheckApplyFails, Pool,
                NewPool, Replace, ReplaceEmpty, ReplaceReload, GetConn, SaveReplaced, storeVars
  <2>3. answer \in {"ok", "fail"}
    BY <2>2 DEF CheckApply, StoreInv, StoreTypes
  <2>4. QED
    BY <2>2, <2>3, Zenon DEF Verdict
<1>2. QED
  BY <1>1, StoreInvariant, PTL DEF Spec, DeletedForAReason

\* Of the entries with the IP of a proxy in use none is left, if no two proxies
\* share an IP.
LEMMA UsedLeftOut ==
    ASSUME StoreTypes, NEW used \in Seq(Addresses), NEW R \in Rests(used, Entries(1)),
           NEW i \in DOMAIN used, used[i] \in R,
           \A x, y \in Entries(1) : x.ip = y.ip => x = y
    PROVE  FALSE
<1> DEFINE fresh == Entries(1)
           I == {j \in DOMAIN used : used[j].ip = used[i].ip}
           out == WithIP(fresh \ R, used[i])
<1>1. R \in SUBSET fresh /\ used[i] \in fresh
      /\ (Cardinality(out) < Cardinality(I) => WithIP(R, used[i]) = {})
  BY DEF Rests
<1>2. out = {}
  BY <1>1 DEF WithIP
<1>3. WithIP(R, used[i]) # {}
  BY DEF WithIP
<1>4. IsFiniteSet(I) /\ I # {}
  <2>1. IsFiniteSet(1 .. Len(used)) /\ I \in SUBSET (1 .. Len(used))
    BY FS_Interval
  <2>2. IsFiniteSet(I)
    BY <2>1, FS_Subset
  <2>3. i \in I
    OBVIOUS
  <2>4. QED
    BY <2>2, <2>3
<1> HIDE DEF I, out
<1>5. Cardinality(I) \in Nat /\ Cardinality(I) # 0 /\ Cardinality(out) = 0
  BY <1>2, <1>4, FS_EmptySet, FS_CardinalityType
<1>6. QED
  BY <1>1, <1>3, <1>5

\* A list with the proxies in use first and the left over entries after them
\* repeats none.
LEMMA NewListInjective ==
    ASSUME StoreTypes, \A g \in DOMAIN pools : pools[g] # <<>>,
           NEW used \in InUse, NEW l \in LoadProxyList(used),
           \A g, f \in DOMAIN pools : g # f => Head(pools[g]) # Head(pools[f]),
           DistinctIPs({Loaded(k, table[k]) : k \in DOMAIN table}
                       \cup {Head(pools[g]) : g \in DOMAIN pools})
    PROVE  IsInjective(l)
<1>1. used \in Seq(Addresses) /\ IsInjective(used)
  BY UsedHeads
<1>2. PICK R \in Rests(used, Entries(1)), rest \in Seq(Addresses) :
         l = used \o rest /\ rest \in Seq(R) /\ IsInjective(rest)
  BY <1>1, LoadedList
<1>3. \A x, y \in Entries(1) : x.ip = y.ip => x = y
  BY DEF DistinctIPs, Entries, Rows
<1>4. \A i \in DOMAIN used, j \in DOMAIN rest : used[i] # rest[j]
  <2> SUFFICES ASSUME NEW i \in DOMAIN used, NEW j \in DOMAIN rest, used[i] = rest[j] PROVE FALSE
    OBVIOUS
  <2>1. used[i] \in R
    BY <1>2
  <2>2. QED
    BY <1>1, <1>3, <2>1, UsedLeftOut
<1>5. Len(used) \in Nat /\ Len(rest) \in Nat /\ DOMAIN used = 1 .. Len(used) /\ DOMAIN rest = 1 .. Len(rest)
  BY <1>1, <1>2
<1>6. DOMAIN l = 1 .. Len(used) + Len(rest)
      /\ \A i \in DOMAIN l : l[i] = IF i <= Len(used) THEN used[i] ELSE rest[i - Len(used)]
  BY <1>1, <1>2, <1>5
<1>7. ASSUME NEW i \in DOMAIN l, NEW j \in DOMAIN l, l[i] = l[j] PROVE i = j
  <2>1. CASE i <= Len(used) /\ j <= Len(used)
    BY <1>1, <1>5, <1>6, <1>7, <2>1 DEF IsInjective
  <2>2. CASE i <= Len(used) /\ ~(j <= Len(used))
    BY <1>4, <1>5, <1>6, <1>7, <2>2
  <2>3. CASE ~(i <= Len(used)) /\ j <= Len(used)
    BY <1>4, <1>5, <1>6, <1>7, <2>3
  <2>4. CASE ~(i <= Len(used)) /\ ~(j <= Len(used))
    <3>1. i - Len(used) \in DOMAIN rest /\ j - Len(used) \in DOMAIN rest
      BY <1>5, <1>6, <2>4
    <3>2. rest[i - Len(used)] = rest[j - Len(used)]
      BY <1>6, <1>7, <2>4
    <3>3. i - Len(used) = j - Len(used)
      BY <1>2, <3>1, <3>2 DEF IsInjective
    <3>4. QED
      BY <1>5, <1>6, <3>3
  <2>5. QED
    BY <2>1, <2>2, <2>3, <2>4
<1>8. QED
  BY <1>7 DEF IsInjective

\* Only the first connection of a host makes it a list.
LEMMA NewPoolOnly ==
    ASSUME StoreInv, Next, NEW h \in DOMAIN pools' \ DOMAIN pools
    PROVE  NewPool(h)
<1>1. DOMAIN pools' # DOMAIN pools
  OBVIOUS
<1>2. \A g, l : SetPool(g, l) => DOMAIN pools' = DOMAIN pools \cup {g}
  BY DEF SetPool
<1>3. \A g \in Hosts : reload[g] > 0 => g \in DOMAIN pools
  BY DEF StoreInv, Loading
<1>4. PICK g \in Hosts : NewPool(g)
  <2>1. ASSUME NEW g \in Hosts, Replace(g) PROVE FALSE
    <3>1. g \in DOMAIN pools /\ SetPool(g, Tail(pools[g]))
      BY <2>1 DEF Replace
    <3>2. DOMAIN pools' = DOMAIN pools \cup {g}
      BY <1>2, <3>1, Zenon
    <3>3. QED
      BY <1>1, <3>1, <3>2
  <2>2. ASSUME NEW g \in Hosts, ReplaceReload(g) PROVE FALSE
    BY <1>1, <1>2, <1>3, <2>2 DEF ReplaceReload
  <2>3. UNCHANGED pools \/ \E g \in Hosts : Pool(g)
    BY DEF Next, Flip, AddCandidate, CheckDB, CheckStart, CheckOne, CheckApply, CheckApplyFails,
           SaveReplaced, poolVars
  <2>4. PICK g \in Hosts : Pool(g)
    BY <1>1, <2>3
  <2>5. NewPool(g) \/ ReplaceEmpty(g) \/ GetConn(g)
    BY <2>1, <2>2, <2>4 DEF Pool
  <2>6. QED
    BY <1>1, <2>5 DEF ReplaceEmpty, GetConn, poolVars
<1>5. h = g
  BY <1>1, <1>2, <1>4 DEF NewPool
<1>6. QED
  BY <1>4, <1>5

\* A list has a proxy twice only if two proxies share an IP, two pools use one
\* proxy, or two Replaces of the host overlapped (LoadProxyList).
THEOREM ListsRepeatForAReasonHolds == Spec => ListsRepeatForAReason
<1> DEFINE Repeats ==
      \A h \in DOMAIN pools' \ DOMAIN pools :
          /\ \A g, f \in DOMAIN pools : g # f => Head(pools[g]) # Head(pools[f])
          /\ DistinctIPs({Loaded(k, table[k]) : k \in DOMAIN table}
                         \cup {Head(pools[g]) : g \in DOMAIN pools})
          => IsInjective(pools'[h])
<1>1. StoreInv /\ [Next]_vars => [Repeats]_vars
  <2> SUFFICES ASSUME StoreInv, Next, NEW h \in DOMAIN pools' \ DOMAIN pools,
                      \A g, f \in DOMAIN pools : g # f => Head(pools[g]) # Head(pools[f]),
                      DistinctIPs({Loaded(k, table[k]) : k \in DOMAIN table}
                                  \cup {Head(pools[g]) : g \in DOMAIN pools})
               PROVE  IsInjective(pools'[h])
    OBVIOUS
  <2>0. StoreTypes
    BY DEF StoreInv
  <2>1. NewPool(h)
    BY NewPoolOnly
  <2>2. \A l : SetPool(h, l) => pools'[h] = l
    BY DEF SetPool
  <2>3. CASE SetPool(h, <<>>)
    BY <2>2, <2>3 DEF IsInjective
  <2>4. ASSUME NEW used \in InUse, NEW l \in LoadProxyList(used), SetPool(h, l),
               \A g \in DOMAIN pools : pools[g] # <<>>
        PROVE  IsInjective(pools'[h])
    BY <2>0, <2>2, <2>4, NewListInjective
  <2>5. QED
    BY <2>1, <2>3, <2>4 DEF NewPool
<1>2. StoreInv => RepeatsForAReason
  BY DEF StoreInv
<1>3. QED
  BY <1>1, <1>2, StoreInvariant, PTL DEF Spec, ListsRepeatForAReason, NewListNoRepeats
=============================================================================
