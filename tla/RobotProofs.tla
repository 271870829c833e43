----------------------------- MODULE RobotProofs -----------------------------
(*****************************************************************************)
(* Proofs about the robot server. RobotServer, its sessions, for any number  *)
(* of clients, connections, keys and payloads; TableReports, what a session  *)
(* learns of the other players, for any set of tile codes, any wall and any  *)
(* number of discards; MahjongWeight, the weight of a suit, for any number   *)
(* of ranks and tiles.                                                       *)
(*****************************************************************************)
EXTENDS MCRobotLib, FiniteSetTheorems, SequenceTheorems, WellFoundedInduction, TLAPS

-----------------------------------------------------------------------------
\* A key of HostMap has a session that was created for the client.
Holds(c, k) == hostMap[k] # None /\ owner[hostMap[k]] = c

\* Sessions are numbered in the order they were created; a handler has one, and
\* a key for it, exactly while it works.
Known ==
    /\ \A k \in Slots : hostMap[k] <= created
    /\ \A s \in 1..created : owner[s] \in Clients
    /\ \A h \in Handlers :
          /\ pc[h] # "off" => req[h].client \in Clients
          /\ pc[h] \in Working \cup {"insert"} => req[h].key \in Slots
          /\ IF pc[h] \in Working THEN sess[h] \in 1..created ELSE sess[h] = None
    /\ sweep # NewKey => hostMap[sweep] # None

\* Every handler that may create a session finds a number for it.
Room == created + Cardinality({g \in Handlers : pc[g] \in Searching}) <= MaxSessions

\* A key is taken from somebody only by a second handler that was looking for a
\* free one at the same time, or by ClearServer.
KeysPrivate ==
    /\ \A g, h \in Allocating : g # h => req[g].client \in raced
    /\ \A h \in Handlers :
          /\ pc[h] = "insert" =>
                hostMap[req[h].key] = None \/ owner[hostMap[req[h].key]] \in raced
          /\ pc[h] \in Working \cup {"lookup"} /\ req[h].client \notin raced \cup evicted
                /\ req[h].key \in Slots => Holds(req[h].client, req[h].key)
    /\ \A c \in Clients \ (raced \cup evicted) : key[c] \in Slots => Holds(c, key[c])

\* Only handlers that share a session find it changed under their hands.
Exclusive ==
    \A g, h \in Handlers :
        pc[g] \in Working /\ pc[h] \in Working /\ g # h /\ sess[g] = sess[h] => sess[g] \in mixed

\* LastForData of a session that only one handler at a time worked on: payload
\* and result belong together, but between the assignments to them.
Settled(s) ==
    (\A h \in Handlers : sess[h] = s => pc[h] \notin {"call", "store"}) =>
        last[s].arg = last[s].res /\ ran[s] = last[s].arg

InStep(h) ==
    LET l == last[sess[h]] IN
    /\ pc[h] = "set" => l.arg # req[h].arg
    /\ pc[h] = "call" => l.arg = req[h].arg /\ ran[sess[h]] # req[h].arg
    /\ pc[h] = "store" => l.arg = req[h].arg /\ ran[sess[h]] = req[h].arg /\ ret[h] = req[h].arg
    /\ pc[h] = "reply" => l.res = req[h].arg

DataTrue ==
    /\ \A s \in Sessions \ mixed : Settled(s)
    /\ \A h \in Handlers : pc[h] \in Working /\ sess[h] \notin mixed => InStep(h)

SessionInv == TypeOK /\ Known /\ Room /\ KeysPrivate /\ PrivateSession /\ Exclusive /\ DataTrue

-----------------------------------------------------------------------------
\* A set of numbers that is not empty has a least member.
LEMMA MinMember ==
    ASSUME NEW N \in SUBSET Nat, N # {}
    PROVE  Min(N) \in N
<1>1. PICK x \in N : \A y \in N : ~(<<y, x>> \in OpToRel(<, Nat))
  BY NatLessThanWellFounded, WFMin
<1>2. \A y \in N : x <= y
  <2> SUFFICES ASSUME NEW y \in N, y < x PROVE FALSE
    OBVIOUS
  <2>1. <<y, x>> \in {ss \in Nat \X Nat : ss[1] < ss[2]}
    OBVIOUS
  <2>2. QED
    BY <1>1, <2>1, Zenon DEF OpToRel
<1>3. \E z \in N : \A y \in N : z =< y
  BY <1>2
<1>4. QED
  BY <1>3, Zenon DEF Min

\* A free key is a key without a session.
LEMMA FreeKey ==
    ASSUME Free # {}
    PROVE  Min(Free) \in Slots /\ hostMap[Min(Free)] = None
<1>1. Slots \subseteq Nat
  BY NumSlotsAssumption DEF Slots
<1>2. Min(Free) \in Free
  <2>1. Free \in SUBSET Nat
    BY <1>1 DEF Free
  <2>2. QED
    BY <2>1, MinMember
<1>3. QED
  BY <1>2, Zenon DEF Free

\* The initial state.
LEMMA SessionInit == Init => SessionInv
<1> SUFFICES ASSUME Init PROVE SessionInv
  OBVIOUS
<1> USE DEF Init
<1>1. TypeOK
  BY NumSlotsAssumption, MaxSessionsAssumption, EmptyAssumption
     DEF TypeOK, NoRequest, NewKey, Keys, Slots, Sessions, None
<1>2. Known
  BY DEF Known, Slots, Sessions, None, Working, NewKey
<1>3. Room
  <2>1. {g \in Handlers : pc[g] \in Searching} = {}
    BY DEF Searching
  <2>2. Cardinality({g \in Handlers : pc[g] \in Searching}) = 0
    BY <2>1, FS_EmptySet, Zenon
  <2>3. QED
    BY <2>2, MaxSessionsAssumption DEF Room
<1>4. KeysPrivate /\ PrivateSession /\ Exclusive
  BY NumSlotsAssumption DEF KeysPrivate, PrivateSession, Exclusive, Allocating, Working, Slots, NewKey
<1>5. DataTrue
  BY DEF DataTrue, Settled, Working
<1>6. QED
  BY <1>1, <1>2, <1>3, <1>4, <1>5 DEF SessionInv

\* While a handler is looking for a session, there is a number for a new one.
LEMMA RoomForOne ==
    ASSUME SessionInv, NEW h \in Handlers, pc[h] \in Searching
    PROVE  created + 1 \in Sessions
<1> DEFINE S == {g \in Handlers : pc[g] \in Searching}
<1>1. IsFiniteSet(S) /\ h \in S
  BY HandlersAssumption, FS_Subset
<1>2. Cardinality(S) \in Nat /\ Cardinality(S) # 0
  BY <1>1, FS_CardinalityType, FS_EmptySet
<1>3. QED
  BY <1>2, MaxSessionsAssumption DEF SessionInv, Room, TypeOK, Sessions

\* Every step keeps the types and what is known of sessions and keys.
LEMMA SessionTypeStep ==
    ASSUME SessionInv, Next
    PROVE  TypeOK' /\ Known'
<1> USE NumSlotsAssumption, MaxSessionsAssumption, EmptyAssumption
        DEF handlerVars, clientVars, history
<1>1. ASSUME NEW h \in Handlers, NEW c \in Clients, NEW p \in Payloads, Recv(h, c, p)
      PROVE  TypeOK' /\ Known'
  <2>1. TypeOK'
    BY <1>1 DEF SessionInv, TypeOK, Recv, Searching
  <2>2. Known'
    BY <1>1 DEF SessionInv, TypeOK, Known, Recv, Working
  <2>3. QED
    BY <2>1, <2>2
<1>2. ASSUME NEW h \in Handlers, Lookup(h) PROVE TypeOK' /\ Known'
  <2>1. CASE /\ InMap(req[h].key) # None
             /\ sess' = [sess EXCEPT ![h] = InMap(req[h].key)]
             /\ pc' = [pc EXCEPT ![h] = "touch"]
             /\ mixed' \subseteq mixed \cup {InMap(req[h].key)}
             /\ UNCHANGED raced
    <3>1. /\ req[h].key \in Slots /\ InMap(req[h].key) \in 1..created
          /\ InMap(req[h].key) \in Sessions
      BY <1>2, <2>1 DEF SessionInv, TypeOK, Known, InMap, None, Sessions
    <3> DEFINE u == InMap(req[h].key)
    <3> HIDE DEF u
    <3>2. u \in Sessions /\ mixed' \subseteq mixed \cup {u} /\ sess' = [sess EXCEPT ![h] = u]
      BY <2>1, <3>1 DEF u
    <3>3. TypeOK'
      BY <1>2, <2>1, <3>2 DEF SessionInv, TypeOK, Lookup, Working
    <3>4. Known'
      BY <1>2, <2>1, <3>1 DEF SessionInv, TypeOK, Known, Lookup, Working
    <3>5. QED
      BY <3>3, <3>4
  <2>2. CASE /\ pc' = [pc EXCEPT ![h] = "scan"]
             /\ raced' \subseteq raced \cup {req[g].client : g \in Allocating \cup {h}}
             /\ UNCHANGED <<sess, mixed>>
    <3>1. raced' \subseteq Clients
      BY <1>2, <2>2 DEF SessionInv, TypeOK, Known, Allocating, Lookup
    <3>2. TypeOK'
      BY <1>2, <2>2, <3>1 DEF SessionInv, TypeOK, Lookup, Searching
    <3>3. Known'
      BY <1>2, <2>2 DEF SessionInv, TypeOK, Known, Lookup, Working
    <3>4. QED
      BY <3>2, <3>3
  <2>3. QED
    BY <1>2, <2>1, <2>2 DEF Lookup
<1>3. ASSUME NEW h \in Handlers, Scan(h) PROVE TypeOK' /\ Known'
  <2>1. CASE Free # {} /\ req' = [req EXCEPT ![h].key = Min(Free)] /\ pc' = [pc EXCEPT ![h] = "insert"] /\ UNCHANGED server
    <3>1. Min(Free) \in Slots /\ Min(Free) \in Keys
      BY <2>1, FreeKey DEF Slots, Keys
    <3>2. TypeOK'
      BY <1>3, <2>1, <3>1 DEF SessionInv, TypeOK, Scan, Searching
    <3>3. Known'
      BY <1>3, <2>1, <3>1 DEF SessionInv, TypeOK, Known, Scan, Working
    <3>4. QED
      BY <3>2, <3>3
  <2>2. CASE server' = "panic" /\ UNCHANGED <<req, pc>>
    BY <1>3, <2>2 DEF SessionInv, TypeOK, Known, Scan
  <2>3. QED
    BY <1>3, <2>1, <2>2 DEF Scan
<1>4. ASSUME NEW h \in Handlers, Insert(h) PROVE TypeOK' /\ Known'
  <2>1. /\ created' = created + 1 /\ created' \in Sessions /\ created' \in 0..MaxSessions
        /\ created \in Nat
    BY <1>4, RoomForOne DEF Insert, Searching, SessionInv, TypeOK, Sessions
  <2>2. req[h].key \in Slots /\ req[h].client \in Clients
    BY <1>4 DEF Insert, SessionInv, Known
  <2>3. TypeOK'
    BY <1>4, <2>1, <2>2 DEF SessionInv, TypeOK, Insert, Working
  <2>4. Known'
    <3>0. ASSUME NEW k \in Slots PROVE hostMap'[k] <= created'
      <4>1. hostMap[k] \in Nat /\ hostMap[k] <= created
        BY DEF SessionInv, TypeOK, Known, Sessions, None
      <4>2. hostMap'[k] = IF k = req[h].key THEN created' ELSE hostMap[k]
        BY <1>4, <2>2 DEF SessionInv, TypeOK, Insert
      <4>3. QED
        BY <2>1, <4>1, <4>2
    <3>1. sweep' # NewKey => hostMap'[sweep'] # None
      <4> SUFFICES ASSUME sweep # NewKey PROVE hostMap'[sweep] # None
        BY <1>4 DEF Insert
      <4>1. sweep \in Slots /\ hostMap[sweep] # None
        BY DEF SessionInv, TypeOK, Known, Slots, Keys, NewKey
      <4>2. hostMap'[sweep] = IF sweep = req[h].key THEN created' ELSE hostMap[sweep]
        BY <1>4, <2>2, <4>1 DEF SessionInv, TypeOK, Insert
      <4>3. QED
        BY <2>1, <4>1, <4>2 DEF None, Sessions
    <3>2. \A s \in 1..created' : owner'[s] \in Clients
      BY <1>4, <2>1, <2>2 DEF SessionInv, TypeOK, Known, Insert, Sessions
    <3>3. ASSUME NEW g \in Handlers
          PROVE  /\ pc'[g] # "off" => req'[g].client \in Clients
                 /\ pc'[g] \in Working \cup {"insert"} => req'[g].key \in Slots
                 /\ IF pc'[g] \in Working THEN sess'[g] \in 1..created' ELSE sess'[g] = None
      BY <1>4, <2>1, <2>2 DEF SessionInv, TypeOK, Known, Insert, Working
    <3>4. QED
      BY <3>0, <3>1, <3>2, <3>3 DEF Known
  <2>5. QED
    BY <2>3, <2>4
<1>5. ASSUME NEW h \in Handlers, Touch(h) PROVE TypeOK' /\ Known'
  <2>1. TypeOK'
    BY <1>5 DEF SessionInv, TypeOK, Touch, Working
  <2>2. Known'
    BY <1>5 DEF SessionInv, TypeOK, Known, Touch, Working
  <2>3. QED
    BY <2>1, <2>2
<1>6. ASSUME NEW h \in Handlers, Comp(h) PROVE TypeOK' /\ Known'
  <2>1. TypeOK'
    BY <1>6 DEF SessionInv, TypeOK, Comp, Working
  <2>2. Known'
    BY <1>6 DEF SessionInv, TypeOK, Known, Comp, Working
  <2>3. QED
    BY <2>1, <2>2
<1>7. ASSUME NEW h \in Handlers, SetArg(h) PROVE TypeOK' /\ Known'
  <2>1. TypeOK'
    BY <1>7 DEF SessionInv, TypeOK, SetArg, Working
  <2>2. Known'
    BY <1>7 DEF SessionInv, TypeOK, Known, SetArg, Working
  <2>3. QED
    BY <2>1, <2>2
<1>8. ASSUME NEW h \in Handlers, Call(h) PROVE TypeOK' /\ Known'
  <2>1. TypeOK'
    BY <1>8 DEF SessionInv, TypeOK, Known, Call, Working, Sessions
  <2>2. Known'
    BY <1>8 DEF SessionInv, TypeOK, Known, Call, Working
  <2>3. QED
    BY <2>1, <2>2
<1>9. ASSUME NEW h \in Handlers, Store(h) PROVE TypeOK' /\ Known'
  <2>1. TypeOK'
    BY <1>9 DEF SessionInv, TypeOK, Store, Working
  <2>2. Known'
    BY <1>9 DEF SessionInv, TypeOK, Known, Store, Working
  <2>3. QED
    BY <2>1, <2>2
<1>10. ASSUME NEW h \in Handlers, Reply(h) PROVE TypeOK' /\ Known'
  <2>1. req[h].client \in Clients /\ req[h].key \in Keys
    BY <1>10 DEF SessionInv, Known, TypeOK, Reply
  <2>2. key' \in [Clients -> Keys] /\ conn' \in [Clients -> Handlers \cup {Nobody}]
    BY <1>10, <2>1 DEF SessionInv, TypeOK, Reply
  <2>3. NoRequest \in [client : Clients \cup {Nobody}, key : Keys, arg : Payloads]
    BY DEF NoRequest, NewKey, Keys
  <2>4. TypeOK'
    BY <1>10, <2>2, <2>3 DEF SessionInv, TypeOK, Reply, None
  <2>5. Known'
    BY <1>10 DEF SessionInv, TypeOK, Known, Reply, Working
  <2>6. QED
    BY <2>4, <2>5
<1>11. ASSUME NEW s \in Sessions, Age(s) PROVE TypeOK' /\ Known'
  BY <1>11 DEF SessionInv, TypeOK, Known, Age
<1>12. ASSUME NEW k \in Slots, SweepCheck(k) PROVE TypeOK' /\ Known'
  BY <1>12 DEF SessionInv, TypeOK, Known, SweepCheck, Slots, Keys
<1>13. CASE SweepDelete
  <2>1. sweep \in Slots /\ hostMap[sweep] \in 1..created /\ owner[hostMap[sweep]] \in Clients
    BY <1>13 DEF SweepDelete, SessionInv, TypeOK, Known, Slots, Keys, NewKey, Sessions, None
  <2>2. TypeOK'
    BY <1>13, <2>1 DEF SessionInv, TypeOK, SweepDelete, NewKey, Keys, None
  <2>3. Known'
    BY <1>13, <2>1 DEF SessionInv, TypeOK, Known, SweepDelete, None
  <2>4. QED
    BY <2>2, <2>3
<1>14. CASE MapRace
  BY <1>14 DEF SessionInv, TypeOK, Known, MapRace
<1>15. QED
  BY <1>1, <1>2, <1>3, <1>4, <1>5, <1>6, <1>7, <1>8, <1>9, <1>10, <1>11, <1>12, <1>13, <1>14
     DEF Next, Handle, ClearServer

\* A handler's step changes the searching handlers by that handler only.
LEMMA SearchingStep ==
    ASSUME TypeOK, NEW h \in Handlers, NEW x, pc' = [pc EXCEPT ![h] = x]
    PROVE  {g \in Handlers : pc'[g] \in Searching} =
              IF x \in Searching THEN {g \in Handlers : pc[g] \in Searching} \cup {h}
              ELSE {g \in Handlers : pc[g] \in Searching} \ {h}
<1>1. \A g \in Handlers : pc'[g] = IF g = h THEN x ELSE pc[g]
  BY DEF TypeOK
<1>2. QED
  BY <1>1

\* A number is set aside when a request is read and used when its session is
\* created.
LEMMA RoomStep ==
    ASSUME SessionInv, Next
    PROVE  Room'
<1> DEFINE S == {g \in Handlers : pc[g] \in Searching}
           U == {g \in Handlers : pc'[g] \in Searching}
<1>1. IsFiniteSet(S) /\ Cardinality(S) \in Nat
  BY HandlersAssumption, FS_Subset, FS_CardinalityType
<1>2. created \in Nat /\ MaxSessions \in Nat /\ TypeOK
  BY MaxSessionsAssumption DEF SessionInv, TypeOK
<1>3. created + Cardinality(S) <= MaxSessions
  BY DEF SessionInv, Room
<1>4. SUFFICES created' + Cardinality(U) <= MaxSessions
  BY DEF Room
<1>5. ASSUME created' = created, U \subseteq S
      PROVE  created' + Cardinality(U) <= MaxSessions
  <2>1. Cardinality(U) <= Cardinality(S) /\ Cardinality(U) \in Nat
    BY <1>1, <1>5, FS_Subset, FS_CardinalityType
  <2>2. QED
    BY <1>1, <1>2, <1>3, <1>5, <2>1
<1>6. ASSUME NEW h \in Handlers, NEW c \in Clients, NEW p \in Payloads, Recv(h, c, p)
      PROVE  created' + Cardinality(U) <= MaxSessions
  <2>1. U = S \cup {h}
    BY <1>2, <1>6, SearchingStep DEF Recv, Searching
  <2>2. h \notin S
    BY <1>6 DEF Recv, Searching
  <2>3. Cardinality(U) = Cardinality(S) + 1
    BY <1>1, <2>1, <2>2, FS_AddElement
  <2>4. created' = created /\ created + Cardinality(S) < MaxSessions
    BY <1>6 DEF Recv
  <2>5. QED
    BY <1>1, <1>2, <2>3, <2>4
<1>7. ASSUME NEW h \in Handlers, Insert(h)
      PROVE  created' + Cardinality(U) <= MaxSessions
  <2>1. U = S \ {h}
    BY <1>2, <1>7, SearchingStep DEF Insert, Searching
  <2>2. h \in S
    BY <1>7 DEF Insert, Searching
  <2>3. Cardinality(U) = Cardinality(S) - 1
    BY <1>1, <2>1, <2>2, FS_RemoveElement
  <2>4. created' = created + 1
    BY <1>7 DEF Insert
  <2>5. QED
    BY <1>1, <1>2, <1>3, <2>3, <2>4
<1>8. ASSUME NEW h \in Handlers, Handle(h), ~Insert(h)
      PROVE  created' = created /\ U \subseteq S
  <2>1. created' = created
    BY <1>8 DEF Handle, Lookup, Scan, Touch, Comp, SetArg, Call, Store, Reply
  <2>2. CASE Lookup(h) \/ Scan(h)
    <3>1. h \in S /\ \A g \in Handlers : g # h => pc'[g] = pc[g]
      BY <1>2, <2>2 DEF TypeOK, Lookup, Scan, Searching
    <3>2. QED
      BY <2>1, <3>1
  <2>3. CASE ~(Lookup(h) \/ Scan(h))
    <3>1. pc'[h] \notin Searching /\ \A g \in Handlers : g # h => pc'[g] = pc[g]
      BY <1>2, <1>8, <2>3 DEF TypeOK, Handle, Touch, Comp, SetArg, Call, Store, Reply, Searching
    <3>2. QED
      BY <2>1, <3>1
  <2>4. QED
    BY <2>2, <2>3
<1>9. CASE \/ \E s \in Sessions : Age(s)
           \/ ClearServer
           \/ MapRace
  <2>1. created' = created /\ pc' = pc
    BY <1>9 DEF Age, ClearServer, SweepCheck, SweepDelete, MapRace, handlerVars
  <2>2. QED
    BY <1>5, <2>1
<1>10. QED
  BY <1>5, <1>6, <1>7, <1>8, <1>9 DEF Next

\* A step that leaves the map and its history alone, and after which every
\* handler at work was at work on the same session before, keeps every key with
\* its client.
LEMMA KeysKept ==
    ASSUME SessionInv,
           UNCHANGED <<hostMap, owner, raced, evicted, key>>,
           \A h \in Handlers :
              \/ pc'[h] = pc[h] /\ req'[h] = req[h] /\ sess'[h] = sess[h]
              \/ pc[h] \in Working /\ pc'[h] \in Working /\ req'[h] = req[h] /\ sess'[h] = sess[h]
    PROVE  KeysPrivate' /\ PrivateSession'
<1>1. Allocating' = Allocating
  BY DEF Allocating, Working
<1>2. KeysPrivate'
  BY <1>1 DEF SessionInv, KeysPrivate, Holds, Allocating, Working
<1>3. PrivateSession'
  BY DEF SessionInv, PrivateSession
<1>4. QED
  BY <1>2, <1>3

\* Every step keeps the keys, and the sessions behind them, with their clients.
LEMMA KeysStep ==
    ASSUME SessionInv, Next
    PROVE  KeysPrivate' /\ PrivateSession'
<1> USE DEF handlerVars, clientVars, history
<1>0. TypeOK /\ Known /\ KeysPrivate /\ PrivateSession
  BY DEF SessionInv
<1>1. ASSUME NEW h \in Handlers, NEW c \in Clients, NEW p \in Payloads, Recv(h, c, p)
      PROVE  KeysPrivate' /\ PrivateSession'
  <2>1. \A g \in Handlers :
           /\ pc'[g] = IF g = h THEN "lookup" ELSE pc[g]
           /\ req'[g] = IF g = h THEN [client |-> c, key |-> key[c], arg |-> p] ELSE req[g]
    BY <1>0, <1>1 DEF TypeOK, Recv
  <2>2. Allocating' = Allocating
    BY <1>1, <2>1 DEF Allocating, Recv
  <2>3. \A g \in Allocating : req'[g].client = req[g].client
    BY <1>1, <2>1 DEF Allocating, Recv
  <2>4. KeysPrivate'
    BY <1>0, <1>1, <2>1, <2>2, <2>3 DEF KeysPrivate, Holds, Recv, Working
  <2>5. PrivateSession'
    BY <1>0, <1>1, <2>1 DEF PrivateSession, Recv, Working
  <2>6. QED
    BY <2>4, <2>5
<1>2. ASSUME NEW h \in Handlers, Lookup(h) PROVE KeysPrivate' /\ PrivateSession'
  <2>1. CASE /\ InMap(req[h].key) # None
             /\ sess' = [sess EXCEPT ![h] = InMap(req[h].key)]
             /\ pc' = [pc EXCEPT ![h] = "touch"]
             /\ UNCHANGED raced
    <3>1. req[h].key \in Slots /\ InMap(req[h].key) = hostMap[req[h].key]
      BY <2>1 DEF InMap
    <3>2. \A g \in Handlers :
             /\ pc'[g] = IF g = h THEN "touch" ELSE pc[g]
             /\ sess'[g] = IF g = h THEN hostMap[req[h].key] ELSE sess[g]
      BY <1>0, <2>1, <3>1 DEF TypeOK
    <3>3. Allocating' = Allocating
      BY <1>2, <3>2 DEF Allocating, Lookup
    <3>4. KeysPrivate'
      BY <1>0, <1>2, <2>1, <3>2, <3>3 DEF KeysPrivate, Holds, Lookup, Working
    <3>5. PrivateSession'
      BY <1>0, <1>2, <2>1, <3>1, <3>2 DEF KeysPrivate, PrivateSession, Holds, Lookup, Working
    <3>6. QED
      BY <3>4, <3>5
  <2>2. CASE /\ pc' = [pc EXCEPT ![h] = "scan"]
             /\ raced' = IF Allocating = {} THEN raced
                         ELSE raced \cup {req[g].client : g \in Allocating \cup {h}}
             /\ UNCHANGED sess
    <3>1. \A g \in Handlers : pc'[g] = IF g = h THEN "scan" ELSE pc[g]
      BY <1>0, <2>2 DEF TypeOK
    <3>2. Allocating' = Allocating \cup {h} /\ h \notin Allocating
      BY <1>2, <3>1 DEF Allocating, Lookup
    <3>3. raced \subseteq raced'
      BY <2>2
    <3>4. \A f, g \in Allocating' : f # g => req[f].client \in raced'
      BY <2>2, <3>2
    <3>5. KeysPrivate'
      BY <1>0, <1>2, <3>1, <3>3, <3>4 DEF KeysPrivate, Holds, Lookup, Working
    <3>6. PrivateSession'
      BY <1>0, <1>2, <2>2, <3>1, <3>3 DEF PrivateSession, Lookup, Working
    <3>7. QED
      BY <3>5, <3>6
  <2>3. QED
    BY <1>2, <2>1, <2>2 DEF Lookup
<1>3. ASSUME NEW h \in Handlers, Scan(h) PROVE KeysPrivate' /\ PrivateSession'
  <2>1. CASE Free # {} /\ req' = [req EXCEPT ![h].key = Min(Free)] /\ pc' = [pc EXCEPT ![h] = "insert"]
    <3>1. PICK k \in Slots : hostMap[k] = None /\ req' = [req EXCEPT ![h].key = k]
      BY <2>1, FreeKey, Zenon
    <3>2. \A g \in Handlers :
             /\ pc'[g] = IF g = h THEN "insert" ELSE pc[g]
             /\ req'[g].client = req[g].client
             /\ g # h => req'[g] = req[g]
             /\ g = h => req'[g].key = k
      BY <1>0, <2>1, <3>1 DEF TypeOK
    <3>3. Allocating' = Allocating
      BY <1>3, <3>2 DEF Allocating, Scan
    <3>4. KeysPrivate'
      BY <1>0, <1>3, <3>1, <3>2, <3>3 DEF KeysPrivate, Holds, Scan, Working
    <3>5. PrivateSession'
      BY <1>0, <1>3, <3>2 DEF PrivateSession, Scan, Working
    <3>6. QED
      BY <3>4, <3>5
  <2>2. CASE UNCHANGED <<req, pc>>
    BY <1>3, <2>2, KeysKept DEF Scan
  <2>3. QED
    BY <1>3, <2>1, <2>2 DEF Scan
<1>4. ASSUME NEW h \in Handlers, Insert(h) PROVE KeysPrivate' /\ PrivateSession'
  <2> DEFINE k == req[h].key
             new == created'
  <2>1. /\ k \in Slots /\ req[h].client \in Clients /\ created \in Nat
        /\ new = created + 1 /\ new \in Sessions /\ new # None
    BY <1>0, <1>4, RoomForOne DEF Insert, Searching, Known, TypeOK, None
  <2>2. /\ \A j \in Slots : hostMap'[j] = IF j = k THEN new ELSE hostMap[j]
        /\ \A g \in Handlers : /\ pc'[g] = IF g = h THEN "touch" ELSE pc[g]
                               /\ sess'[g] = IF g = h THEN new ELSE sess[g]
        /\ \A s \in Sessions : owner'[s] = IF s = new THEN req[h].client ELSE owner[s]
    BY <1>0, <1>4, <2>1 DEF TypeOK, Insert
  <2>3. \A j \in Slots : hostMap[j] # None => hostMap[j] \in Sessions /\ hostMap[j] # new
    BY <1>0, <2>1 DEF TypeOK, Known, Sessions, None
  <2>4. ASSUME NEW j \in Slots, j # k
        PROVE  /\ hostMap'[j] = hostMap[j]
               /\ hostMap[j] # None => owner'[hostMap[j]] = owner[hostMap[j]]
    BY <2>2, <2>3, <2>4
  <2>5. hostMap'[k] = new /\ owner'[new] = req[h].client
    BY <2>1, <2>2
  <2>6. hostMap[k] = None \/ owner[hostMap[k]] \in raced
    BY <1>0, <1>4 DEF KeysPrivate, Insert
  <2>7. Allocating' = Allocating \ {h} /\ h \in Allocating
    BY <1>4, <2>2 DEF Allocating, Insert
  <2>8. ASSUME NEW c \in Clients \ (raced \cup evicted), NEW j \in Slots, Holds(c, j)
        PROVE  Holds(c, j)'
    BY <2>3, <2>4, <2>6, <2>8 DEF Holds
  <2>9. UNCHANGED <<req, key, raced, evicted>>
    BY <1>4 DEF Insert
  <2> HIDE DEF new
  <2>10. \A f, g \in Allocating' : f # g => req'[f].client \in raced'
    BY <1>0, <2>7, <2>9 DEF KeysPrivate
  <2>11. ASSUME NEW g \in Handlers, pc'[g] = "insert"
         PROVE  hostMap'[req'[g].key] = None \/ owner'[hostMap'[req'[g].key]] \in raced'
    <3>1. pc[g] = "insert" /\ g # h /\ req[g].key \in Slots
      BY <1>0, <2>2, <2>11 DEF Known
    <3>2. CASE req[g].key = k
      <4>1. req[h].client \in raced
        BY <1>0, <2>7, <3>1 DEF KeysPrivate, Allocating
      <4>2. QED
        BY <2>5, <2>9, <3>2, <4>1
    <3>3. CASE req[g].key # k
      BY <1>0, <2>4, <2>9, <3>1, <3>3 DEF KeysPrivate
    <3>4. QED
      BY <3>2, <3>3
  <2>12. ASSUME NEW g \in Handlers, pc'[g] \in Working \cup {"lookup"}, req'[g].key \in Slots,
                req'[g].client \notin raced' \cup evicted'
         PROVE  Holds(req[g].client, req[g].key)'
    <3>1. CASE g = h
      BY <2>1, <2>5, <2>9, <3>1 DEF Holds
    <3>2. CASE g # h
      <4>1. pc[g] \in Working \cup {"lookup"} /\ req[g].client \in Clients
        BY <1>0, <2>2, <2>12, <3>2 DEF Known, Working
      <4>2. QED
        BY <1>0, <2>8, <2>9, <2>12, <4>1 DEF KeysPrivate
    <3>3. QED
      BY <3>1, <3>2
  <2>13. ASSUME NEW c \in Clients \ (raced' \cup evicted'), key'[c] \in Slots
         PROVE  Holds(c, key[c])'
    BY <1>0, <2>8, <2>9, <2>13 DEF KeysPrivate
  <2>14. KeysPrivate'
    BY <2>9, <2>10, <2>11, <2>12, <2>13 DEF KeysPrivate
  <2>15. PrivateSession'
    <3> SUFFICES ASSUME NEW g \in Handlers, pc'[g] \in Working,
                        req[g].client \notin raced \cup evicted
                 PROVE  owner'[sess'[g]] = req[g].client
      BY <2>9 DEF PrivateSession
    <3>1. CASE g = h
      BY <2>2, <2>5, <3>1
    <3>2. CASE g # h
      <4>1. sess[g] \in Sessions /\ sess[g] # new /\ pc[g] \in Working
        BY <1>0, <2>1, <2>2, <3>2 DEF Known, TypeOK, Sessions, None
      <4>2. QED
        BY <1>0, <2>2, <3>2, <4>1 DEF PrivateSession
    <3>3. QED
      BY <3>1, <3>2
  <2>16. QED
    BY <2>14, <2>15
<1>5. ASSUME NEW h \in Handlers, Touch(h) \/ Comp(h) \/ SetArg(h) \/ Call(h) \/ Store(h)
      PROVE  KeysPrivate' /\ PrivateSession'
  <2>1. /\ UNCHANGED <<hostMap, owner, raced, evicted, key, req, sess>>
        /\ pc[h] \in Working
    BY <1>5 DEF Touch, Comp, SetArg, Call, Store, Working
  <2>2. pc'[h] \in Working /\ \A g \in Handlers : g # h => pc'[g] = pc[g]
    BY <1>0, <1>5 DEF TypeOK, Touch, Comp, SetArg, Call, Store, Working
  <2>3. QED
    BY <2>1, <2>2, KeysKept
<1>6. ASSUME NEW h \in Handlers, Reply(h) PROVE KeysPrivate' /\ PrivateSession'
  <2>1. \A g \in Handlers :
           /\ pc'[g] = IF g = h THEN "off" ELSE pc[g]
           /\ g # h => req'[g] = req[g] /\ sess'[g] = sess[g]
    BY <1>0, <1>6 DEF TypeOK, Reply
  <2>2. Allocating' = Allocating /\ h \notin Allocating
    BY <1>6, <2>1 DEF Allocating, Reply
  <2>3. req[h].client \in Clients /\ pc[h] \in Working
    BY <1>0, <1>6 DEF Known, Reply, Working
  <2>4. \A c \in Clients : key'[c] = key[c] \/ (c = req[h].client /\ key'[c] = req[h].key)
    <3>1. key' = key \/ key' = [key EXCEPT ![req[h].client] = req[h].key]
      BY <1>6 DEF Reply
    <3>2. CASE key' = key
      BY <3>2
    <3>3. CASE key' = [key EXCEPT ![req[h].client] = req[h].key]
      BY <1>0, <2>3, <3>3 DEF TypeOK
    <3>4. QED
      BY <3>1, <3>2, <3>3, Zenon
  <2>5. KeysPrivate'
    BY <1>0, <1>6, <2>1, <2>2, <2>3, <2>4 DEF KeysPrivate, Holds, Reply, Working, Allocating
  <2>6. PrivateSession'
    BY <1>0, <1>6, <2>1 DEF PrivateSession, Reply, Working
  <2>7. QED
    BY <2>5, <2>6
<1>7. CASE SweepDelete
  <2>1. sweep \in Slots
    BY <1>0, <1>7, NumSlotsAssumption DEF TypeOK, SweepDelete, Keys, Slots, NewKey
  <2>2. /\ \A j \in Slots : hostMap'[j] = IF j = sweep THEN None ELSE hostMap[j]
        /\ owner[hostMap[sweep]] \in evicted' /\ evicted \subseteq evicted'
        /\ UNCHANGED <<pc, req, sess, key, owner, raced>>
    BY <1>0, <1>7 DEF TypeOK, SweepDelete
  <2>3. \A c \in Clients \ evicted', j \in Slots : Holds(c, j) => Holds(c, j)'
    BY <2>2 DEF Holds
  <2>4. Allocating' = Allocating
    BY <2>2 DEF Allocating
  <2>5. \A g \in Handlers : pc[g] \in Working \cup {"lookup"} => req[g].client \in Clients
    BY <1>0 DEF Known, Working
  <2>6. \A g \in Handlers : pc[g] = "insert" => req[g].key \in Slots
    BY <1>0 DEF Known
  <2>7. \A g \in Handlers : pc'[g] = "insert" =>
           hostMap'[req'[g].key] = None \/ owner'[hostMap'[req'[g].key]] \in raced'
    BY <1>0, <2>2, <2>6 DEF KeysPrivate
  <2>8. KeysPrivate'
    BY <1>0, <2>2, <2>3, <2>4, <2>5, <2>7 DEF KeysPrivate
  <2>9. PrivateSession'
    BY <1>0, <2>2 DEF PrivateSession
  <2>10. QED
    BY <2>8, <2>9
<1>8. ASSUME \/ \E s \in Sessions : Age(s)
             \/ \E k \in Slots : SweepCheck(k)
             \/ MapRace
      PROVE  KeysPrivate' /\ PrivateSession'
  <2>1. UNCHANGED <<hostMap, owner, raced, evicted, key, pc, req, sess>>
    BY <1>8 DEF Age, SweepCheck, MapRace
  <2>2. QED
    BY <2>1, KeysKept
<1>9. QED
  BY <1>1, <1>2, <1>3, <1>4, <1>5, <1>6, <1>7, <1>8 DEF Next, Handle, ClearServer

\* LastForData of a session that one handler has to itself, and that is not
\* between its assignments, holds the last call and its result.
LEMMA AloneSettled ==
    ASSUME SessionInv, NEW h \in Handlers, pc[h] \in Working \ {"call", "store"}, sess[h] \notin mixed
    PROVE  last[sess[h]].arg = last[sess[h]].res /\ ran[sess[h]] = last[sess[h]].arg
<1>1. sess[h] \in Sessions \ mixed
  <2>1. sess[h] \in 1..created
    BY DEF SessionInv, Known
  <2>2. QED
    BY <2>1, MaxSessionsAssumption DEF SessionInv, TypeOK, Sessions
<1>2. \A g \in Handlers : sess[g] = sess[h] => pc[g] \notin {"call", "store"}
  BY DEF SessionInv, Exclusive, Working
<1>3. QED
  BY <1>1, <1>2 DEF SessionInv, DataTrue, Settled

\* Every step keeps the handlers of an unshared session apart and its data in
\* step with them.
LEMMA DataStep ==
    ASSUME SessionInv, Next
    PROVE  Exclusive' /\ DataTrue'
<1> USE DEF handlerVars, clientVars, history
<1>0. TypeOK /\ Known /\ Exclusive /\ DataTrue
  BY DEF SessionInv
<1>1. \A h \in Handlers : /\ pc[h] \in Working => sess[h] \in Sessions
                          /\ pc[h] \notin Working => sess[h] \notin Sessions
  BY <1>0 DEF TypeOK, Known, Sessions, None
<1>2. ASSUME UNCHANGED <<last, ran, mixed>>,
             \A h \in Handlers :
                \/ pc'[h] = pc[h] /\ sess'[h] = sess[h] /\ req'[h] = req[h] /\ ret'[h] = ret[h]
                \/ /\ pc[h] \notin {"call", "store"} /\ pc'[h] \notin Working /\ sess'[h] = None
      PROVE  Exclusive' /\ DataTrue'
  <2>1. Exclusive'
    BY <1>0, <1>2 DEF Exclusive
  <2>2. ASSUME NEW s \in Sessions \ mixed' PROVE Settled(s)'
    <3>1. Settled(s) /\ s # None
      BY <1>0, <1>2, <2>2 DEF DataTrue, Sessions, None
    <3>2. QED
      BY <1>2, <3>1 DEF Settled
  <2>3. ASSUME NEW h \in Handlers, pc'[h] \in Working, sess'[h] \notin mixed' PROVE InStep(h)'
    <3>1. pc[h] \in Working /\ sess[h] \notin mixed /\ pc'[h] = pc[h]
          /\ sess'[h] = sess[h] /\ req'[h] = req[h] /\ ret'[h] = ret[h]
      BY <1>2, <2>3
    <3>2. InStep(h)
      BY <1>0, <3>1 DEF DataTrue
    <3>3. QED
      BY <1>2, <3>1, <3>2 DEF InStep
  <2>4. QED
    BY <2>1, <2>2, <2>3 DEF DataTrue
\* A handler takes session u up: it was created for it, or nobody used it, or
\* it is mixed from now on.
<1>3. ASSUME NEW h \in Handlers, NEW u \in Sessions, pc[h] \notin Working,
             UNCHANGED <<last, ran, req, ret>>,
             pc' = [pc EXCEPT ![h] = "touch"], sess' = [sess EXCEPT ![h] = u],
             mixed' \in {mixed, mixed \cup {u}},
             Using(u) = {} \/ u \in mixed'
      PROVE  Exclusive' /\ DataTrue'
  <2>1. \A g \in Handlers : /\ pc'[g] = IF g = h THEN "touch" ELSE pc[g]
                            /\ sess'[g] = IF g = h THEN u ELSE sess[g]
    BY <1>0, <1>3 DEF TypeOK
  <2>2. Exclusive'
    BY <1>0, <1>3, <2>1 DEF Exclusive, Using
  <2>3. mixed \subseteq mixed'
    BY <1>3
  <2>4. ASSUME NEW s \in Sessions \ mixed' PROVE Settled(s)'
    <3>1. Settled(s) /\ sess[h] # s
      BY <1>0, <1>1, <1>3, <2>3, <2>4 DEF DataTrue
    <3>2. QED
      BY <1>3, <2>1, <3>1 DEF Settled
  <2>5. ASSUME NEW g \in Handlers, pc'[g] \in Working, sess'[g] \notin mixed' PROVE InStep(g)'
    <3>1. CASE g = h
      BY <2>1, <3>1 DEF InStep
    <3>2. CASE g # h
      <4>1. InStep(g)
        BY <1>0, <2>1, <2>3, <2>5, <3>2 DEF DataTrue
      <4>2. QED
        BY <1>3, <2>1, <3>2, <4>1 DEF InStep
    <3>3. QED
      BY <3>1, <3>2
  <2>6. QED
    BY <2>2, <2>4, <2>5 DEF DataTrue
\* A handler at work takes its next step on session u: it leaves the data of
\* the others alone.
<1>4. ASSUME NEW h \in Handlers, pc[h] \in Working, pc'[h] \in Working,
             UNCHANGED <<sess, req, mixed>>,
             \A g \in Handlers : g # h => pc'[g] = pc[g] /\ ret'[g] = ret[g],
             \A s \in Sessions : s # sess[h] => last'[s] = last[s] /\ ran'[s] = ran[s],
             sess[h] \notin mixed => InStep(h)' /\ Settled(sess[h])'
      PROVE  Exclusive' /\ DataTrue'
  <2>1. Exclusive'
    BY <1>0, <1>4 DEF Exclusive
  <2>2. ASSUME NEW s \in Sessions \ mixed' PROVE Settled(s)'
    <3>1. CASE s = sess[h]
      <4>1. Settled(sess[h])'
        BY <1>4, <2>2, <3>1
      <4>2. QED
        BY <1>4, <3>1, <4>1 DEF Settled
    <3>2. CASE s # sess[h]
      BY <1>0, <1>4, <2>2, <3>2 DEF DataTrue, Settled
    <3>3. QED
      BY <3>1, <3>2
  <2>3. ASSUME NEW g \in Handlers, pc'[g] \in Working, sess'[g] \notin mixed' PROVE InStep(g)'
    <3>1. CASE g = h
      BY <1>4, <2>3, <3>1
    <3>2. CASE g # h
      <4>1. pc[g] \in Working /\ sess[g] \notin mixed /\ sess[g] # sess[h] /\ sess[g] \in Sessions
        BY <1>0, <1>1, <1>4, <2>3, <3>2 DEF Exclusive
      <4>2. InStep(g)
        BY <1>0, <4>1 DEF DataTrue
      <4>3. QED
        BY <1>4, <3>2, <4>1, <4>2 DEF InStep
    <3>3. QED
      BY <3>1, <3>2
  <2>4. QED
    BY <2>1, <2>2, <2>3 DEF DataTrue
<1>5. ASSUME NEW h \in Handlers, NEW c \in Clients, NEW p \in Payloads, Recv(h, c, p)
      PROVE  Exclusive' /\ DataTrue'
  <2>1. UNCHANGED <<last, ran, mixed, sess, ret>> /\ sess[h] = None
    BY <1>0, <1>5 DEF Recv, Known, Working
  <2>2. pc[h] \notin {"call", "store"} /\ pc'[h] \notin Working
    BY <1>0, <1>5 DEF Recv, TypeOK, Working
  <2>3. \A g \in Handlers : g # h => pc'[g] = pc[g] /\ req'[g] = req[g]
    BY <1>0, <1>5 DEF Recv, TypeOK
  <2>4. QED
    BY <1>2, <2>1, <2>2, <2>3
<1>6. ASSUME NEW h \in Handlers, Lookup(h) PROVE Exclusive' /\ DataTrue'
  <2>1. pc[h] = "lookup" /\ pc[h] \notin Working /\ pc[h] \notin {"call", "store"}
        /\ UNCHANGED <<last, ran, req, ret>> /\ sess[h] = None
    BY <1>0, <1>6 DEF Lookup, Working, Known
  <2>2. CASE UNCHANGED <<sess, mixed>> /\ pc' = [pc EXCEPT ![h] = "scan"]
    <3>1. \A g \in Handlers : pc'[g] = IF g = h THEN "scan" ELSE pc[g]
      BY <1>0, <2>2 DEF TypeOK
    <3>2. pc'[h] \notin Working
      BY <3>1 DEF Working
    <3>3. QED
      BY <1>2, <2>1, <2>2, <3>1, <3>2
  <2>3. CASE /\ InMap(req[h].key) # None
             /\ sess' = [sess EXCEPT ![h] = InMap(req[h].key)]
             /\ pc' = [pc EXCEPT ![h] = "touch"]
             /\ mixed' = IF Using(InMap(req[h].key)) = {} THEN mixed ELSE mixed \cup {InMap(req[h].key)}
    <3>1. PICK u \in Sessions : u = InMap(req[h].key)
      BY <1>0, <2>3 DEF TypeOK, InMap
    <3>2. sess' = [sess EXCEPT ![h] = u] /\ mixed' = IF Using(u) = {} THEN mixed ELSE mixed \cup {u}
      BY <2>3, <3>1
    <3>3. mixed' \in {mixed, mixed \cup {u}} /\ (Using(u) = {} \/ u \in mixed')
      BY <3>2
    <3>4. QED
      BY <1>3, <2>1, <2>3, <3>2, <3>3
  <2>4. QED
    BY <1>6, <2>2, <2>3 DEF Lookup
<1>7. ASSUME NEW h \in Handlers, Scan(h) PROVE Exclusive' /\ DataTrue'
  <2>1. UNCHANGED <<last, ran, mixed, sess, ret>> /\ sess[h] = None /\ pc[h] \notin {"call", "store"}
    BY <1>0, <1>7 DEF Scan, Known, Working
  <2>2. pc'[h] \notin Working /\ \A g \in Handlers : g # h => pc'[g] = pc[g] /\ req'[g] = req[g]
    BY <1>0, <1>7 DEF Scan, TypeOK, Working
  <2>3. QED
    BY <1>2, <2>1, <2>2
<1>8. ASSUME NEW h \in Handlers, Insert(h) PROVE Exclusive' /\ DataTrue'
  <2>1. PICK u \in Sessions : u = created + 1
    BY <1>8, RoomForOne DEF Insert, Searching
  <2>2. /\ pc' = [pc EXCEPT ![h] = "touch"] /\ sess' = [sess EXCEPT ![h] = u]
        /\ UNCHANGED <<last, ran, req, ret, mixed>> /\ pc[h] \notin Working
    BY <1>8, <2>1 DEF Insert, Working
  <2>3. Using(u) = {}
    BY <1>0, <2>1 DEF Using, Known, TypeOK
  <2>4. mixed' \in {mixed, mixed \cup {u}}
    BY <2>2
  <2>5. QED
    BY <1>3, <2>2, <2>3, <2>4
<1>9. ASSUME NEW h \in Handlers, Touch(h) PROVE Exclusive' /\ DataTrue'
  <2>1. /\ UNCHANGED <<last, ran, mixed, sess, req, ret>>
        /\ pc[h] = "touch" /\ pc[h] \in Working /\ pc'[h] = "comp" /\ pc'[h] \in Working
        /\ \A g \in Handlers : g # h => pc'[g] = pc[g]
    BY <1>0, <1>9 DEF Touch, TypeOK, Working
  <2>2. InStep(h)'
    BY <2>1 DEF InStep
  <2>3. sess[h] \notin mixed => Settled(sess[h])'
    BY <1>9, <2>1, AloneSettled DEF Settled
  <2>4. QED
    BY <1>4, <2>1, <2>2, <2>3
<1>10. ASSUME NEW h \in Handlers, Comp(h) PROVE Exclusive' /\ DataTrue'
  <2>1. /\ UNCHANGED <<last, ran, mixed, sess, req, ret>>
        /\ pc[h] = "comp" /\ pc[h] \in Working /\ pc'[h] \in Working
        /\ pc'[h] = IF last[sess[h]].arg = req[h].arg THEN "reply" ELSE "set"
        /\ \A g \in Handlers : g # h => pc'[g] = pc[g]
    BY <1>0, <1>10 DEF Comp, TypeOK, Working
  <2>2. sess[h] \notin mixed => InStep(h)'
    BY <2>1, AloneSettled DEF InStep
  <2>3. sess[h] \notin mixed => Settled(sess[h])'
    BY <2>1, AloneSettled DEF Settled
  <2>4. QED
    BY <1>4, <2>1, <2>2, <2>3
<1>11. ASSUME NEW h \in Handlers, SetArg(h) PROVE Exclusive' /\ DataTrue'
  <2>1. /\ UNCHANGED <<ran, mixed, sess, req, ret>>
        /\ pc[h] = "set" /\ pc[h] \in Working /\ pc'[h] = "call" /\ pc'[h] \in Working
        /\ \A g \in Handlers : g # h => pc'[g] = pc[g]
    BY <1>0, <1>11 DEF SetArg, TypeOK, Working
  <2>2. sess[h] \in Sessions
    BY <1>1, <2>1
  <2>3. /\ last'[sess[h]].arg = req[h].arg
        /\ \A s \in Sessions : s # sess[h] => last'[s] = last[s]
    BY <1>0, <1>11, <2>2 DEF SetArg, TypeOK
  <2>4. sess[h] \notin mixed => ran[sess[h]] # req[h].arg
    BY <1>0, <2>1, AloneSettled DEF DataTrue, InStep
  <2>5. sess[h] \notin mixed => InStep(h)'
    BY <2>1, <2>3, <2>4 DEF InStep
  <2>6. Settled(sess[h])'
    BY <2>1 DEF Settled
  <2>7. QED
    BY <1>4, <2>1, <2>3, <2>5, <2>6
<1>12. ASSUME NEW h \in Handlers, Call(h) PROVE Exclusive' /\ DataTrue'
  <2>1. /\ UNCHANGED <<last, mixed, sess, req>>
        /\ pc[h] = "call" /\ pc[h] \in Working /\ pc'[h] = "store" /\ pc'[h] \in Working
        /\ \A g \in Handlers : g # h => pc'[g] = pc[g] /\ ret'[g] = ret[g]
    BY <1>0, <1>12 DEF Call, TypeOK, Working
  <2>2. sess[h] \in Sessions
    BY <1>1, <2>1
  <2>3. /\ ret'[h] = last[sess[h]].arg /\ ran'[sess[h]] = last[sess[h]].arg
        /\ \A s \in Sessions : s # sess[h] => ran'[s] = ran[s]
    BY <1>0, <1>12, <2>2 DEF Call, TypeOK
  <2>4. sess[h] \notin mixed => last[sess[h]].arg = req[h].arg
    BY <1>0, <2>1 DEF DataTrue, InStep
  <2>5. sess[h] \notin mixed => InStep(h)'
    BY <2>1, <2>3, <2>4 DEF InStep
  <2>6. Settled(sess[h])'
    BY <2>1 DEF Settled
  <2>7. QED
    BY <1>4, <2>1, <2>3, <2>5, <2>6
<1>13. ASSUME NEW h \in Handlers, Store(h) PROVE Exclusive' /\ DataTrue'
  <2>1. /\ UNCHANGED <<ran, mixed, sess, req, ret>>
        /\ pc[h] = "store" /\ pc[h] \in Working /\ pc'[h] = "reply" /\ pc'[h] \in Working
        /\ \A g \in Handlers : g # h => pc'[g] = pc[g]
    BY <1>0, <1>13 DEF Store, TypeOK, Working
  <2>2. sess[h] \in Sessions
    BY <1>1, <2>1
  <2>3. /\ last'[sess[h]].res = ret[h] /\ last'[sess[h]].arg = last[sess[h]].arg
        /\ \A s \in Sessions : s # sess[h] => last'[s] = last[s]
    BY <1>0, <1>13, <2>2 DEF Store, TypeOK
  <2>4. sess[h] \notin mixed =>
           last[sess[h]].arg = req[h].arg /\ ran[sess[h]] = req[h].arg /\ ret[h] = req[h].arg
    BY <1>0, <2>1 DEF DataTrue, InStep
  <2>5. sess[h] \notin mixed => InStep(h)'
    BY <2>1, <2>3, <2>4 DEF InStep
  <2>6. sess[h] \notin mixed => Settled(sess[h])'
    BY <2>1, <2>3, <2>4 DEF Settled
  <2>7. QED
    BY <1>4, <2>1, <2>3, <2>5, <2>6
<1>14. ASSUME NEW h \in Handlers, Reply(h) PROVE Exclusive' /\ DataTrue'
  <2>1. /\ UNCHANGED <<last, ran, mixed>> /\ pc[h] \notin {"call", "store"}
        /\ pc'[h] \notin Working /\ sess'[h] = None
    BY <1>0, <1>14 DEF Reply, TypeOK, Working
  <2>2. \A g \in Handlers : g # h =>
           pc'[g] = pc[g] /\ sess'[g] = sess[g] /\ req'[g] = req[g] /\ ret'[g] = ret[g]
    BY <1>0, <1>14 DEF Reply, TypeOK
  <2>3. QED
    BY <1>2, <2>1, <2>2
<1>15. ASSUME \/ \E s \in Sessions : Age(s)
              \/ ClearServer
              \/ MapRace
       PROVE  Exclusive' /\ DataTrue'
  <2>1. UNCHANGED <<last, ran, mixed, pc, req, sess, ret>>
    BY <1>15 DEF Age, ClearServer, SweepCheck, SweepDelete, MapRace
  <2>2. QED
    BY <1>2, <2>1
<1>16. QED
  BY <1>5, <1>6, <1>7, <1>8, <1>9, <1>10, <1>11, <1>12, <1>13, <1>14, <1>15 DEF Next, Handle

-----------------------------------------------------------------------------
\* The invariant of the sessions.
THEOREM SessionInvariant == Spec => []SessionInv
<1>1. SessionInv /\ [Next]_vars => SessionInv'
  <2> SUFFICES ASSUME SessionInv, [Next]_vars PROVE SessionInv'
    OBVIOUS
  <2>1. CASE Next
    BY <2>1, SessionTypeStep, RoomStep, KeysStep, DataStep DEF SessionInv
  <2>2. CASE UNCHANGED vars
    BY <2>2 DEF vars, handlerVars, clientVars, history, SessionInv, TypeOK, Known, Room,
                KeysPrivate, Holds, Allocating, PrivateSession, Exclusive, DataTrue, Settled, InStep
  <2>3. QED
    BY <2>1, <2>2
<1>2. QED
  BY <1>1, SessionInit, PTL DEF Spec

\* GetHost never hands a request the session of another client, however the
\* goroutines interleave, unless two allocations overlapped or ClearServer
\* deleted a session of this client.
THEOREM PrivateSessionHolds == Spec => []PrivateSession
<1>1. SessionInv => PrivateSession
  BY DEF SessionInv
<1>2. QED
  BY <1>1, SessionInvariant, PTL

\* The reply GetRecvData sends is the result of the request it answers, on every
\* session that no two handlers shared.
THEOREM ReplyIsOwnHolds == Spec => []ReplyIsOwn
<1>1. SessionInv => ReplyIsOwn
  <2> SUFFICES ASSUME SessionInv, NEW h \in Handlers, pc[h] = "reply", sess[h] \notin mixed
               PROVE  last[sess[h]].res = req[h].arg
    BY DEF ReplyIsOwn
  <2>1. QED
    BY DEF SessionInv, DataTrue, InStep, Working
<1>2. QED
  BY <1>1, SessionInvariant, PTL

\* compByte keeps f from running twice for one payload: no call repeats the one
\* before it on a session that no two handlers shared.
THEOREM RetryRunsOnceHolds == Spec => RetryRunsOnce
<1>1. SessionInv => \A h \in Handlers :
         pc[h] = "call" /\ pc'[h] = "store" /\ sess[h] \notin mixed =>
             ran[sess[h]] # last[sess[h]].arg
  BY DEF SessionInv, DataTrue, InStep, Working
<1>2. QED
  BY <1>1, SessionInvariant, PTL DEF RetryRunsOnce

-----------------------------------------------------------------------------
(* TableReports.                                                           *)

Newest == seeList[Len(seeList)]

-----------------------------------------------------------------------------
\* The shapes of the screen, the reports and the counters.
TableTypes ==
    /\ turn \in 0 .. 3 /\ eyes \in 0 .. 3
    /\ shown \in Faces \cup {T!None} /\ wall \in Nat /\ lastn \in Nat
    /\ lastData = T!Own \/ lastData \in T!Other \X Nat \X (Faces \cup {T!None})
    /\ seeList \in Seq(T!Other \X Nat \X Faces)
    /\ see \in [T!Other -> [Faces -> Nat]] /\ caughts \in [T!Other -> [Faces -> Nat]]
    /\ down \in [T!Other -> [Faces -> {0, 2}]]
    /\ looked \in BOOLEAN /\ caught \in BOOLEAN /\ skipped \in BOOLEAN /\ hidden \in BOOLEAN

\* What the last look left behind: a report with the present wall is of the
\* player reported last, and so is a discard kept in lastn.
LastLook ==
    /\ caught => shown # T!None
    /\ turn = T!Self /\ shown # T!None => hidden
    /\ lastData # T!Own =>
          /\ lastData[2] >= wall
          /\ lastData[2] = wall => eyes = lastData[1] /\ turn # T!Self
    /\ lastn >= 4 => eyes = lastn \div 256
    /\ seeList # <<>> => Newest[2] >= wall
    /\ caught /\ turn # T!Self =>
          (lastn >= 4 /\ lastn \div 256 = turn) \/ lastData = <<turn, wall, shown>>

\* Before the discard of a turn was looked at it has not been reported ...
Fresh ==
    ~skipped /\ looked /\ ~caught /\ turn # T!Self =>
        lastn = turn /\ \A t \in Faces : lastData # <<turn, wall, t>>

\* ... and after it was looked at it is the newest one in SeeList.
Reported ==
    ~skipped /\ caught /\ turn # T!Self =>
        /\ lastn = 256 * turn + shown /\ lastData = <<turn, wall, shown>>
        /\ seeList # <<>> /\ Newest = <<turn, wall, shown>>

\* The player whose turn it is has taken the newest discard of SeeList if the
\* wall has not changed since.
Taken ==
    ~skipped /\ ~hidden /\ shown = T!None /\ seeList # <<>> =>
        Newest[1] # turn /\ (Newest[2] = wall => <<turn, Newest[3]>> \in took)

\* A claim of a reported discard, until the next discard or tile drawn.
Claimed ==
    ~skipped /\ claim # T!NoClaim =>
        \E m \in T!Other, t \in Faces :
            /\ claim = <<m, t>> /\ shown = T!None /\ m # turn
            /\ seeList # <<>> /\ Newest = <<m, wall, t>>
            /\ turn # T!Self /\ ~looked => lastn = 256 * m + t /\ lastData = <<m, wall, t>>

TableInv ==
    /\ TableTypes /\ LastLook /\ Fresh /\ Reported /\ Taken /\ Claimed
    /\ T!ClaimMarked /\ CountedOnce

-----------------------------------------------------------------------------
\* The codes of tiles are no players' numbers times 256.
LEMMA Codes ==
    /\ Faces \subseteq Nat /\ T!None \notin Faces /\ T!None \notin Nat
    /\ \A n \in 0 .. 3, t \in Faces : (256 * n + t) \div 256 = n /\ 256 * n + t \in Nat
    /\ \A n \in 0 .. 3, t \in Faces : 256 * n + t < 4 => n = 0
<1>1. \A n \in 0 .. 3, t \in 0 .. 26 : (256 * n + t) \div 256 = n /\ 256 * n + t \in Nat
  OBVIOUS
<1>2. \A n \in 0 .. 3, t \in 0 .. 26 : 256 * n + t < 4 => n = 0
  OBVIOUS
<1>3. Faces \subseteq 0 .. 26
  BY PartsAssumption
<1>4. T!None \notin Nat
  BY DEF T!None
<1>5. Faces \subseteq Nat /\ T!None \notin Faces
  <2>1. \A t \in 0 .. 26 : t \in Nat
    OBVIOUS
  <2>2. \A t \in Faces : t \in Nat
    BY <1>3, <2>1, Zenon
  <2>3. QED
    BY <1>4, <2>2, Zenon
<1>6. \A n \in 0 .. 3, t \in Faces : (256 * n + t) \div 256 = n /\ 256 * n + t \in Nat
  <2> SUFFICES ASSUME NEW n \in 0 .. 3, NEW t \in Faces
               PROVE  (256 * n + t) \div 256 = n /\ 256 * n + t \in Nat
    OBVIOUS
  <2>1. t \in 0 .. 26
    BY <1>3
  <2>2. QED
    BY <1>1, <2>1, Zenon
<1>7. \A n \in 0 .. 3, t \in Faces : 256 * n + t < 4 => n = 0
  <2> SUFFICES ASSUME NEW n \in 0 .. 3, NEW t \in Faces PROVE 256 * n + t < 4 => n = 0
    OBVIOUS
  <2>1. t \in 0 .. 26
    BY <1>3
  <2>2. QED
    BY <1>2, <2>1, Zenon
<1>8. QED
  BY <1>4, <1>5, <1>6, <1>7

\* A set of indices of a sequence has a last one.
LEMMA MaxMember ==
    ASSUME NEW n \in Nat, NEW I \in SUBSET (1 .. n), I # {}
    PROVE  T!Max(I) \in I /\ \A j \in I : T!Max(I) >= j
<1> DEFINE D == {n - i : i \in I}
<1>1. D \in SUBSET Nat /\ D # {}
  <2>1. \A i \in I : n - i \in Nat
    OBVIOUS
  <2>2. PICK i \in I : TRUE
    OBVIOUS
  <2>3. n - i \in D
    OBVIOUS
  <2>4. QED
    BY <2>1, <2>3
<1>2. PICK d \in D : \A y \in D : ~(<<y, d>> \in OpToRel(<, Nat))
  BY <1>1, NatLessThanWellFounded, WFMin
<1>3. \A y \in D : d <= y
  <2> SUFFICES ASSUME NEW y \in D, ~(d <= y) PROVE FALSE
    OBVIOUS
  <2>0. y \in Nat /\ d \in Nat /\ y < d
    <3>1. y \in Nat /\ d \in Nat
      BY <1>1, <1>2
    <3>2. QED
      BY <3>1
  <2>1. <<y, d>> \in {ss \in Nat \X Nat : ss[1] < ss[2]}
    BY <2>0
  <2>2. QED
    BY <1>2, <2>1, Zenon DEF OpToRel
<1>4. PICK i \in I : d = n - i
  BY <1>2
<1>5. \A j \in I : i >= j
  <2> SUFFICES ASSUME NEW j \in I PROVE i >= j
    OBVIOUS
  <2>1. d <= n - j
    BY <1>3
  <2>2. QED
    BY <1>4, <2>1
<1>6. \E x \in I : \A j \in I : x >= j
  BY <1>5
<1>7. QED
  BY <1>6, Zenon DEF T!Max

\* SetSeeList looks at the last report of another player, if there is one.
LEMMA LastOther ==
    ASSUME TableTypes, NEW n, NEW i,
           i = LET I == {j \in 1 .. Len(seeList) : seeList[j][1] # n}
               IN  IF I # {} THEN T!Max(I) ELSE 0
    PROVE  /\ i = 0 \/ i \in 1 .. Len(seeList)
           /\ seeList # <<>> /\ Newest[1] # n => i = Len(seeList) /\ i > 0
           /\ seeList = <<>> => i = 0
<1> DEFINE I == {j \in 1 .. Len(seeList) : seeList[j][1] # n}
<1>1. i = IF I # {} THEN T!Max(I) ELSE 0
  OBVIOUS
<1>2. Len(seeList) \in Nat /\ (seeList # <<>> <=> Len(seeList) > 0)
  BY DEF TableTypes
<1>3. I # {} => T!Max(I) \in I /\ \A j \in I : T!Max(I) >= j
  <2> SUFFICES ASSUME I # {} PROVE T!Max(I) \in I /\ \A j \in I : T!Max(I) >= j
    OBVIOUS
  <2>1. I \in SUBSET (1 .. Len(seeList))
    OBVIOUS
  <2> HIDE DEF I
  <2>2. QED
    BY <1>2, <2>1, MaxMember
<1>4. i = 0 \/ i \in 1 .. Len(seeList)
  BY <1>1, <1>3
<1>5. ASSUME seeList # <<>>, Newest[1] # n PROVE i = Len(seeList) /\ i > 0
  <2>1. Len(seeList) \in I
    BY <1>2, <1>5 DEF Newest
  <2>2. i \in I /\ i >= Len(seeList)
    BY <1>1, <1>3, <2>1
  <2>3. QED
    BY <1>2, <2>2
<1>6. seeList = <<>> => i = 0
  BY <1>2, <1>4
<1>7. QED
  BY <1>4, <1>5, <1>6

-----------------------------------------------------------------------------
\* The game begins.
LEMMA TableInit == T!Init => TableInv
<1> SUFFICES ASSUME T!Init PROVE TableInv
  OBVIOUS
<1> USE DEF T!Init
<1>1. TableTypes
  <2>1. looked \in BOOLEAN /\ caught \in BOOLEAN /\ skipped \in BOOLEAN /\ hidden \in BOOLEAN
    BY Zenon
  <2>2. see \in [T!Other -> [Faces -> Nat]] /\ caughts \in [T!Other -> [Faces -> Nat]]
        /\ down \in [T!Other -> [Faces -> {0, 2}]]
    BY DEF T!Zero
  <2>3. wall \in Nat
    BY PartsAssumption
  <2>4. QED
    BY <2>1, <2>2, <2>3 DEF TableTypes, T!Self
<1>2. LastLook /\ Fresh /\ Reported /\ Taken /\ Claimed /\ T!ClaimMarked
  BY DEF LastLook, Fresh, Reported, Taken, Claimed, T!ClaimMarked, T!Self
<1>3. CountedOnce
  BY DEF CountedOnce, T!CountedOnce, T!Zero
<1>4. QED
  BY <1>1, <1>2, <1>3 DEF TableInv

\* A discard: nothing has been reported of it.
LEMMA DiscardStep ==
    ASSUME TableInv, NEW t \in Faces, T!Discard(t)
    PROVE  TableInv'
<1>0. TableTypes /\ LastLook /\ Fresh /\ CountedOnce
  BY DEF TableInv
<1>1. /\ UNCHANGED <<turn, wall, took, seeList, see, down, looked, caughts, skipped>>
      /\ shown = T!None /\ shown' = t /\ claim' = T!NoClaim /\ ~caught'
      /\ \/ turn = T!Self /\ lastn' = T!Self /\ lastData' = T!Own /\ eyes' = T!Self
         \/ turn # T!Self /\ UNCHANGED <<lastn, lastData, eyes>>
  BY DEF T!Discard, T!Asks
<1>2. caught' \in BOOLEAN /\ hidden' \in BOOLEAN /\ (turn = T!Self => hidden')
  BY Zenon DEF T!Discard
<1>3. t # T!None
  BY Codes
<1>4. ~caught
  BY <1>0, <1>1 DEF LastLook
<1>5. TableTypes'
  BY <1>0, <1>1, <1>2 DEF TableTypes, T!Self
<1>6. LastLook'
  BY <1>0, <1>1, <1>2 DEF LastLook, T!Self, Newest
<1>7. Fresh'
  BY <1>0, <1>1, <1>4 DEF Fresh
<1>8. Reported' /\ Taken' /\ Claimed' /\ T!ClaimMarked'
  BY <1>1, <1>3 DEF Reported, Taken, Claimed, T!ClaimMarked
<1>9. CountedOnce'
  BY <1>0, <1>1 DEF CountedOnce, T!CountedOnce
<1>10. QED
  BY <1>5, <1>6, <1>7, <1>8, <1>9 DEF TableInv

\* The end of a turn whose discard was reported.
LEMMA PassReported ==
    ASSUME TableInv, NEW p, T!Pass(p)
    PROVE  /\ turn' = p /\ shown' = T!None /\ shown # T!None /\ ~looked' /\ ~caught'
           /\ looked' \in BOOLEAN /\ caught' \in BOOLEAN /\ hidden' \in BOOLEAN
           /\ ~hidden' => turn # T!Self /\ caught
<1>1. turn' = p /\ shown' = T!None /\ shown # T!None /\ ~looked' /\ ~caught'
  BY DEF T!Pass
<1>2. looked' \in BOOLEAN /\ caught' \in BOOLEAN /\ hidden' \in BOOLEAN /\ (~hidden' => ~hidden /\ caught)
  BY Zenon DEF T!Pass
<1>3. QED
  BY <1>1, <1>2 DEF TableInv, LastLook

\* The next player draws: the wall shows that nobody has taken the discard.
LEMMA DrawStep ==
    ASSUME TableInv, T!Draw
    PROVE  TableInv'
<1>0. TableTypes /\ LastLook /\ Reported /\ CountedOnce
  BY DEF TableInv
<1>1. /\ UNCHANGED <<took, lastn, lastData, seeList, see, down, eyes, caughts, skipped>>
      /\ wall' = wall - 1 /\ wall' \in Nat /\ claim' = T!NoClaim
  BY <1>0 DEF T!Draw, T!server, TableTypes
<1>2. /\ turn' \in 0 .. 3 /\ turn' # turn /\ shown' = T!None /\ ~looked' /\ ~caught'
      /\ looked' \in BOOLEAN /\ caught' \in BOOLEAN /\ hidden' \in BOOLEAN
      /\ ~hidden' => turn # T!Self /\ caught
  <2>1. (turn + 1) % 4 \in 0 .. 3 /\ (turn + 1) % 4 # turn
    <3>1. \A n \in 0 .. 3 : (n + 1) % 4 \in 0 .. 3 /\ (n + 1) % 4 # n
      OBVIOUS
    <3>2. QED
      BY <1>0, <3>1 DEF TableTypes
  <2>2. T!Pass((turn + 1) % 4)
    BY DEF T!Draw
  <2>3. QED
    BY <2>1, <2>2, PassReported
<1>3. TableTypes'
  BY <1>0, <1>1, <1>2 DEF TableTypes
<1>4. LastLook'
  <2>1. lastData # T!Own => lastData[2] \in Nat /\ lastData[2] >= wall
    BY <1>0 DEF TableTypes, LastLook
  <2>2. seeList # <<>> => Newest[2] \in Nat /\ Newest[2] >= wall
    BY <1>0 DEF TableTypes, LastLook, Newest
  <2>3. wall \in Nat
    BY <1>0 DEF TableTypes
  <2>4. QED
    BY <1>0, <1>1, <1>2, <2>1, <2>2, <2>3 DEF LastLook, Newest
<1>5. Fresh' /\ Reported' /\ Claimed' /\ T!ClaimMarked'
  BY <1>1, <1>2 DEF Fresh, Reported, Claimed, T!ClaimMarked
<1>6. Taken'
  <2> SUFFICES ASSUME ~skipped, ~hidden' PROVE Newest[1] # turn' /\ Newest[2] # wall'
    BY <1>1 DEF Taken, Newest
  <2>1. Newest = <<turn, wall, shown>>
    BY <1>0, <1>2 DEF Reported
  <2>2. QED
    BY <1>0, <1>1, <1>2, <2>1 DEF TableTypes
<1>7. CountedOnce'
  BY <1>0, <1>1 DEF CountedOnce, T!CountedOnce
<1>8. QED
  BY <1>3, <1>4, <1>5, <1>6, <1>7 DEF TableInv

\* Another player takes the discard.
LEMMA ClaimStep ==
    ASSUME TableInv, NEW p \in 0 .. 3, T!Claim(p)
    PROVE  TableInv'
<1>0. TableTypes /\ LastLook /\ Reported /\ CountedOnce
  BY DEF TableInv
<1>1. /\ UNCHANGED <<wall, seeList, see, down, caughts, skipped>> /\ p # turn
      /\ took' = took \cup {<<p, shown>>}
      /\ claim' = IF hidden' THEN T!NoClaim ELSE <<turn, shown>>
      /\ \/ p = T!Self /\ lastn' = T!Self /\ lastData' = T!Own /\ eyes' = T!Self
         \/ p # T!Self /\ UNCHANGED <<lastn, lastData, eyes>>
  BY DEF T!Claim, T!Asks
<1>2. /\ turn' = p /\ shown' = T!None /\ shown # T!None /\ ~looked' /\ ~caught'
      /\ looked' \in BOOLEAN /\ caught' \in BOOLEAN /\ hidden' \in BOOLEAN
      /\ ~hidden' => turn # T!Self /\ caught
  BY PassReported DEF T!Claim
<1>3. TableTypes'
  BY <1>0, <1>1, <1>2 DEF TableTypes, T!Self
<1>4. LastLook'
  BY <1>0, <1>1, <1>2 DEF LastLook, Newest, T!Self
<1>5. Fresh' /\ Reported' /\ T!ClaimMarked'
  BY <1>2 DEF Fresh, Reported, T!ClaimMarked
<1>6. ASSUME ~skipped, ~hidden'
      PROVE  /\ seeList # <<>> /\ Newest = <<turn, wall, shown>> /\ turn \in T!Other /\ shown \in Faces
             /\ lastn = 256 * turn + shown /\ lastData = <<turn, wall, shown>>
  BY <1>0, <1>2, <1>6 DEF Reported, TableTypes, T!Self, T!Other
<1>7. Taken'
  BY <1>1, <1>2, <1>6 DEF Taken, Newest
<1>8. Claimed'
  <2> SUFFICES ASSUME ~skipped, claim' # T!NoClaim
               PROVE  \E m \in T!Other, t \in Faces :
                         /\ claim' = <<m, t>> /\ m # p
                         /\ seeList # <<>> /\ Newest = <<m, wall, t>>
                         /\ p # T!Self => lastn' = 256 * m + t /\ lastData' = <<m, wall, t>>
    BY <1>1, <1>2 DEF Claimed, Newest
  <2>1. ~hidden' /\ claim' = <<turn, shown>>
    BY <1>1
  <2>2. QED
    BY <1>1, <1>6, <2>1
<1>9. CountedOnce'
  BY <1>0, <1>1 DEF CountedOnce, T!CountedOnce
<1>10. QED
  BY <1>3, <1>4, <1>5, <1>7, <1>8, <1>9 DEF TableInv

\* Four of a kind: the wall gets shorter, and no report has it.
LEMMA KongStep ==
    ASSUME TableInv, T!Kong
    PROVE  TableInv'
<1>0. TableTypes /\ LastLook /\ Fresh /\ Taken /\ CountedOnce
  BY DEF TableInv
<1>1. /\ UNCHANGED <<turn, shown, took, lastn, lastData, seeList, see, down, eyes, looked, caught, caughts,
                     skipped, hidden>>
      /\ wall' = wall - 1 /\ wall' \in Nat /\ wall \in Nat /\ claim' = T!NoClaim /\ shown = T!None
  BY <1>0 DEF T!Kong, T!server, TableTypes
<1>2. ~caught
  BY <1>0, <1>1 DEF LastLook
<1>3. lastData # T!Own => lastData[2] \in Nat /\ lastData[2] >= wall
  BY <1>0 DEF TableTypes, LastLook
<1>4. seeList # <<>> => Newest[2] \in Nat /\ Newest[2] >= wall
  BY <1>0 DEF TableTypes, LastLook, Newest
<1>5. TableTypes'
  BY <1>0, <1>1 DEF TableTypes
<1>6. LastLook'
  BY <1>0, <1>1, <1>2, <1>3, <1>4 DEF LastLook, Newest
<1>7. Fresh'
  <2>1. \A t \in Faces : lastData # <<turn, wall', t>>
    BY <1>1, <1>3 DEF T!Own
  <2>2. QED
    BY <1>0, <1>1, <2>1 DEF Fresh
<1>8. Reported' /\ Claimed' /\ T!ClaimMarked'
  BY <1>1, <1>2 DEF Reported, Claimed, T!ClaimMarked
<1>9. Taken'
  BY <1>0, <1>1, <1>4 DEF Taken, Newest
<1>10. CountedOnce'
  BY <1>0, <1>1 DEF CountedOnce, T!CountedOnce
<1>11. QED
  BY <1>5, <1>6, <1>7, <1>8, <1>9, <1>10 DEF TableInv

\* The client looks at its own turn.
LEMMA LookSelfStep ==
    ASSUME TableInv, T!Look, turn = T!Self
    PROVE  TableInv'
<1>0. TableTypes /\ LastLook /\ Taken /\ Claimed /\ CountedOnce
  BY DEF TableInv
<1>1. /\ UNCHANGED <<turn, shown, wall, took, seeList, see, down, caughts, claim>>
      /\ lastn' = T!Self /\ lastData' \in {lastData, T!Own} /\ eyes' = T!Self
  BY DEF T!Look, T!ScreenSelf, T!game
<1>2. /\ looked' \in BOOLEAN /\ caught' \in BOOLEAN /\ hidden' \in BOOLEAN /\ skipped' \in BOOLEAN
      /\ caught' <=> shown # T!None
      /\ skipped => skipped'
      /\ hidden' <=> hidden
  BY Zenon DEF T!Look
<1>3. TableTypes'
  BY <1>0, <1>1, <1>2 DEF TableTypes, T!Self
<1>4. LastLook'
  BY <1>0, <1>1, <1>2 DEF LastLook, Newest, T!Self
<1>5. Fresh' /\ Reported' /\ T!ClaimMarked'
  BY <1>1 DEF Fresh, Reported, T!ClaimMarked
<1>6. Taken'
  BY <1>0, <1>1, <1>2 DEF Taken, Newest
<1>7. Claimed'
  BY <1>0, <1>1, <1>2 DEF Claimed, Newest
<1>8. CountedOnce'
  BY <1>0, <1>1, <1>2 DEF CountedOnce, T!CountedOnce
<1>9. QED
  BY <1>3, <1>4, <1>5, <1>6, <1>7, <1>8 DEF TableInv

\* What a look at another player's turn may do: report, say the same again (the
\* server drops it) or keep quiet.
LEMMA LookCases ==
    ASSUME TableTypes, T!Look, turn # T!Self
    PROVE  LET b == <<turn, wall, shown>>
               sees == /\ lastn < 4 \/ lastn \div 256 # turn
                       /\ shown # T!None \/ lastn # turn
                       /\ lastn' = IF shown # T!None THEN 256 * turn + shown ELSE turn
           IN  /\ turn \in T!Other
               /\ UNCHANGED <<turn, shown, wall, took, claim>>
               /\ \/ /\ sees /\ b # lastData /\ T!SetSeeList(b)
                     /\ lastData' = b /\ eyes' = turn
                  \/ /\ sees /\ b = lastData
                     /\ UNCHANGED <<lastData, seeList, see, down, eyes>>
                  \/ /\ IF lastn < 4 THEN shown = T!None /\ lastn = turn ELSE lastn \div 256 = turn
                     /\ UNCHANGED <<lastn, lastData, seeList, see, down, eyes>>
<1>1. turn \in T!Other
  BY DEF TableTypes, T!Other, T!Self
<1>2. UNCHANGED <<turn, shown, wall, took, claim>> /\ T!ScreenOther
      /\ eyes' = IF lastData' # lastData THEN turn ELSE eyes
  BY DEF T!Look, T!game
<1>3. QED
  BY <1>1, <1>2 DEF T!ScreenOther, T!GetRecvData, T!server

\* What the look notes of itself.
LEMMA LookNotes ==
    ASSUME TableTypes, T!Look, turn # T!Self
    PROVE  /\ looked' \in BOOLEAN /\ caught' \in BOOLEAN /\ skipped' \in BOOLEAN /\ hidden' \in BOOLEAN
           /\ looked' /\ (caught' <=> shown # T!None)
           /\ ~skipped' => ~skipped /\ (looked \/ eyes # turn)
           /\ ~hidden' /\ shown = T!None => ~hidden
           /\ caughts' = IF shown # T!None /\ ~caught
                         THEN [caughts EXCEPT ![turn][shown] = @ + 1] ELSE caughts
<1>1. /\ looked' \in BOOLEAN /\ caught' \in BOOLEAN /\ skipped' \in BOOLEAN /\ hidden' \in BOOLEAN
      /\ looked' /\ (caught' <=> shown # T!None)
      /\ ~skipped' => ~skipped /\ (looked \/ eyes # turn)
      /\ ~hidden' /\ shown = T!None => ~hidden
  BY Zenon DEF T!Look
<1>2. caughts' = IF shown # T!None /\ ~caught
                 THEN [caughts EXCEPT ![turn][shown] = @ + 1] ELSE caughts
  BY DEF T!Look
<1>3. QED
  BY <1>1, <1>2

\* The client looks at a discard that was not looked at, or at one that was.
LEMMA CaughtCounted ==
    ASSUME TableTypes, T!Look, turn # T!Self, see' = see, CountedOnce,
           shown # T!None /\ ~caught => skipped'
    PROVE  CountedOnce'
<1>1. turn \in T!Other
  BY LookCases
<1>2. (~skipped' => ~skipped) /\ caughts' = IF shown # T!None /\ ~caught
                         THEN [caughts EXCEPT ![turn][shown] = @ + 1] ELSE caughts
  BY LookNotes
<1>3. CASE shown # T!None /\ ~caught
  <2>1. skipped'
    BY <1>3
  <2>2. caughts' = [caughts EXCEPT ![turn][shown] = @ + 1]
    BY <1>2, <1>3
  <2>3. SUFFICES ASSUME NEW n \in T!Other, NEW t \in Faces
                 PROVE  see[n][t] <= caughts'[n][t]
    BY <2>1 DEF CountedOnce, T!CountedOnce
  <2>4. caughts[n][t] \in Nat /\ see[n][t] \in Nat /\ see[n][t] <= caughts[n][t]
    BY DEF TableTypes, CountedOnce, T!CountedOnce
  <2>5. caughts'[n][t] = caughts[n][t] \/ caughts'[n][t] = caughts[n][t] + 1
    BY <1>1, <2>2 DEF TableTypes
  <2>6. QED
    BY <2>4, <2>5
<1>4. CASE ~(shown # T!None /\ ~caught)
  BY <1>2, <1>4 DEF CountedOnce, T!CountedOnce
<1>5. QED
  BY <1>3, <1>4

\* The look reports nothing: there is nothing new to see.
LEMMA QuietStep ==
    ASSUME TableInv, T!Look, turn # T!Self,
           IF lastn < 4 THEN shown = T!None /\ lastn = turn ELSE lastn \div 256 = turn,
           UNCHANGED <<lastn, lastData, seeList, see, down, eyes>>
    PROVE  TableInv'
<1>0. TableTypes /\ LastLook /\ Fresh /\ Reported /\ Taken /\ Claimed /\ T!ClaimMarked /\ CountedOnce
  BY DEF TableInv
<1>1. turn \in T!Other /\ UNCHANGED <<turn, shown, wall, took, claim>>
  BY <1>0, LookCases
<1>2. /\ looked' \in BOOLEAN /\ caught' \in BOOLEAN /\ skipped' \in BOOLEAN /\ hidden' \in BOOLEAN
      /\ looked' /\ (caught' <=> shown # T!None)
      /\ ~skipped' => ~skipped /\ (looked \/ eyes # turn)
      /\ ~hidden' /\ shown = T!None => ~hidden
      /\ caughts' = IF shown # T!None /\ ~caught
                    THEN [caughts EXCEPT ![turn][shown] = @ + 1] ELSE caughts
  BY <1>0, LookNotes
<1>3. lastn \in Nat /\ turn \in 0 .. 2 /\ (lastn >= 4 <=> ~(lastn < 4))
  BY <1>0, <1>1 DEF TableTypes, T!Other
<1>4. lastn >= 4 => eyes = turn
  BY <1>0, <1>3 DEF LastLook
<1>5. shown # T!None /\ ~caught => skipped'
  <2> SUFFICES ASSUME shown # T!None, ~caught, ~skipped' PROVE FALSE
    OBVIOUS
  <2>1. lastn >= 4 /\ looked /\ ~skipped
    BY <1>2, <1>3, <1>4
  <2>2. QED
    BY <1>0, <1>3, <2>1 DEF Fresh
<1>6. TableTypes'
  BY <1>0, <1>1, <1>2 DEF TableTypes
<1>7. LastLook'
  BY <1>0, <1>1, <1>2, <1>3 DEF LastLook, Newest
<1>8. Fresh'
  <2> SUFFICES ASSUME ~skipped', shown = T!None
               PROVE  lastn = turn /\ \A t \in Faces : lastData # <<turn, wall, t>>
    BY <1>1, <1>2 DEF Fresh
  <2>1. CASE looked
    BY <1>0, <1>2, <2>1 DEF Fresh, LastLook
  <2>2. CASE ~looked
    <3>1. eyes # turn /\ lastn = turn
      BY <1>2, <1>3, <1>4, <2>2
    <3>2. \A t \in Faces : lastData # <<turn, wall, t>>
      BY <1>0, <3>1 DEF LastLook, T!Own
    <3>3. QED
      BY <3>1, <3>2
  <2>3. QED
    BY <2>1, <2>2
<1>9. Reported'
  BY <1>0, <1>1, <1>2, <1>5 DEF Reported, Newest
<1>10. Taken'
  BY <1>0, <1>1, <1>2 DEF Taken, Newest
<1>11. Claimed'
  BY <1>0, <1>1, <1>2 DEF Claimed, Newest
<1>12. T!ClaimMarked'
  <2> SUFFICES ASSUME ~skipped', shown = T!None, claim # T!NoClaim
               PROVE  claim = <<0, turn>> \/ down[turn][claim[2]] = 2
    BY <1>1, <1>2 DEF T!ClaimMarked
  <2>1. CASE looked
    BY <1>0, <1>2, <2>1 DEF T!ClaimMarked
  <2>2. CASE ~looked
    <3>1. PICK m \in T!Other, t \in Faces : claim = <<m, t>> /\ m # turn /\ lastn = 256 * m + t
      BY <1>0, <1>2, <2>2 DEF Claimed
    <3>2. m \in 0 .. 3 /\ t \in Nat
      BY Codes DEF T!Other
    <3>3. (256 * m + t) \div 256 = m /\ (256 * m + t < 4 => m = 0)
      BY <3>2, Codes
    <3>4. lastn < 4
      BY <3>1, <3>3
    <3>5. m = 0 /\ t = turn
      BY <1>3, <3>1, <3>2, <3>3, <3>4
    <3>6. QED
      BY <3>1, <3>5
  <2>3. QED
    BY <2>1, <2>2
<1>13. CountedOnce'
  BY <1>0, <1>5, CaughtCounted
<1>14. QED
  BY <1>6, <1>7, <1>8, <1>9, <1>10, <1>11, <1>12, <1>13 DEF TableInv

\* The look says what was said last, and the server drops it.
LEMMA RepeatStep ==
    ASSUME TableInv, T!Look, turn # T!Self,
           lastn' = IF shown # T!None THEN 256 * turn + shown ELSE turn,
           <<turn, wall, shown>> = lastData,
           UNCHANGED <<lastData, seeList, see, down, eyes>>
    PROVE  TableInv'
<1>0. TableTypes /\ LastLook /\ Fresh /\ Reported /\ Taken /\ Claimed /\ T!ClaimMarked /\ CountedOnce
  BY DEF TableInv
<1>1. turn \in T!Other /\ UNCHANGED <<turn, shown, wall, took, claim>>
  BY <1>0, LookCases
<1>2. /\ looked' \in BOOLEAN /\ caught' \in BOOLEAN /\ skipped' \in BOOLEAN /\ hidden' \in BOOLEAN
      /\ looked' /\ (caught' <=> shown # T!None)
      /\ ~skipped' => ~skipped /\ (looked \/ eyes # turn)
      /\ ~hidden' /\ shown = T!None => ~hidden
      /\ caughts' = IF shown # T!None /\ ~caught
                    THEN [caughts EXCEPT ![turn][shown] = @ + 1] ELSE caughts
  BY <1>0, LookNotes
<1>3. turn \in 0 .. 3 /\ turn \in Nat /\ (shown # T!None => shown \in Faces)
  BY <1>0, <1>1 DEF TableTypes, T!Other
<1>4. eyes = turn
  <2>1. lastData # T!Own /\ lastData[1] = turn /\ lastData[2] = wall
    BY DEF T!Own
  <2>2. QED
    BY <1>0, <2>1 DEF LastLook
<1>5. shown # T!None /\ ~caught => skipped'
  BY <1>0, <1>2, <1>3, <1>4 DEF Fresh
<1>6. lastn' \in Nat /\ (lastn' >= 4 => lastn' \div 256 = turn)
  <2>1. CASE shown # T!None
    <3>1. (256 * turn + shown) \div 256 = turn /\ 256 * turn + shown \in Nat
      BY <1>3, <2>1, Codes, Zenon
    <3>2. lastn' = 256 * turn + shown
      BY <2>1
    <3>3. QED
      BY <3>1, <3>2, Zenon
  <2>2. CASE shown = T!None
    BY <1>3, <2>2
  <2>3. QED
    BY <2>1, <2>2
<1>7. TableTypes'
  BY <1>0, <1>1, <1>2, <1>6 DEF TableTypes
<1>8. LastLook'
  BY <1>0, <1>1, <1>2, <1>4, <1>6 DEF LastLook, Newest
<1>9. Fresh'
  <2> SUFFICES ASSUME shown = T!None
               PROVE  lastn' = turn /\ \A t \in Faces : lastData # <<turn, wall, t>>
    BY <1>1, <1>2 DEF Fresh
  <2>1. \A t \in Faces : t # T!None
    BY Codes
  <2>2. QED
    BY <2>1
<1>10. Reported'
  BY <1>0, <1>1, <1>2, <1>5 DEF Reported, Newest
<1>11. Taken'
  BY <1>0, <1>1, <1>2 DEF Taken, Newest
<1>12. Claimed'
  BY <1>0, <1>1, <1>2 DEF Claimed, Newest
<1>13. T!ClaimMarked'
  BY <1>0, <1>1, <1>2, <1>4 DEF T!ClaimMarked
<1>14. CountedOnce'
  BY <1>0, <1>5, CaughtCounted
<1>15. QED
  BY <1>7, <1>8, <1>9, <1>10, <1>11, <1>12, <1>13, <1>14 DEF TableInv

\* What SetSeeList makes of a report: a discard is counted and kept; without one,
\* the tile of the last report of another player may be marked.
LEMMA SeeListEffect ==
    ASSUME TableTypes, turn \in T!Other, T!SetSeeList(<<turn, wall, shown>>)
    PROVE  /\ shown # T!None =>
                 /\ seeList' = Append(seeList, <<turn, wall, shown>>) /\ down' = down
                 /\ see' = [see EXCEPT ![turn][shown] = @ + 1]
           /\ shown = T!None =>
                 /\ seeList' = seeList /\ see' = see
                 /\ \/ down' = down
                    \/ \E i \in 1 .. Len(seeList) :
                          down' = [down EXCEPT ![turn][seeList[i][3]] = 2]
                 /\ seeList # <<>> /\ Newest[1] # turn =>
                       down' = IF Newest[2] = wall
                               THEN [down EXCEPT ![turn][Newest[3]] = 2] ELSE down
                 /\ seeList = <<>> => down' = down
<1> DEFINE i == T!SelectLastInSeq(seeList, LAMBDA s : s[1] # turn)
<1>1. /\ see' = IF shown # T!None THEN [see EXCEPT ![turn][shown] = @ + 1] ELSE see
      /\ down' = IF shown = T!None /\ i > 0 /\ seeList[i][2] = wall
                 THEN [down EXCEPT ![turn][seeList[i][3]] = 2] ELSE down
      /\ seeList' = IF shown # T!None THEN Append(seeList, <<turn, wall, shown>>) ELSE seeList
  BY DEF T!SetSeeList
<1>2. /\ i = 0 \/ i \in 1 .. Len(seeList)
      /\ seeList # <<>> /\ Newest[1] # turn => i = Len(seeList) /\ i > 0
      /\ seeList = <<>> => i = 0
  <2>1. i = LET I == {j \in 1 .. Len(seeList) : seeList[j][1] # turn}
            IN  IF I # {} THEN T!Max(I) ELSE 0
    BY DEF T!SelectLastInSeq
  <2> HIDE DEF i
  <2>2. QED
    BY <2>1, LastOther
<1> HIDE DEF i
<1>3. CASE shown # T!None
  BY <1>1, <1>3
<1>4. CASE shown = T!None
  <2>1. \/ down' = down
        \/ \E j \in 1 .. Len(seeList) : down' = [down EXCEPT ![turn][seeList[j][3]] = 2]
    <3>1. CASE i \in 1 .. Len(seeList)
      BY <1>1, <3>1
    <3>2. CASE i = 0
      BY <1>1, <3>2
    <3>3. QED
      BY <1>2, <3>1, <3>2
  <2>2. seeList # <<>> /\ Newest[1] # turn =>
           down' = IF Newest[2] = wall THEN [down EXCEPT ![turn][Newest[3]] = 2] ELSE down
    BY <1>1, <1>2, <1>4 DEF Newest
  <2>3. seeList = <<>> => down' = down
    BY <1>1, <1>2
  <2>4. QED
    BY <1>1, <1>4, <2>1, <2>2, <2>3
<1>5. QED
  BY <1>3, <1>4

\* The look tells the server something new.
LEMMA ReportStep ==
    ASSUME TableInv, T!Look, turn # T!Self,
           lastn < 4 \/ lastn \div 256 # turn,
           lastn' = IF shown # T!None THEN 256 * turn + shown ELSE turn,
           <<turn, wall, shown>> # lastData, T!SetSeeList(<<turn, wall, shown>>),
           lastData' = <<turn, wall, shown>>, eyes' = turn
    PROVE  TableInv'
<1>0. TableTypes /\ LastLook /\ Fresh /\ Reported /\ Taken /\ Claimed /\ T!ClaimMarked /\ CountedOnce
  BY DEF TableInv
<1>1. turn \in T!Other /\ UNCHANGED <<turn, shown, wall, took, claim>>
  BY <1>0, LookCases
<1>2. /\ looked' \in BOOLEAN /\ caught' \in BOOLEAN /\ skipped' \in BOOLEAN /\ hidden' \in BOOLEAN
      /\ looked' /\ (caught' <=> shown # T!None)
      /\ ~skipped' => ~skipped /\ (looked \/ eyes # turn)
      /\ ~hidden' /\ shown = T!None => ~hidden
      /\ caughts' = IF shown # T!None /\ ~caught
                    THEN [caughts EXCEPT ![turn][shown] = @ + 1] ELSE caughts
  BY <1>0, LookNotes
<1>3. turn \in 0 .. 3 /\ turn \in Nat /\ (shown # T!None => shown \in Faces) /\ wall \in Nat /\ lastn \in Nat
  BY <1>0, <1>1 DEF TableTypes, T!Other
<1>4. ~caught
  BY <1>0, <1>3 DEF LastLook
<1>5. lastn' \in Nat /\ (lastn' >= 4 => lastn' \div 256 = turn)
  <2>1. CASE shown # T!None
    <3>1. (256 * turn + shown) \div 256 = turn /\ 256 * turn + shown \in Nat
      BY <1>3, <2>1, Codes, Zenon
    <3>2. lastn' = 256 * turn + shown
      BY <2>1
    <3>3. QED
      BY <3>1, <3>2, Zenon
  <2>2. CASE shown = T!None
    BY <1>3, <2>2
  <2>3. QED
    BY <2>1, <2>2
<1>6. /\ shown # T!None =>
           /\ seeList' = Append(seeList, <<turn, wall, shown>>) /\ down' = down
           /\ see' = [see EXCEPT ![turn][shown] = @ + 1]
      /\ shown = T!None =>
           /\ seeList' = seeList /\ see' = see
           /\ \/ down' = down
              \/ \E i \in 1 .. Len(seeList) :
                    down' = [down EXCEPT ![turn][seeList[i][3]] = 2]
           /\ seeList # <<>> /\ Newest[1] # turn =>
                 down' = IF Newest[2] = wall
                         THEN [down EXCEPT ![turn][Newest[3]] = 2] ELSE down
  BY <1>0, <1>1, SeeListEffect
<1>7. seeList' \in Seq(T!Other \X Nat \X Faces)
      /\ (shown # T!None => seeList' # <<>> /\ Newest' = <<turn, wall, shown>>)
  <2>1. CASE shown # T!None
    <3>1. <<turn, wall, shown>> \in T!Other \X Nat \X Faces
      BY <1>1, <1>3, <2>1
    <3>2. seeList' = Append(seeList, <<turn, wall, shown>>) /\ seeList \in Seq(T!Other \X Nat \X Faces)
      BY <1>0, <1>6, <2>1 DEF TableTypes
    <3>3. QED
      BY <3>1, <3>2, AppendProperties DEF Newest
  <2>2. CASE shown = T!None
    BY <1>0, <1>6, <2>2 DEF TableTypes
  <2>3. QED
    BY <2>1, <2>2
<1>8. down' \in [T!Other -> [Faces -> {0, 2}]]
      /\ \A n \in T!Other, t \in Faces : down[n][t] = 2 => down'[n][t] = 2
  <2>0. down \in [T!Other -> [Faces -> {0, 2}]] /\ seeList \in Seq(T!Other \X Nat \X Faces)
    BY <1>0 DEF TableTypes
  <2>1. CASE down' = down
    BY <2>0, <2>1
  <2>2. ASSUME NEW i \in 1 .. Len(seeList), down' = [down EXCEPT ![turn][seeList[i][3]] = 2]
        PROVE  <1>8!1 /\ <1>8!2
    <3>1. seeList[i] \in T!Other \X Nat \X Faces
      BY <2>0, ElementOfSeq
    <3>2. seeList[i][3] \in Faces
      BY <3>1
    <3>3. QED
      BY <1>1, <2>0, <2>2, <3>2
  <2>3. QED
    BY <1>6, <2>1, <2>2
<1>9. TableTypes'
  <2>1. see' \in [T!Other -> [Faces -> Nat]]
    <3>0. see \in [T!Other -> [Faces -> Nat]]
      BY <1>0 DEF TableTypes
    <3>1. CASE shown # T!None
      <4>1. see' = [see EXCEPT ![turn][shown] = @ + 1] /\ shown \in Faces
        BY <1>3, <1>6, <3>1
      <4>2. QED
        BY <1>1, <3>0, <4>1
    <3>2. CASE shown = T!None
      BY <1>6, <3>0, <3>2
    <3>3. QED
      BY <3>1, <3>2
  <2>2. caughts' \in [T!Other -> [Faces -> Nat]]
    BY <1>0, <1>1, <1>2, <1>3 DEF TableTypes
  <2>3. lastData' \in T!Other \X Nat \X (Faces \cup {T!None}) /\ eyes' \in 0 .. 3
    BY <1>0, <1>1, <1>3 DEF TableTypes
  <2>4. turn' \in 0 .. 3 /\ shown' \in Faces \cup {T!None} /\ wall' \in Nat
    BY <1>0, <1>1 DEF TableTypes
  <2>5. QED
    BY <1>2, <1>5, <1>7, <1>8, <2>1, <2>2, <2>3, <2>4 DEF TableTypes
<1>10. LastLook'
  <2>1. seeList' # <<>> => Newest'[2] >= wall
    <3>1. CASE shown # T!None
      BY <1>3, <1>7, <3>1
    <3>2. CASE shown = T!None
      BY <1>0, <1>1, <1>6, <3>2 DEF LastLook, Newest
    <3>3. QED
      BY <3>1, <3>2
  <2>2. lastData'[1] = turn /\ lastData'[2] = wall /\ wall >= wall
    BY <1>3
  <2>3. QED
    BY <1>1, <1>2, <1>5, <2>1, <2>2 DEF LastLook
<1>11. Fresh'
  <2> SUFFICES ASSUME shown = T!None
               PROVE  lastn' = turn /\ \A t \in Faces : lastData' # <<turn, wall, t>>
    BY <1>1, <1>2 DEF Fresh
  <2>1. \A t \in Faces : t # T!None
    BY Codes
  <2>2. QED
    BY <2>1
<1>12. Reported'
  BY <1>1, <1>2, <1>7 DEF Reported
<1>13. Taken'
  BY <1>0, <1>1, <1>2, <1>6 DEF Taken, Newest
<1>14. Claimed'
  BY <1>0, <1>1, <1>2, <1>6 DEF Claimed, Newest
<1>15. T!ClaimMarked'
  <2> SUFFICES ASSUME ~skipped', shown = T!None, claim # T!NoClaim
               PROVE  claim = <<0, turn>> \/ down'[turn][claim[2]] = 2
    BY <1>1, <1>2 DEF T!ClaimMarked
  <2>1. PICK m \in T!Other, t \in Faces :
           claim = <<m, t>> /\ m # turn /\ seeList # <<>> /\ Newest = <<m, wall, t>>
    BY <1>0, <1>2 DEF Claimed
  <2>2. down' = [down EXCEPT ![turn][t] = 2]
    BY <1>6, <2>1
  <2>3. QED
    BY <1>0, <1>1, <2>1, <2>2 DEF TableTypes
<1>16. CountedOnce'
  <2>1. CASE shown = T!None
    <3>1. see' = see /\ caughts' = caughts
      BY <1>2, <1>6, <2>1
    <3>2. QED
      BY <1>0, <1>2, <3>1 DEF CountedOnce, T!CountedOnce
  <2>2. CASE shown # T!None
    <3>1. see' = [see EXCEPT ![turn][shown] = @ + 1] /\ caughts' = [caughts EXCEPT ![turn][shown] = @ + 1]
      BY <1>2, <1>4, <1>6, <2>2
    <3>2. SUFFICES ASSUME NEW n \in T!Other, NEW t \in Faces
                   PROVE  see'[n][t] <= caughts'[n][t] /\ (~skipped' => see'[n][t] = caughts'[n][t])
      BY DEF CountedOnce, T!CountedOnce
    <3>3. see[n][t] \in Nat /\ caughts[n][t] \in Nat /\ see[n][t] <= caughts[n][t]
          /\ (~skipped => see[n][t] = caughts[n][t])
      BY <1>0 DEF TableTypes, CountedOnce, T!CountedOnce
    <3>4. \/ see'[n][t] = see[n][t] /\ caughts'[n][t] = caughts[n][t]
          \/ see'[n][t] = see[n][t] + 1 /\ caughts'[n][t] = caughts[n][t] + 1
      BY <1>0, <1>1, <1>3, <3>1 DEF TableTypes
    <3>5. QED
      BY <1>2, <3>3, <3>4
  <2>3. QED
    BY <2>1, <2>2
<1>17. QED
  BY <1>9, <1>10, <1>11, <1>12, <1>13, <1>14, <1>15, <1>16 DEF TableInv

-----------------------------------------------------------------------------
\* What is known of the table stays true whatever is played, whenever the client
\* looks.
THEOREM TableInvariant == T!Spec => []TableInv
<1>1. TableInv /\ [T!Next]_(T!vars) => TableInv'
  <2> SUFFICES ASSUME TableInv, [T!Next]_(T!vars) PROVE TableInv'
    OBVIOUS
  <2>1. ASSUME NEW t \in Faces, T!Discard(t) PROVE TableInv'
    BY <2>1, DiscardStep
  <2>2. CASE T!Draw
    BY <2>2, DrawStep
  <2>3. ASSUME NEW p \in 0 .. 3, T!Claim(p) PROVE TableInv'
    BY <2>3, ClaimStep
  <2>4. CASE T!Kong
    BY <2>4, KongStep
  <2>5. CASE T!Look /\ turn = T!Self
    BY <2>5, LookSelfStep
  <2>6. CASE T!Look /\ turn # T!Self
    <3>1. TableTypes
      BY DEF TableInv
    <3>2. QED
      BY <2>6, <3>1, LookCases, QuietStep, RepeatStep, ReportStep
  <2>7. CASE UNCHANGED T!vars
    <3>1. UNCHANGED <<turn, shown, wall, took, lastn, lastData, seeList, see, down, eyes, looked,
                      caught, caughts, skipped, hidden, claim>>
      BY <2>7 DEF T!vars, T!game, T!server
    <3>2. TableTypes'
      BY <3>1 DEF TableInv, TableTypes
    <3>3. LastLook' /\ Fresh' /\ Reported'
      BY <3>1 DEF TableInv, LastLook, Fresh, Reported, Newest
    <3>4. Taken' /\ Claimed' /\ T!ClaimMarked' /\ CountedOnce'
      BY <3>1 DEF TableInv, Taken, Claimed, T!ClaimMarked, CountedOnce, T!CountedOnce, Newest
    <3>5. QED
      BY <3>2, <3>3, <3>4 DEF TableInv
  <2>8. QED
    BY <2>1, <2>2, <2>3, <2>4, <2>5, <2>6, <2>7 DEF T!Next
<1>2. QED
  BY <1>1, TableInit, PTL DEF T!Spec

\* Every discard that the client looks at is counted once, however often it looks
\* while the tile lies there (ScreenOther, GetRecvData and SetSeeList together).
THEOREM CountedOnceHolds == T!Spec => []CountedOnce
<1>1. TableInv => CountedOnce
  BY DEF TableInv
<1>2. QED
  BY <1>1, TableInvariant, PTL

\* A step marks a tile of a player only if that player has taken it, or the
\* server did not hear of a discard.
LEMMA MarkStep ==
    ASSUME TableInv, [T!Next]_(T!vars)
    PROVE  [ \A n \in T!Other, t \in Faces :
               down'[n][t] # down[n][t] => <<n, t>> \in took \/ hidden \/ skipped ]_(T!vars)
<1> SUFFICES ASSUME NEW n \in T!Other, NEW t \in Faces, down'[n][t] # down[n][t], ~hidden, ~skipped
             PROVE  <<n, t>> \in took
  OBVIOUS
<1>0. TableTypes /\ Taken
  BY DEF TableInv
<1>1. T!Look /\ turn # T!Self
  BY DEF T!Next, T!Discard, T!Draw, T!Claim, T!Kong, T!Look, T!ScreenSelf, T!vars, T!server
<1>2. turn \in T!Other /\ T!SetSeeList(<<turn, wall, shown>>)
  BY <1>0, <1>1, LookCases
<1>3. shown = T!None /\ seeList # <<>>
  BY <1>0, <1>2, SeeListEffect
<1>4. Newest[1] # turn /\ (Newest[2] = wall => <<turn, Newest[3]>> \in took)
  BY <1>0, <1>3 DEF Taken
<1>5. Newest[2] = wall /\ down' = [down EXCEPT ![turn][Newest[3]] = 2]
  BY <1>0, <1>2, <1>3, <1>4, SeeListEffect
<1>6. n = turn /\ t = Newest[3]
  BY <1>0, <1>5 DEF TableTypes
<1>7. QED
  BY <1>4, <1>5, <1>6

\* The server marks a tile as taken only if it was, or there was a discard it did
\* not hear of; and it knows every claim of a discard it heard of once the client
\* looks, except when player 0 discarded the tile with the number of the player
\* that took it.
THEOREM ClaimsRightHolds == T!Spec => ClaimsRight
<1>1. TableInv => T!ClaimMarked
  BY DEF TableInv
<1>2. TableInv /\ [T!Next]_(T!vars) =>
         [ \A n \in T!Other, t \in Faces :
             down'[n][t] # down[n][t] => <<n, t>> \in took \/ hidden \/ skipped ]_(T!vars)
  BY MarkStep
<1>3. QED
  BY <1>1, <1>2, TableInvariant, PTL DEF T!Spec, ClaimsRight, T!ClaimsRight, T!MarkReal
-----------------------------------------------------------------------------
(* The weight of a suit (MahjongWeight): MahjongBlockProofs says what the    *)
(* operators compute that MahjongWeight takes from MahjongBlock.             *)
B == INSTANCE MahjongBlockProofs

\* The operators of the one are those of the other.
LEMMA SameRanks == W!Rank = B!Rank
  BY DEF W!Rank, B!Rank

LEMMA SameSums == \A f : W!Total(f) = B!Total(f) /\ \A rs : W!SumOf(f, rs) = B!SumOf(f, rs)
<1>1. \A f : W!Total(f) = B!Total(f)
  BY Zenon DEF W!Total, B!Total, W!Upto, B!Upto
<1>2. QED
  BY <1>1, SameRanks, Zenon DEF W!SumOf, B!SumOf

LEMMA SameReadings == W!val = B!val
  BY Zenon DEF W!val, B!val, W!Readings, B!Readings, W!Rank, B!Rank, W!Adjacent, B!Adjacent,
     W!Less, B!Less, W!Rest, B!Rest, W!UsedUp, B!UsedUp, W!LeftOver, B!LeftOver,
     W!Loose, B!Loose, W!SumOf, B!SumOf, W!Total, B!Total, W!Upto, B!Upto,
     W!Cheaper, B!Cheaper, W!Both, B!Both, W!ToSet, B!ToSet, W!Reverse, B!Reverse,
     W!Cardinality, B!Cardinality, W!IsFiniteSet, B!IsFiniteSet

LEMMA SameWeight == \A n : W!SetWeight(n) = B!SetWeight(n)
<1>1. \A n, a : W!BlockAt(n, a) = B!BlockAt(n, a) /\ W!Starts(n) = B!Starts(n)
  BY Zenon DEF W!BlockAt, B!BlockAt, W!Run, B!Run, W!Min, B!Min, W!Ends, B!Ends, W!Rank, B!Rank,
     W!Starts, B!Starts
<1>2. \A n, b : W!WeightVal(n, b) = B!WeightVal(n, b)
  BY SameReadings, Zenon DEF W!WeightVal, B!WeightVal
<1>3. \A x, y : W!Cheaper(x, y) = B!Cheaper(x, y)
  BY Zenon DEF W!Cheaper, B!Cheaper
<1>4. \A b : W!Reverse(b) = B!Reverse(b)
  BY Zenon DEF W!Reverse, B!Reverse
<1>5. ASSUME NEW n, NEW b PROVE W!GetWeightVal(n, b) = B!GetWeightVal(n, b)
  <2>1. /\ W!WeightVal(n, b) = B!WeightVal(n, b)
        /\ W!WeightVal(n, W!Reverse(b)) = B!WeightVal(n, B!Reverse(b))
    BY <1>2, <1>4, Zenon
  <2>2. /\ W!GetWeightVal(n, b) =
             IF Len(b) < 3 THEN W!WeightVal(n, b)
             ELSE W!Cheaper(W!WeightVal(n, b), W!WeightVal(n, W!Reverse(b)))
        /\ B!GetWeightVal(n, b) =
             IF Len(b) < 3 THEN B!WeightVal(n, b)
             ELSE B!Cheaper(B!WeightVal(n, b), B!WeightVal(n, B!Reverse(b)))
    BY Zenon DEF W!GetWeightVal, B!GetWeightVal
  <2>3. QED
    BY <1>3, <2>1, <2>2
<1>6. ASSUME NEW n PROVE W!SetWeight(n) = B!SetWeight(n)
  <2> DEFINE Sum(R, S, of) == [r \in R |-> IF r \in S THEN of[r].w ELSE 0]
             All(S, of) == UNION {of[a].o : a \in S}
             g == [a \in W!Starts(n) |-> W!GetWeightVal(n, W!BlockAt(n, a))]
             h == [a \in B!Starts(n) |-> B!GetWeightVal(n, B!BlockAt(n, a))]
  <2>1. W!SetWeight(n) = [w |-> W!Total(Sum(W!Rank, W!Starts(n), g)), o |-> All(W!Starts(n), g)]
    BY Zenon DEF W!SetWeight
  <2>2. B!SetWeight(n) = [w |-> B!Total(Sum(B!Rank, B!Starts(n), h)), o |-> All(B!Starts(n), h)]
    BY Zenon DEF B!SetWeight
  <2>3. W!Starts(n) = B!Starts(n)
    BY <1>1, Zenon
  <2>4. g = h
    <3>1. \A a : W!GetWeightVal(n, W!BlockAt(n, a)) = B!GetWeightVal(n, B!BlockAt(n, a))
      BY <1>1, <1>5, Zenon
    <3>2. QED
      BY <2>3, <3>1
  <2> HIDE DEF g, h
  <2>5. Sum(W!Rank, W!Starts(n), g) = Sum(B!Rank, B!Starts(n), h)
    BY <2>3, <2>4, SameRanks
  <2>6. All(W!Starts(n), g) = All(B!Starts(n), h)
    BY <2>3, <2>4
  <2> HIDE DEF Sum, All
  <2>7. QED
    BY <2>1, <2>2, <2>5, <2>6, SameSums, Zenon
<1>7. QED
  BY <1>6

LEMMA SameShapes ==
  \A n : /\ W!NoFour(n) <=> B!NoFour(n)
         /\ W!IsMelds(n) <=> B!IsMelds(n)
         /\ W!IsComplete(n) <=> B!IsComplete(n)
         /\ W!PairInTheMiddle(n) <=> B!PairInTheMiddle(n)
<1>1. \A n : W!IsMelds(n) <=> B!IsMelds(n)
  BY SameRanks, SameSums, Zenon DEF W!IsMelds, B!IsMelds
<1>2. \A n : W!IsComplete(n) <=> B!IsComplete(n)
  BY <1>1, SameRanks, Zenon DEF W!IsComplete, B!IsComplete
<1>3. \A n : W!NoFour(n) <=> B!NoFour(n)
  BY SameRanks, Zenon DEF W!NoFour, B!NoFour
<1>4. \A n : W!PairInTheMiddle(n) <=> B!PairInTheMiddle(n)
  BY Zenon DEF W!PairInTheMiddle, B!PairInTheMiddle
<1>5. QED
  BY <1>1, <1>2, <1>3, <1>4, Zenon

\* The counts of the suit stay between none and four, and the block is that of
\* the tiles: every change of a tile is followed by Update.
SuitInv == no \in W!SuitHand /\ blk = W!SetWeight(no)

LEMMA SuitFirst == W!Init => SuitInv
<1> SUFFICES ASSUME W!Init PROVE SuitInv
  OBVIOUS
<1>1. W!NoTile \in W!SuitHand
  BY DEF W!NoTile, W!SuitHand
<1>2. QED
  BY <1>1 DEF W!Init, W!Update, SuitInv

LEMMA SuitStep == SuitInv /\ W!Next => SuitInv'
<1> SUFFICES ASSUME SuitInv, NEW add \in BOOLEAN, NEW j \in W!Rank, W!UpdateBlocksWeight(add, j)
             PROVE  SuitInv'
  BY DEF W!Next
<1>1. /\ IF add THEN no[j] < 4 ELSE no[j] > 0
      /\ no' = [no EXCEPT ![j] = IF add THEN @ + 1 ELSE @ - 1]
      /\ blk' = W!SetWeight(no')
  BY DEF W!UpdateBlocksWeight, W!Update
<1>2. no \in [W!Rank -> 0 .. 4]
  BY DEF SuitInv, W!SuitHand
<1>3. (IF add THEN no[j] + 1 ELSE no[j] - 1) \in 0 .. 4
  BY <1>1, <1>2
<1>4. no' \in [W!Rank -> 0 .. 4]
  BY <1>1, <1>2, <1>3
<1>5. QED
  BY <1>1, <1>4 DEF SuitInv, W!SuitHand

\* What the weight means, of any suit.
LEMMA WeightMeans ==
  ASSUME NEW n \in W!SuitHand, W!NoFour(n)
  PROVE  /\ W!SetWeight(n).w = 0 <=> W!IsMelds(n)
         /\ W!SetWeight(n).w = 1 => W!IsComplete(n)
         /\ W!IsComplete(n) /\ ~ W!PairInTheMiddle(n) => W!SetWeight(n).w = 1
<1>1. n \in [B!Rank -> Nat] /\ B!NoFour(n)
  BY SameRanks, SameShapes DEF W!SuitHand
<1>2. /\ B!SetWeight(n).w = 0 => B!IsMelds(n)
      /\ B!IsMelds(n) => B!SetWeight(n).w = 0
      /\ B!SetWeight(n).w = 1 => B!IsComplete(n)
      /\ B!IsComplete(n) /\ ~ B!PairInTheMiddle(n) => B!SetWeight(n).w = 1
  BY <1>1, PartsAssumption, B!SuitMelds, B!MeldsWeigh, B!SuitComplete, B!CompleteWeighs
<1>3. QED
  BY <1>2, SameWeight, SameShapes, Zenon

\* The weight of the suit is always that of its tiles (Ai.UpdateBlocksWeight,
\* NewBlock.Update).
THEOREM SuitInvariant == MCSpec => [](part = "suit" => SuitInv)
<1> DEFINE I == part = "suit" => SuitInv
<1>1. MCInit => I
  BY SuitFirst DEF MCInit
<1>2. I /\ [SessionsNext \/ TableNext \/ SuitNext]_allVars => I'
  <2> SUFFICES ASSUME I, [SessionsNext \/ TableNext \/ SuitNext]_allVars, part' = "suit" PROVE SuitInv'
    OBVIOUS
  <2>1. part = "suit" /\ (W!Next \/ UNCHANGED suitVars)
    BY DEF SessionsNext, TableNext, SuitNext, allVars, suitVars
  <2>2. CASE UNCHANGED suitVars
    BY <2>1, <2>2 DEF suitVars, SuitInv
  <2>3. QED
    BY <2>1, <2>2, SuitStep
<1> HIDE DEF I
<1>3. MCSpec => []I
  BY <1>1, <1>2, PTL DEF MCSpec
<1>4. QED
  BY <1>3 DEF I

\* The weight that NewBlock.SetWeight and GetWeightVal give to a suit is what
\* checkFull takes it for, for any number of ranks and tiles, if no tile is held
\* four times: 0 is the weight of triplets and sequences and of nothing else; 1
\* is the weight of a suit with a pair besides, but for one that has the pair in
\* the middle, and of no other suit.
THEOREM WeightIsRightHolds == MCSpec => []WeightIsRight
<1>1. (part = "suit" => SuitInv) => WeightIsRight
  <2> SUFFICES ASSUME SuitInv PROVE W!WeightIsRight
    BY DEF WeightIsRight
  <2>1. no \in W!SuitHand /\ blk.w = W!SetWeight(no).w
    BY DEF SuitInv
  <2>2. W!NoFour(no) =>
          /\ blk.w = 0 <=> W!IsMelds(no)
          /\ blk.w = 1 => W!IsComplete(no)
          /\ W!IsComplete(no) /\ ~ W!PairInTheMiddle(no) => blk.w = 1
    BY <2>1, WeightMeans, Zenon
  <2>3. QED
    BY <2>2, Zenon DEF W!WeightIsRight, W!NoFalseWin, W!MeldsAreFree, W!WinSeen
<1>2. QED
  BY <1>1, SuitInvariant, PTL
=============================================================================
