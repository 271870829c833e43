--------------------------- MODULE GameHostProofs ---------------------------
(***************************************************************************)
(* Proofs about the programs on a game host: GameRun's request buffer      *)
(* (GameClient), RunTool's lookups (RunTool) and its filter of processes   *)
(* (ProcessFilter), for any functions, payloads and keys, connections and  *)
(* ports, processes and threads, and without a bound on faults.            *)
(***************************************************************************)
EXTENDS MCGameHost, FiniteSetTheorems, SequenceTheorems, TLAPS

-----------------------------------------------------------------------------
(* GameClient.                                                             *)

\* A request of the list that the sender thread has not deleted yet.
Live(i) == i \in DOMAIN list /\ (i > 1 \/ spc # "erase")

\* The buffer, the sender thread and what is under way.
ClientTypes ==
    /\ caller \in [Callers -> {"off", "run", "wait"}]
    /\ asked \in [Callers -> Wait \cup {None}] /\ got = [c \in Callers |-> got[c]]
    /\ list \in Seq(Wait) /\ spc \in {"idle", "recv", "erase"}
    /\ spc # "idle" => list # <<>>
    /\ key \in Keys \cup {NoKey} /\ conn \in {"open", "shut", "dead"}
    /\ srv \in [Keys -> Host \cup {None}]
    /\ breaks \in Nat /\ reloads \in Nat /\ skips \in Nat

\* A caller waits for its live request, and has one at most.
Waiting ==
    \A i \in DOMAIN list : Live(i) /\ list[i].by # "timer" =>
        /\ list[i] = asked[list[i].by]
        /\ caller[list[i].by] = "wait" /\ got[list[i].by] = None
        /\ \A j \in DOMAIN list : Live(j) /\ list[j].by = list[i].by => j = i

\* What a session remembers is the result for the payload it remembers.
Remembered == \A k \in Keys : srv[k] # None => srv[k].res.pay = srv[k].data

\* Only the head of the list is under way, as a request or as its answer.
UnderWay ==
    /\ wire # None =>
          spc = "recv" /\ wire = list[1] /\ back = None /\ conn # "shut"
    /\ back # None =>
          /\ spc = "recv" /\ wire = None /\ conn # "shut" /\ list[1].by # "timer"
          /\ back.key \in Keys /\ srv[back.key] # None
          /\ back.res.pay = list[1].pay
          /\ back.ran => back.res.code = list[1].code

\* Without a lost connection the first reply brings the key, and every request
\* made after it carries a key.
OneKey ==
    /\ key \in Keys => srv[key] # None
    /\ \A i \in DOMAIN list : list[i].key \in Keys => key \in Keys /\ srv[list[i].key] # None
    /\ breaks = 0 /\ conn = "dead" => wire = None /\ back = None
    /\ breaks = 0 => \A k \in Keys : srv[k] # None => key \in Keys \/ back # None
    /\ ~doubled => \A i, j \in DOMAIN list :
          list[i].key = NoKey /\ list[j].key = NoKey /\ list[i].by # "timer" /\ list[j].by # "timer" => i = j
    /\ breaks = 0 /\ ~doubled /\ key \in Keys =>
          \A i \in DOMAIN list : Live(i) /\ list[i].by # "timer" => list[i].key \in Keys
    /\ breaks = 0 /\ ~doubled => \A j, k \in Keys : srv[j] # None /\ srv[k] # None => j = k

\* Every request that was or will be skipped is paid for by a fault.
Timer == list # <<>> /\ list[1].by = "timer" /\ spc # "erase" /\ ~(spc = "recv" /\ conn = "shut")
Paid ==
    /\ \A i \in DOMAIN list : list[i].by = "timer" => i = 1
    /\ skips + (IF conn = "open" THEN 0 ELSE 1) + (IF Timer THEN 1 ELSE 0) <= breaks + reloads

ClientInv == ClientTypes /\ Waiting /\ Remembered /\ UnderWay /\ OneKey /\ OwnResult /\ Paid


\* The initial state.
LEMMA ClientInit == Init => ClientInv
<1> SUFFICES ASSUME Init PROVE ClientInv
  OBVIOUS
<1> USE DEF Init
<1>1. ClientTypes
  BY DEF ClientTypes
<1>2. Waiting /\ Remembered /\ UnderWay /\ OneKey /\ OwnResult
  BY NoKeyAssumption DEF Waiting, Remembered, UnderWay, OneKey, OwnResult
<1>3. Paid
  BY DEF Paid, Timer
<1>4. QED
  BY <1>1, <1>2, <1>3 DEF ClientInv

\* LoadSendData puts one request at the end, for a caller that has none.
LEMMA CallStep ==
    ASSUME ClientInv, NEW c \in Callers, NEW f \in Codes, NEW p \in Payloads, LoadSendData(c, f, p)
    PROVE  ClientInv'
<1> DEFINE r == [by |-> c, code |-> f, pay |-> p, key |-> key]
<1>0. ClientTypes /\ Waiting /\ Remembered /\ UnderWay /\ OneKey /\ OwnResult /\ Paid
  BY DEF ClientInv
<1>1. r \in Wait /\ r.by = c /\ r.key = key /\ c # "timer" /\ r.pay = p /\ r.code = f
  BY <1>0 DEF ClientTypes, Wait, Callers
<1>2. /\ UNCHANGED <<spc, key, conn, wire, back, srv, reloads, breaks, skips>>
      /\ caller[c] = "run"
      /\ caller' = [caller EXCEPT ![c] = "wait"]
      /\ asked' = [asked EXCEPT ![c] = r]
      /\ got' = [got EXCEPT ![c] = None]
  BY DEF LoadSendData, net
<1>3. ~doubled' => ~doubled /\ (key = NoKey => \A i \in DOMAIN list : ~(list[i].key = NoKey /\ list[i].by # "timer"))
  BY Zenon DEF LoadSendData
<1>4. list' = Append(list, r) \/ (list' = list /\ spc = "erase")
  BY DEF LoadSendData
<1> HIDE DEF r
<1>5. \A d \in Callers : /\ caller'[d] = IF d = c THEN "wait" ELSE caller[d]
                         /\ asked'[d] = IF d = c THEN r ELSE asked[d]
                         /\ got'[d] = IF d = c THEN None ELSE got[d]
  BY <1>0, <1>2 DEF ClientTypes
<1>6. \A i \in DOMAIN list : Live(i) => list[i].by # c
  BY <1>0, <1>1, <1>2 DEF Waiting
<1>7. \A i \in DOMAIN list : list[i] \in Wait /\ list[i].by \in Callers \cup {"timer"}
                             /\ list[i].key \in Keys \cup {NoKey}
  BY <1>0 DEF ClientTypes, Wait
<1>8. Remembered' /\ OwnResult'
  BY <1>0, <1>2, <1>5 DEF Remembered, OwnResult
<1>9. list \in Seq(Wait) /\ (spc # "idle" => list # <<>>) /\ key \in Keys \cup {NoKey}
  BY <1>0 DEF ClientTypes
<1>10. CASE list' = list /\ spc = "erase"
  <2>1. ClientTypes'
    BY <1>0, <1>1, <1>2, <1>10 DEF ClientTypes
  <2>2. Waiting'
    BY <1>0, <1>2, <1>5, <1>6, <1>7, <1>10 DEF Waiting, Live
  <2>3. UnderWay' /\ OneKey' /\ Paid'
    BY <1>0, <1>2, <1>3, <1>10 DEF UnderWay, OneKey, Paid, Timer, Live
  <2>4. QED
    BY <1>8, <2>1, <2>2, <2>3 DEF ClientInv
<1>11. CASE list' = Append(list, r)
  <2>1. /\ list' \in Seq(Wait) /\ Len(list') = Len(list) + 1 /\ Len(list) \in Nat
        /\ DOMAIN list = 1 .. Len(list) /\ DOMAIN list' = 1 .. (Len(list) + 1)
        /\ list'[Len(list) + 1] = r /\ list' # <<>>
    BY <1>1, <1>9, <1>11
  <2>2. \A i \in DOMAIN list : i \in DOMAIN list' /\ list'[i] = list[i]
    BY <1>9, <1>11
  <2>3. \A i \in DOMAIN list' : i \in DOMAIN list \/ i = Len(list) + 1
    BY <2>1
  <2>4. list # <<>> => list'[1] = list[1] /\ 1 \in DOMAIN list
    BY <1>9, <2>1, <2>2
  <2>5. ClientTypes'
    BY <1>0, <1>1, <1>2, <2>1 DEF ClientTypes
  <2>6. \A i \in DOMAIN list : Live(i)' <=> Live(i)
    BY <1>2, <2>1, <2>2 DEF Live
  <2>7. Waiting'
    <3> SUFFICES ASSUME NEW i \in DOMAIN list', Live(i)', list'[i].by # "timer"
                 PROVE  /\ list'[i] = asked'[list'[i].by]
                        /\ caller'[list'[i].by] = "wait" /\ got'[list'[i].by] = None
                        /\ \A j \in DOMAIN list' : Live(j)' /\ list'[j].by = list'[i].by => j = i
      BY DEF Waiting
    <3>1. CASE i \in DOMAIN list
      <4>1. list'[i] = list[i] /\ Live(i) /\ list[i].by # c /\ list[i].by \in Callers
        BY <1>6, <1>7, <2>2, <2>6, <3>1
      <4>2. \A j \in DOMAIN list' : Live(j)' /\ list'[j].by = list'[i].by => j = i
        BY <1>0, <1>1, <2>1, <2>2, <2>3, <2>6, <3>1, <4>1 DEF Waiting
      <4>3. QED
        BY <1>0, <1>5, <3>1, <4>1, <4>2 DEF Waiting
    <3>2. CASE i = Len(list) + 1
      <4>1. \A j \in DOMAIN list' : Live(j)' /\ list'[j].by = list'[i].by => j = i
        BY <1>1, <1>6, <2>1, <2>2, <2>3, <2>6, <3>2
      <4>2. QED
        BY <1>1, <1>5, <2>1, <3>2, <4>1
    <3>3. QED
      BY <2>3, <3>1, <3>2
  <2>8. UnderWay'
    BY <1>0, <1>2, <1>9, <2>4 DEF UnderWay
  <2>9. OneKey'
    <3>1. \A i \in DOMAIN list' : list'[i].key \in Keys => key' \in Keys /\ srv'[list'[i].key] # None
      BY <1>0, <1>1, <1>2, <2>1, <2>2, <2>3 DEF OneKey
    <3>2. ~doubled' => \A i, j \in DOMAIN list' :
             list'[i].key = NoKey /\ list'[j].key = NoKey /\ list'[i].by # "timer" /\ list'[j].by # "timer" => i = j
      BY <1>0, <1>1, <1>3, <2>1, <2>2, <2>3 DEF OneKey
    <3>3. breaks = 0 /\ ~doubled' /\ key' \in Keys =>
             \A i \in DOMAIN list' : Live(i)' /\ list'[i].by # "timer" => list'[i].key \in Keys
      BY <1>0, <1>1, <1>2, <1>3, <2>1, <2>2, <2>3, <2>6 DEF OneKey
    <3>4. QED
      BY <1>0, <1>2, <1>3, <3>1, <3>2, <3>3 DEF OneKey
  <2>10. Paid'
    <3>1. \A i \in DOMAIN list' : list'[i].by = "timer" => i = 1
      BY <1>0, <1>1, <2>1, <2>2, <2>3 DEF Paid
    <3>2. Timer' <=> Timer
      <4>1. CASE list = <<>>
        BY <1>1, <1>9, <2>1, <4>1 DEF Timer
      <4>2. CASE list # <<>>
        BY <1>2, <2>1, <2>4, <4>2 DEF Timer
      <4>3. QED
        BY <4>1, <4>2
    <3>3. QED
      BY <1>0, <1>2, <3>1, <3>2 DEF Paid
  <2>11. QED
    BY <1>8, <2>5, <2>7, <2>8, <2>9, <2>10 DEF ClientInv
<1>12. QED
  BY <1>4, <1>10, <1>11

\* The request of the timer is the only one in the list.
LEMMA ReloadStep ==
    ASSUME ClientInv, Reload
    PROVE  ClientInv'
<1>0. ClientTypes /\ Waiting /\ Remembered /\ UnderWay /\ OneKey /\ OwnResult /\ Paid
  BY DEF ClientInv
<1>1. PICK r \in Wait : r.by = "timer" /\ r.key = key /\ list' = <<r>>
  <2> DEFINE tm == [by |-> "timer", code |-> None, pay |-> None, key |-> key]
  <2>1. tm \in Wait /\ tm.by = "timer" /\ tm.key = key
    BY <1>0 DEF ClientTypes, Wait
  <2>2. list' = <<tm>>
    BY DEF Reload
  <2>3. QED
    BY <2>1, <2>2
<1>2. /\ UNCHANGED <<caller, asked, got, spc, key, conn, wire, back, srv, breaks, skips, doubled>>
      /\ spc = "idle" /\ list = <<>> /\ reloads' = reloads + 1
  BY DEF Reload, client, net
<1>3. list' \in Seq(Wait) /\ DOMAIN list' = {1} /\ list'[1] = r /\ list' # <<>>
  BY <1>1
<1>4. ClientTypes'
  BY <1>0, <1>2, <1>3 DEF ClientTypes
<1>5. Waiting' /\ Remembered' /\ OwnResult' /\ UnderWay'
  BY <1>0, <1>1, <1>2, <1>3 DEF Waiting, Remembered, OwnResult, UnderWay
<1>6. OneKey'
  BY <1>0, <1>1, <1>2, <1>3 DEF OneKey
<1>7. Paid'
  BY <1>0, <1>1, <1>2, <1>3 DEF Paid, Timer, ClientTypes
<1>8. QED
  BY <1>4, <1>5, <1>6, <1>7 DEF ClientInv

\* sendData puts the head under way, or finds the connection shut.
LEMMA SendStep ==
    ASSUME ClientInv, SendData
    PROVE  ClientInv'
<1>0. ClientTypes /\ Waiting /\ Remembered /\ UnderWay /\ OneKey /\ OwnResult /\ Paid
  BY DEF ClientInv
<1>1. /\ UNCHANGED <<caller, asked, got, list, key, srv, reloads, breaks, skips, doubled>>
      /\ spc = "idle" /\ spc' = "recv" /\ list # <<>>
  BY DEF SendData, client, bounds
<1>2. wire = None /\ back = None /\ back' = None
  BY <1>0, <1>1 DEF UnderWay, SendData, net
<1>3. \/ conn' = "open" /\ wire' = list[1]
      \/ conn = "shut" /\ conn' = "shut" /\ wire' = None
      \/ conn # "open" /\ conn' = "dead" /\ wire' = None
  BY <1>0, <1>1, <1>2 DEF SendData, net, ClientTypes
<1>4. ClientTypes' /\ Remembered' /\ OwnResult'
  BY <1>0, <1>1, <1>3 DEF ClientTypes, Remembered, OwnResult
<1>5. Waiting'
  BY <1>0, <1>1 DEF Waiting, Live
<1>6. UnderWay'
  BY <1>1, <1>2, <1>3 DEF UnderWay
<1>7. OneKey'
  BY <1>0, <1>1, <1>2, <1>3 DEF OneKey, Live
<1>8. Paid'
  <2>1. Timer' => Timer
    BY <1>1 DEF Timer
  <2>2. conn' # "open" => conn # "open"
    BY <1>3
  <2>3. QED
    BY <1>0, <1>1, <2>1, <2>2 DEF Paid, ClientTypes
<1>9. QED
  BY <1>4, <1>5, <1>6, <1>7, <1>8 DEF ClientInv

\* Deleting the head lets its own caller go on, with g, and no other.
LEMMA ReleaseStep ==
    ASSUME ClientInv, NEW g, Release(list[1], g), spc = "recv", spc' = "erase",
           UNCHANGED <<asked, list>>,
           list[1].by # "timer" =>
              \/ g \in {None, Skipped, NoBytes}
              \/ g.res.pay = list[1].pay /\ (g.ran => g.res.code = list[1].code)
    PROVE  /\ caller' \in [Callers -> {"off", "run", "wait"}] /\ got' = [c \in Callers |-> got'[c]]
           /\ Waiting' /\ OwnResult'
<1>0. ClientTypes /\ Waiting /\ OwnResult
  BY DEF ClientInv
<1>1. list \in Seq(Wait) /\ list # <<>> /\ 1 \in DOMAIN list /\ Live(1)
  BY <1>0 DEF ClientTypes, Live
<1>2. \A i \in DOMAIN list : list[i].by \in Callers \cup {"timer"}
  BY <1>0 DEF ClientTypes, Wait
<1>3. \A i \in DOMAIN list : Live(i)' => Live(i) /\ i # 1
  BY <1>1 DEF Live
<1>4. CASE list[1].by = "timer"
  <2>1. got' = got /\ (caller' = caller \/ (caller["reload"] = "off" /\ caller' = [caller EXCEPT !["reload"] = "run"]))
    BY <1>4 DEF Release
  <2>2. \A c \in Callers : caller[c] = "wait" => caller'[c] = "wait"
    BY <1>0, <2>1 DEF ClientTypes
  <2>3. caller' \in [Callers -> {"off", "run", "wait"}]
    BY <1>0, <2>1 DEF ClientTypes
  <2>4. Waiting'
    BY <1>0, <1>2, <1>3, <2>1, <2>2 DEF Waiting
  <2>5. QED
    BY <1>0, <2>1, <2>3, <2>4 DEF ClientTypes, OwnResult
<1>5. CASE list[1].by # "timer"
  <2> DEFINE c == list[1].by
  <2>1. c \in Callers /\ asked[c] = list[1] /\ \A i \in DOMAIN list : Live(i) /\ list[i].by = c => i = 1
    BY <1>0, <1>1, <1>2, <1>5 DEF Waiting
  <2>2. caller' = [caller EXCEPT ![c] = "run"] /\ got' = [got EXCEPT ![c] = g]
    BY <1>5 DEF Release
  <2> HIDE DEF c
  <2>3. \A d \in Callers : /\ caller'[d] = IF d = c THEN "run" ELSE caller[d]
                           /\ got'[d] = IF d = c THEN g ELSE got[d]
    BY <1>0, <2>2 DEF ClientTypes
  <2>4. caller' \in [Callers -> {"off", "run", "wait"}] /\ got' = [d \in Callers |-> got'[d]]
    BY <1>0, <2>2 DEF ClientTypes
  <2>5. Waiting'
    BY <1>0, <1>2, <1>3, <2>1, <2>3 DEF Waiting
  <2>6. OwnResult'
    BY <1>0, <1>5, <2>1, <2>3 DEF OwnResult, c
  <2>7. QED
    BY <2>4, <2>5, <2>6
<1>6. QED
  BY <1>4, <1>5

\* A reply goes to the caller of the head and brings the key of its session.
LEMMA ReplyStep ==
    ASSUME ClientInv, RecvReply
    PROVE  ClientInv'
<1>0. ClientTypes /\ Waiting /\ Remembered /\ UnderWay /\ OneKey /\ OwnResult /\ Paid
  BY DEF ClientInv
<1>1. /\ UNCHANGED <<asked, list, conn, wire, srv, reloads, breaks, skips, doubled>>
      /\ spc = "recv" /\ spc' = "erase" /\ back # None /\ back' = None /\ key' = back.key
  BY DEF RecvReply, bounds
<1>2. list \in Seq(Wait) /\ list # <<>> /\ Head(list) = list[1] /\ 1 \in DOMAIN list
  BY <1>0, <1>1 DEF ClientTypes
<1>3. /\ wire = None /\ list[1].by # "timer" /\ key' \in Keys /\ srv[key'] # None
      /\ back.res.pay = list[1].pay /\ (back.ran => back.res.code = list[1].code)
  BY <1>0, <1>1 DEF UnderWay
<1>4. Release(list[1], back)
  BY <1>2 DEF RecvReply
<1>5. /\ caller' \in [Callers -> {"off", "run", "wait"}] /\ got' = [c \in Callers |-> got'[c]]
      /\ Waiting' /\ OwnResult'
  BY <1>1, <1>3, <1>4, ReleaseStep
<1>6. ClientTypes' /\ Remembered' /\ UnderWay'
  BY <1>0, <1>1, <1>2, <1>3, <1>5 DEF ClientTypes, Remembered, UnderWay
<1>7. OneKey'
  <2>1. ASSUME breaks = 0, ~doubled, NEW i \in DOMAIN list, i > 1, list[i].by # "timer"
        PROVE  list[i].key \in Keys
    <3>1. list[i].key \in Keys \cup {NoKey} /\ list[1].key \in Keys \cup {NoKey}
      BY <1>0, <1>2 DEF ClientTypes, Wait
    <3>2. CASE list[1].key = NoKey
      BY <1>0, <1>2, <1>3, <2>1, <3>1, <3>2 DEF OneKey
    <3>3. CASE list[1].key \in Keys
      BY <1>0, <1>2, <2>1, <3>3 DEF OneKey, Live
    <3>4. QED
      BY <3>1, <3>2, <3>3
  <2>2. \A i \in DOMAIN list : Live(i)' => i > 1
    BY <1>1, <1>2 DEF Live
  <2>3. breaks = 0 /\ ~doubled => \A i \in DOMAIN list : Live(i)' /\ list[i].by # "timer" => list[i].key \in Keys
    BY <2>1, <2>2
  <2>4. QED
    BY <1>0, <1>1, <1>3, <2>3 DEF OneKey
<1>8. Paid'
  BY <1>0, <1>1 DEF Paid, Timer, ClientTypes
<1>9. QED
  BY <1>5, <1>6, <1>7, <1>8 DEF ClientInv

\* The end of the connection deletes the head with a callback without bytes.
LEMMA EofStep ==
    ASSUME ClientInv, RecvEof
    PROVE  ClientInv'
<1>0. ClientTypes /\ Waiting /\ Remembered /\ UnderWay /\ OneKey /\ OwnResult /\ Paid
  BY DEF ClientInv
<1>1. /\ UNCHANGED <<asked, list, key, conn, wire, back, srv, reloads, breaks, skips, doubled>>
      /\ spc = "recv" /\ spc' = "erase" /\ back = None /\ conn = "shut"
  BY DEF RecvEof, net, bounds
<1>2. list \in Seq(Wait) /\ list # <<>> /\ Head(list) = list[1] /\ wire = None
  BY <1>0, <1>1 DEF ClientTypes, UnderWay
<1>3. Release(list[1], NoBytes)
  BY <1>2 DEF RecvEof
<1>4. /\ caller' \in [Callers -> {"off", "run", "wait"}] /\ got' = [c \in Callers |-> got'[c]]
      /\ Waiting' /\ OwnResult'
  BY <1>1, <1>3, ReleaseStep
<1>5. ClientTypes' /\ Remembered' /\ UnderWay'
  BY <1>0, <1>1, <1>2, <1>4 DEF ClientTypes, Remembered, UnderWay
<1>6. OneKey'
  BY <1>0, <1>1 DEF OneKey, Live
<1>7. Paid'
  BY <1>0, <1>1 DEF Paid, Timer, ClientTypes
<1>8. QED
  BY <1>4, <1>5, <1>6, <1>7 DEF ClientInv

\* An error deletes the head without its callback and makes a new connection.
LEMMA ErrorStep ==
    ASSUME ClientInv, RecvError
    PROVE  ClientInv'
<1>0. ClientTypes /\ Waiting /\ Remembered /\ UnderWay /\ OneKey /\ OwnResult /\ Paid
  BY DEF ClientInv
<1>1. /\ UNCHANGED <<asked, list, key, srv, reloads, breaks, doubled>>
      /\ spc = "recv" /\ spc' = "erase" /\ back = None /\ conn = "dead"
      /\ conn' = "open" /\ wire' = None /\ back' = None
      /\ skips' \in {skips, skips + 1}
  BY DEF RecvError, bounds
<1>2. list \in Seq(Wait) /\ list # <<>> /\ Head(list) = list[1]
  BY <1>0, <1>1 DEF ClientTypes
<1>3. Release(list[1], Skipped)
  BY <1>2 DEF RecvError
<1>4. /\ caller' \in [Callers -> {"off", "run", "wait"}] /\ got' = [c \in Callers |-> got'[c]]
      /\ Waiting' /\ OwnResult'
  BY <1>1, <1>3, ReleaseStep
<1>5. ClientTypes' /\ Remembered' /\ UnderWay'
  BY <1>0, <1>1, <1>2, <1>4 DEF ClientTypes, Remembered, UnderWay
<1>6. OneKey'
  BY <1>0, <1>1 DEF OneKey, Live
<1>7. Paid'
  BY <1>0, <1>1 DEF Paid, Timer, ClientTypes
<1>8. QED
  BY <1>4, <1>5, <1>6, <1>7 DEF ClientInv

\* The deleted head leaves the list.
LEMMA EraseStep ==
    ASSUME ClientInv, Erase
    PROVE  ClientInv'
<1>0. ClientTypes /\ Waiting /\ Remembered /\ UnderWay /\ OneKey /\ OwnResult /\ Paid
  BY DEF ClientInv
<1>1. /\ UNCHANGED <<caller, asked, got, key, conn, wire, back, srv, reloads, breaks, skips, doubled>>
      /\ spc = "erase" /\ spc' = "idle" /\ list' = Tail(list)
  BY DEF Erase, client, net, bounds
<1>2. list \in Seq(Wait) /\ list # <<>>
  BY <1>0, <1>1 DEF ClientTypes
<1>3. /\ list' \in Seq(Wait) /\ DOMAIN list' = 1 .. (Len(list) - 1) /\ DOMAIN list = 1 .. Len(list)
      /\ Len(list) \in Nat /\ \A i \in DOMAIN list' : list'[i] = list[i + 1]
  BY <1>1, <1>2
<1>4. \A i \in DOMAIN list' : /\ i + 1 \in DOMAIN list /\ i + 1 > 1 /\ i \in Nat
                              /\ list'[i] = list[i + 1] /\ Live(i + 1)
  BY <1>3 DEF Live
<1>5. ClientTypes' /\ Remembered' /\ OwnResult'
  BY <1>0, <1>1, <1>3 DEF ClientTypes, Remembered, OwnResult
<1>6. Waiting'
  <2> SUFFICES ASSUME NEW i \in DOMAIN list', list'[i].by # "timer"
               PROVE  /\ list'[i] = asked'[list'[i].by]
                      /\ caller'[list'[i].by] = "wait" /\ got'[list'[i].by] = None
                      /\ \A j \in DOMAIN list' : list'[j].by = list'[i].by => j = i
    BY DEF Waiting
  <2>1. \A j \in DOMAIN list' : list'[j].by = list'[i].by => j + 1 = i + 1
    BY <1>0, <1>4 DEF Waiting
  <2>2. \A j \in DOMAIN list' : list'[j].by = list'[i].by => j = i
    BY <1>4, <2>1
  <2>3. QED
    BY <1>0, <1>1, <1>4, <2>2 DEF Waiting
<1>7. UnderWay'
  BY <1>0, <1>1 DEF UnderWay
<1>8. OneKey'
  <2>1. \A i \in DOMAIN list' : list'[i].key \in Keys => key' \in Keys /\ srv'[list'[i].key] # None
    BY <1>0, <1>1, <1>4 DEF OneKey
  <2>2. ~doubled' => \A i, j \in DOMAIN list' :
           list'[i].key = NoKey /\ list'[j].key = NoKey /\ list'[i].by # "timer" /\ list'[j].by # "timer" => i = j
    <3> SUFFICES ASSUME ~doubled, NEW i \in DOMAIN list', NEW j \in DOMAIN list',
                        list'[i].key = NoKey, list'[j].key = NoKey,
                        list'[i].by # "timer", list'[j].by # "timer"
                 PROVE  i = j
      BY <1>1
    <3>1. i + 1 = j + 1
      BY <1>0, <1>4 DEF OneKey
    <3>2. QED
      BY <1>4, <3>1
  <2>3. breaks' = 0 /\ ~doubled' /\ key' \in Keys =>
           \A i \in DOMAIN list' : list'[i].by # "timer" => list'[i].key \in Keys
    BY <1>0, <1>1, <1>4 DEF OneKey
  <2>4. QED
    BY <1>0, <1>1, <2>1, <2>2, <2>3 DEF OneKey
<1>9. Paid'
  <2>1. \A i \in DOMAIN list' : list'[i].by # "timer"
    BY <1>0, <1>4 DEF Paid
  <2>2. ~Timer'
    BY <1>3, <2>1 DEF Timer
  <2>3. QED
    BY <1>0, <1>1, <2>1, <2>2 DEF Paid, ClientTypes
<1>10. QED
  BY <1>5, <1>6, <1>7, <1>8, <1>9 DEF ClientInv

\* GetRecvData answers with the result for the payload it was asked about.
LEMMA AnsweredRight ==
    ASSUME NEW s \in Host \cup {None}, s # None => s.res.pay = s.data,
           NEW r \in Wait, r.by # "timer"
    PROVE  /\ Answered(s, r) \in Host
           /\ Answered(s, r).res.pay = Answered(s, r).data
           /\ Answered(s, r).data = r.pay
           /\ Answered(s, r) # s /\ Answered(s, r).res # Nil => Answered(s, r).res.code = r.code
<1>1. r.pay \in Payloads /\ r.code \in Codes
  BY DEF Wait
<1> DEFINE l == IF s = None THEN [data |-> Empty, res |-> Nil] ELSE s
           n == [data |-> r.pay, res |-> [code |-> r.code, pay |-> r.pay]]
<1>2. l \in Host /\ l.res.pay = l.data /\ (l = s \/ l.res = Nil)
  BY EmptyAssumption DEF Host, Result, Nil
<1>3. n \in Host /\ n.res.pay = n.data /\ n.data = r.pay /\ n.res.code = r.code
  BY <1>1 DEF Host, Result
<1>4. Answered(s, r) = IF l.data = r.pay THEN l ELSE n
  BY DEF Answered
<1> HIDE DEF l, n
<1>5. QED
  BY <1>2, <1>3, <1>4

\* The server answers the head, in the session of its key or in a new one.
LEMMA HandleStep ==
    ASSUME ClientInv, ServerHandle
    PROVE  ClientInv'
<1>0. ClientTypes /\ Waiting /\ Remembered /\ UnderWay /\ OneKey /\ OwnResult /\ Paid
  BY DEF ClientInv
<1>1. /\ UNCHANGED <<caller, asked, got, list, spc, key, reloads, breaks, skips, doubled>>
      /\ wire # None /\ wire' = None
  BY DEF ServerHandle, client, sender, bounds
<1>2. spc = "recv" /\ wire = list[1] /\ back = None /\ conn # "shut"
  BY <1>0, <1>1 DEF UnderWay
<1>3. list \in Seq(Wait) /\ list # <<>> /\ 1 \in DOMAIN list /\ list[1] \in Wait /\ Live(1)
  BY <1>0, <1>2 DEF ClientTypes, Live
<1>4. Waiting' /\ OwnResult'
  BY <1>0, <1>1 DEF Waiting, Live, OwnResult
<1>5. CASE wire.by = "timer"
  <2>1. /\ UNCHANGED <<srv, back>>
        /\ conn' = IF conn = "dead" THEN "dead" ELSE "shut"
    BY <1>5 DEF ServerHandle
  <2>2. ClientTypes' /\ Remembered' /\ UnderWay'
    BY <1>0, <1>1, <1>2, <2>1 DEF ClientTypes, Remembered, UnderWay
  <2>3. OneKey'
    BY <1>0, <1>1, <1>2, <2>1 DEF OneKey, Live
  <2>4. Paid'
    BY <1>0, <1>1, <1>2, <1>3, <1>5, <2>1 DEF Paid, Timer, ClientTypes
  <2>5. QED
    BY <1>4, <2>2, <2>3, <2>4 DEF ClientInv
<1>6. CASE wire.by # "timer"
  <2>1. PICK k \in Session(wire.key) :
           LET s == Answered(srv[k], wire) IN
           /\ srv' = [srv EXCEPT ![k] = s]
           /\ back' = [key |-> k, res |-> s.res, ran |-> s # srv[k] /\ s.res # Nil]
           /\ UNCHANGED conn
    BY <1>6 DEF ServerHandle
  <2>2. k \in Keys /\ (wire.key \in Keys /\ srv[wire.key] # None => k = wire.key)
    BY DEF Session
  <2> DEFINE s == Answered(srv[k], wire)
             ans == s # srv[k] /\ s.res # Nil
  <2>3. /\ s \in Host /\ s.res.pay = s.data /\ s.data = wire.pay
        /\ ans => s.res.code = wire.code
    <3>1. srv[k] \in Host \cup {None} /\ (srv[k] # None => srv[k].res.pay = srv[k].data)
      BY <1>0, <2>2 DEF ClientTypes, Remembered
    <3>2. QED
      BY <1>2, <1>3, <1>6, <3>1, AnsweredRight
  <2>4. srv' = [srv EXCEPT ![k] = s] /\ back' = [key |-> k, res |-> s.res, ran |-> ans] /\ UNCHANGED conn
    BY <2>1
  <2>5. /\ back'.key = k /\ back'.res = s.res /\ (back'.ran => ans)
    BY <2>4
  <2>6. s # None /\ back' # None
    <3>1. back' \in Reply
      <4>1. ans \in BOOLEAN
        OBVIOUS
      <4>2. s.res \in Result
        BY <2>3 DEF Host
      <4> HIDE DEF ans, s
      <4>3. QED
        BY <2>2, <2>4, <4>1, <4>2 DEF Reply
    <3>2. QED
      BY <2>3, <3>1, NoneAssumption
  <2> HIDE DEF s, ans
  <2>7. \A j \in Keys : srv'[j] = IF j = k THEN s ELSE srv[j]
    BY <1>0, <2>4 DEF ClientTypes
  <2>8. ClientTypes'
    BY <1>0, <1>1, <2>2, <2>3, <2>4 DEF ClientTypes
  <2>9. Remembered'
    BY <1>0, <2>3, <2>7 DEF Remembered
  <2>10. UnderWay'
    BY <1>1, <1>2, <1>6, <2>2, <2>3, <2>4, <2>5, <2>6, <2>7 DEF UnderWay
  <2>11. \A j \in Keys : srv[j] # None => srv'[j] # None
    BY <2>6, <2>7
  <2>12. breaks = 0 /\ ~doubled => \A i, j \in Keys : srv'[i] # None /\ srv'[j] # None => i = j
    <3> SUFFICES ASSUME breaks = 0, ~doubled, NEW j \in Keys, srv[j] # None
                 PROVE  j = k
      BY <1>0, <2>7 DEF OneKey
    <3>1. key \in Keys
      BY <1>0, <1>2 DEF OneKey
    <3>2. wire.key \in Keys
      BY <1>0, <1>2, <1>3, <1>6, <3>1 DEF OneKey
    <3>3. srv[wire.key] # None
      BY <1>0, <1>2, <1>3, <3>2 DEF OneKey
    <3>4. QED
      BY <1>0, <2>2, <3>2, <3>3 DEF OneKey
  <2>13. breaks = 0 => conn # "dead"
    BY <1>0, <1>1 DEF OneKey
  <2>14. OneKey'
    BY <1>0, <1>1, <2>4, <2>6, <2>11, <2>12, <2>13 DEF OneKey, Live
  <2>15. Paid'
    BY <1>0, <1>1, <2>4 DEF Paid, Timer, ClientTypes
  <2>16. QED
    BY <1>4, <2>8, <2>9, <2>10, <2>14, <2>15 DEF ClientInv
<1>7. QED
  BY <1>5, <1>6

\* A fault of the network, and the reset that follows a closed connection.
LEMMA FaultStep ==
    ASSUME ClientInv, Break \/ ResetArrives
    PROVE  ClientInv'
<1>0. ClientTypes /\ Waiting /\ Remembered /\ UnderWay /\ OneKey /\ OwnResult /\ Paid
  BY DEF ClientInv
<1>1. UNCHANGED <<caller, asked, got, list, spc, key, srv, reloads, skips, doubled>> /\ conn' = "dead"
  BY DEF Break, ResetArrives, client, sender, bounds
<1>2. Waiting' /\ OwnResult' /\ Remembered'
  BY <1>0, <1>1 DEF Waiting, Live, OwnResult, Remembered
<1>3. CASE Break
  <2>1. breaks' = breaks + 1 /\ conn = "open" /\ wire' \in {None, wire} /\ back' \in {None, back}
    BY <1>3 DEF Break
  <2>2. ClientTypes'
    BY <1>0, <1>1, <2>1 DEF ClientTypes
  <2>3. UnderWay'
    BY <1>0, <1>1, <2>1 DEF UnderWay
  <2>4. breaks' # 0
    BY <1>0, <2>1 DEF ClientTypes
  <2>5. OneKey'
    BY <1>0, <1>1, <2>4 DEF OneKey
  <2>6. Paid'
    BY <1>0, <1>1, <2>1 DEF Paid, Timer, ClientTypes
  <2>7. QED
    BY <1>2, <2>2, <2>3, <2>5, <2>6 DEF ClientInv
<1>4. CASE ResetArrives
  <2>1. UNCHANGED <<breaks, wire, back>> /\ conn = "shut" /\ spc = "recv" /\ list[1].by # "timer"
    BY <1>4 DEF ResetArrives, bounds
  <2>2. wire = None /\ back = None
    BY <1>0, <2>1 DEF UnderWay
  <2>3. ClientTypes'
    BY <1>0, <1>1, <2>1 DEF ClientTypes
  <2>4. UnderWay' /\ OneKey'
    BY <1>0, <1>1, <2>1, <2>2 DEF UnderWay, OneKey, Live
  <2>5. Paid'
    BY <1>0, <1>1, <2>1 DEF Paid, Timer, ClientTypes
  <2>6. QED
    BY <1>2, <2>3, <2>4, <2>5 DEF ClientInv
<1>5. QED
  BY <1>3, <1>4

\* The invariant of the request buffer.
THEOREM ClientInvariant == Spec => []ClientInv
<1>1. ClientInv /\ [Next]_vars => ClientInv'
  <2> SUFFICES ASSUME ClientInv, [Next]_vars PROVE ClientInv'
    OBVIOUS
  <2>1. CASE Next
    BY <2>1, CallStep, ReloadStep, SendStep, ReplyStep, EofStep, ErrorStep, EraseStep, HandleStep, FaultStep
       DEF Next, Sender
  <2>2. CASE UNCHANGED vars
    BY <2>2 DEF vars, client, sender, net, bounds, ClientInv, ClientTypes, Waiting, Live, Remembered,
                UnderWay, OneKey, OwnResult, Paid, Timer
  <2>3. QED
    BY <2>1, <2>2
<1>2. QED
  BY <1>1, ClientInit, PTL DEF Spec

\* A callback of LoadSendData gets the result for its own payload and, if the
\* server ran a function, of the function it asked for, whatever is lost,
\* repeated or late.
THEOREM OwnResultHolds == Spec => []OwnResult
<1>1. ClientInv => OwnResult
  BY DEF ClientInv
<1>2. QED
  BY <1>1, ClientInvariant, PTL

\* Without a lost connection, and unless both threads ask before the first key
\* arrives, GetHost makes one session for the client, reloads included.
THEOREM OneSessionHolds == Spec => []OneSession
<1>1. ClientInv => OneSession
  <2> SUFFICES ASSUME ClientInv, breaks = 0, ~doubled
               PROVE  ~(Cardinality({k \in Keys : srv[k] # None}) > 1)
    BY DEF OneSession, ClientInv, ClientTypes
  <2> DEFINE S == {k \in Keys : srv[k] # None}
  <2>1. \A j, k \in S : j = k
    BY DEF ClientInv, OneKey
  <2>2. CASE S = {}
    BY <2>2, FS_EmptySet
  <2>3. CASE S # {}
    <3>1. PICK k \in S : S = {k}
      BY <2>1, <2>3
    <3>2. Cardinality(S) = 1
      BY <3>1, FS_Singleton
    <3>3. QED
      BY <3>2
  <2>4. QED
    BY <2>2, <2>3
<1>2. QED
  BY <1>1, ClientInvariant, PTL

\* recvData deletes at most one request without its callback for every lost
\* connection and every reload.
THEOREM OneLossPerFaultHolds == Spec => []OneLossPerFault
<1>1. ClientInv => OneLossPerFault
  BY DEF ClientInv, Paid, ClientTypes, OneLossPerFault
<1>2. QED
  BY <1>1, ClientInvariant, PTL

-----------------------------------------------------------------------------
(* RunTool.                                                                *)

Running == {"loop", "recv", "scan", "clear", "check", "end"}

\* The shapes of RunTool's state; a port is what atoi makes of the digits.
ToolTypes ==
    /\ so \in Conns \cup {None}
    /\ th \in [Conns -> Running \cup {"off", "gone"}]
    /\ rd \in [Conns -> Conns \cup {None}]
    /\ peer \in [Conns -> {"new", "open", "closed"}]
    /\ buf \in [Conns -> Seq(0 .. 9)]
    /\ req \in [Conns -> Requests \cup {None}] /\ question \in [Conns -> Requests \cup {None}]
    /\ out = [c \in Conns |-> out[c]] /\ freed \cup overlap \subseteq Conns

\* Nothing happens before SyncServer has dialled, and no answer waits for it
\* after it has closed.
Ends ==
    \A c \in Conns : /\ peer[c] = "new" => th[c] = "off" /\ req[c] = None
                     /\ peer[c] # "open" => out[c] = <<>>

\* A connection whose thread ran with no other one has f to itself.
OwnF ==
    \A c \in Conns :
        /\ th[c] = "off" => so # c /\ c \notin freed
        /\ th[c] \in Running => so = c \/ (so \in overlap /\ c \in overlap)
        /\ th[c] \in Running \ {"loop"} => rd[c] = c \/ (rd[c] \in overlap /\ c \in overlap)
        /\ th[c] \in Running /\ c \notin overlap =>
              c \notin freed /\ \A d \in Conns : d # c => th[d] \notin Running
        /\ th[c] = "end" /\ c \notin overlap => peer[c] = "closed"

\* Such a thread works on the question that is open on its connection.
OnTheQuestion ==
    \A c \in Conns : c \notin overlap \cup mixed =>
        /\ req[c] # None /\ peer[c] = "open" => question[c] = req[c] /\ out[c] = <<>>
        /\ th[c] = "scan" \/ (th[c] = "check" /\ port # 0) =>
              /\ out[c] = <<>>
              /\ peer[c] = "open" => question[c] # None /\ req[c] = None /\ port = R!Atoi(question[c])

ToolInv == ToolTypes /\ Ends /\ OwnF /\ OnTheQuestion /\ RightService

\* The initial state.
LEMMA ToolInit == R!Init => ToolInv
<1> SUFFICES ASSUME R!Init PROVE ToolInv
  OBVIOUS
<1> USE DEF R!Init
<1>1. ToolTypes
  BY DEF ToolTypes
<1>2. Ends /\ OnTheQuestion /\ RightService
  BY DEF Ends, OnTheQuestion, RightService, R!RightService, R!RightReply, R!NotCutOff
<1>3. OwnF
  BY NoConnAssumption DEF OwnF, Running
<1>4. QED
  BY <1>1, <1>2, <1>3 DEF ToolInv

\* SyncServer's own steps.
LEMMA PeerStep ==
    ASSUME ToolInv, NEW c \in Conns,
           \/ R!Dial(c) \/ (\E r \in Requests : R!Ask(c, r)) \/ R!TakeAnswer(c) \/ R!PeerClose(c)
    PROVE  ToolInv'
<1> USE DEF R!shared, R!threads, R!history, RightService, R!RightService
<1>0. ToolTypes /\ Ends /\ OwnF /\ OnTheQuestion /\ R!RightReply /\ R!NotCutOff
  BY DEF ToolInv
<1>1. UNCHANGED <<so, port, freed, th, rd, buf, overlap, mixed>>
  BY DEF R!Dial, R!Ask, R!TakeAnswer, R!PeerClose
<1>2. \A d \in Conns : peer[d] = "closed" => peer'[d] = "closed"
  BY <1>0 DEF ToolTypes, R!Dial, R!Ask, R!TakeAnswer, R!PeerClose
<1>3. OwnF' /\ R!NotCutOff'
  <2>1. OwnF'
    BY <1>0, <1>1, <1>2 DEF OwnF
  <2>2. freed \subseteq freed'
    BY <1>1
  <2>3. R!NotCutOff'
    <3> SUFFICES ASSUME NEW d \in freed \ overlap PROVE peer'[d] = "closed"
      BY <1>1 DEF R!NotCutOff
    <3>1. peer[d] = "closed"
      BY <1>0 DEF R!NotCutOff
    <3>2. QED
      BY <1>0, <1>2, <3>1 DEF ToolTypes
  <2>4. QED
    BY <2>1, <2>3
<1>4. CASE R!Dial(c)
  <2>1. UNCHANGED <<req, out, question>> /\ peer' = [peer EXCEPT ![c] = "open"] /\ peer[c] = "new"
    BY <1>4 DEF R!Dial
  <2>2. ToolTypes' /\ R!RightReply'
    BY <1>0, <1>1, <2>1 DEF ToolTypes, R!RightReply
  <2>3. \A d \in Conns : peer'[d] = IF d = c THEN "open" ELSE peer[d]
    BY <1>0, <2>1 DEF ToolTypes
  <2>4. Ends' /\ OnTheQuestion'
    BY <1>0, <1>1, <2>1, <2>3 DEF Ends, OnTheQuestion
  <2>5. QED
    BY <1>3, <2>2, <2>4 DEF ToolInv
<1>5. ASSUME NEW r \in Requests, R!Ask(c, r) PROVE ToolInv'
  <2>1. /\ UNCHANGED <<peer, out>> /\ peer[c] = "open" /\ question[c] = None
        /\ question' = [question EXCEPT ![c] = r] /\ req' = [req EXCEPT ![c] = r]
    BY <1>5 DEF R!Ask
  <2>2. \A d \in Conns : /\ question'[d] = IF d = c THEN r ELSE question[d]
                         /\ req'[d] = IF d = c THEN r ELSE req[d]
    BY <1>0, <2>1 DEF ToolTypes
  <2>3. c \notin overlap \cup mixed => out[c] = <<>>
    BY <1>0, <2>1 DEF R!RightReply
  <2>4. ToolTypes' /\ Ends'
    BY <1>0, <1>1, <2>1, <2>2 DEF ToolTypes, Ends
  <2>5. OnTheQuestion' /\ R!RightReply'
    BY <1>0, <1>1, <2>1, <2>2, <2>3 DEF OnTheQuestion, R!RightReply
  <2>6. QED
    BY <1>3, <2>4, <2>5 DEF ToolInv
<1>6. CASE R!TakeAnswer(c) \/ R!PeerClose(c)
  <2>1. /\ UNCHANGED req /\ question' = [question EXCEPT ![c] = None]
        /\ \/ peer' = peer /\ out[c] # <<>> /\ out' = [out EXCEPT ![c] = Tail(@)] /\ peer[c] = "open"
           \/ peer' = [peer EXCEPT ![c] = "closed"] /\ out' = [out EXCEPT ![c] = <<>>] /\ peer[c] = "open"
    BY <1>6 DEF R!TakeAnswer, R!PeerClose
  <2>2. \A d \in Conns : question'[d] = IF d = c THEN None ELSE question[d]
    BY <1>0, <2>1 DEF ToolTypes
  <2>3. \A d \in Conns : d # c => out'[d] = out[d] /\ peer'[d] = peer[d]
    BY <1>0, <2>1 DEF ToolTypes
  <2>4. c \notin overlap \cup mixed /\ out[c] # <<>> => Tail(out[c]) = <<>>
    <3>1. \A x : Tail(<<x>>) = <<>>
      OBVIOUS
    <3>2. c \notin overlap \cup mixed /\ out[c] # <<>> => \E x : out[c] = <<x>>
      BY <1>0 DEF R!RightReply
    <3>3. QED
      BY <3>1, <3>2, Zenon
  <2>5. c \notin overlap \cup mixed => out'[c] = <<>>
    BY <1>0, <2>1, <2>4 DEF ToolTypes
  <2>6. peer'[c] = "open" => peer[c] = "open" /\ out[c] # <<>>
    BY <1>0, <2>1 DEF ToolTypes
  <2>7. ToolTypes'
    BY <1>0, <1>1, <2>1 DEF ToolTypes
  <2>8. Ends'
    <3>1. peer'[c] # "open" => out'[c] = <<>>
      BY <1>0, <2>1 DEF ToolTypes
    <3>2. peer'[c] # "new"
      BY <1>0, <2>1 DEF ToolTypes
    <3>3. QED
      BY <1>0, <1>1, <2>1, <2>3, <3>1, <3>2 DEF Ends
  <2>9. OnTheQuestion'
    BY <1>0, <1>1, <2>1, <2>2, <2>3, <2>5, <2>6 DEF OnTheQuestion
  <2>10. R!RightReply'
    BY <1>0, <1>1, <2>2, <2>3, <2>5 DEF R!RightReply
  <2>11. QED
    BY <1>3, <2>7, <2>8, <2>9, <2>10 DEF ToolInv
<1>7. QED
  BY <1>4, <1>5, <1>6

\* A new connection either finds no thread running or is marked with those that
\* run.
LEMMA AcceptStep ==
    ASSUME ToolInv, NEW c \in Conns, R!Accept(c)
    PROVE  ToolInv'
<1> USE DEF RightService, R!RightService
<1>0. ToolTypes /\ Ends /\ OwnF /\ OnTheQuestion /\ R!RightReply /\ R!NotCutOff
  BY DEF ToolInv
<1>1. /\ UNCHANGED <<port, freed, rd, buf, peer, req, out, question, mixed>>
      /\ th[c] = "off" /\ so' = c /\ th' = [th EXCEPT ![c] = "loop"] /\ peer[c] # "new"
  BY DEF R!Accept, R!client
<1>2. \A d \in Conns : th'[d] = IF d = c THEN "loop" ELSE th[d]
  BY <1>0, <1>1 DEF ToolTypes
<1>3. /\ overlap \subseteq overlap' /\ overlap' \subseteq Conns
      /\ (\E d \in Conns : th[d] \in Running) =>
            c \in overlap' /\ \A d \in Conns : th[d] \in Running => d \in overlap'
  <2>1. \A d \in Conns : th[d] \in Running <=> d \in {e \in Conns : th[e] \notin {"off", "gone"}}
    BY <1>0 DEF ToolTypes, Running
  <2>2. QED
    BY <1>0, <2>1 DEF R!Accept, ToolTypes
<1>4. ToolTypes'
  BY <1>0, <1>1, <1>3 DEF ToolTypes, Running
<1>5. Ends'
  BY <1>0, <1>1, <1>2 DEF Ends
<1>6. OwnF'
  <2> SUFFICES ASSUME NEW d \in Conns
               PROVE  /\ th'[d] = "off" => so' # d /\ d \notin freed'
                      /\ th'[d] \in Running => so' = d \/ (so' \in overlap' /\ d \in overlap')
                      /\ th'[d] \in Running \ {"loop"} => rd'[d] = d \/ (rd'[d] \in overlap' /\ d \in overlap')
                      /\ th'[d] \in Running /\ d \notin overlap' =>
                            d \notin freed' /\ \A e \in Conns : e # d => th'[e] \notin Running
                      /\ th'[d] = "end" /\ d \notin overlap' => peer'[d] = "closed"
    BY DEF OwnF
  <2>1. CASE d = c
    BY <1>0, <1>1, <1>2, <1>3, <2>1 DEF OwnF
  <2>2. CASE d # c
    BY <1>0, <1>1, <1>2, <1>3, <2>2 DEF OwnF, Running
  <2>3. QED
    BY <2>1, <2>2
<1>7. OnTheQuestion' /\ R!RightReply' /\ R!NotCutOff'
  BY <1>0, <1>1, <1>2, <1>3 DEF OnTheQuestion, R!RightReply, R!NotCutOff
<1>8. QED
  BY <1>4, <1>5, <1>6, <1>7 DEF ToolInv

\* recv over a buffer that holds nothing longer leaves the request in it.
LEMMA OverlayWhole ==
    ASSUME NEW old \in Seq(0 .. 9), NEW new \in Seq(0 .. 9), ~(Len(new) < Len(old))
    PROVE  R!Overlay(old, new) = new
<1>1. SubSeq(old, Len(new) + 1, Len(old)) = <<>>
  OBVIOUS
<1>2. QED
  BY <1>1 DEF R!Overlay

\* What a running thread works on is its own, or that of overlapping threads.
LEMMA OthersAlone ==
    ASSUME ToolInv, NEW c \in Conns, th[c] \in Running, NEW d \in Conns, d # c, d \notin overlap
    PROVE  th[d] \notin Running /\ so # d /\ (th[c] # "loop" => rd[c] # d)
BY DEF ToolInv, OwnF

\* A step of a running thread that sends nothing and ends nothing.
LEMMA QuietStep ==
    ASSUME ToolInv, NEW c \in Conns, th[c] \in Running, NEW x \in Running, th' = [th EXCEPT ![c] = x],
           UNCHANGED <<so, freed, peer, question, out, overlap>>,
           mixed \subseteq mixed',
           rd' = rd \/ (rd' = [rd EXCEPT ![c] = so] /\ th[c] = "loop"),
           th[c] = "loop" => rd' = [rd EXCEPT ![c] = so],
           buf' \in [Conns -> Seq(0 .. 9)], req' \in [Conns -> Requests \cup {None}],
           \A d \in Conns : req'[d] = req[d] \/ (req'[d] = None /\ (d = c \/ d \in overlap)),
           x = "end" /\ c \notin overlap => peer[c] = "closed",
           c \notin overlap \cup mixed' /\ (x = "scan" \/ (x = "check" /\ port' # 0)) =>
              /\ out[c] = <<>>
              /\ peer[c] = "open" => question[c] # None /\ req'[c] = None /\ port' = R!Atoi(question[c])
    PROVE  ToolInv'
<1> USE DEF RightService, R!RightService
<1>0. ToolTypes /\ Ends /\ OwnF /\ OnTheQuestion /\ R!RightReply /\ R!NotCutOff
  BY DEF ToolInv
<1>1. \A d \in Conns : th'[d] = IF d = c THEN x ELSE th[d]
  BY <1>0 DEF ToolTypes
<1>2. \A d \in Conns : d # c => rd'[d] = rd[d]
  BY <1>0 DEF ToolTypes
<1>3. (rd'[c] = rd[c] /\ th[c] # "loop") \/ rd'[c] = so
  BY <1>0 DEF ToolTypes
<1>4. ToolTypes'
  <2>1. rd' \in [Conns -> Conns \cup {None}]
    BY <1>0 DEF ToolTypes
  <2>2. th' \in [Conns -> Running \cup {"off", "gone"}]
    BY <1>0 DEF ToolTypes
  <2>3. out' = [d \in Conns |-> out'[d]]
    BY <1>0 DEF ToolTypes
  <2>4. QED
    BY <1>0, <2>1, <2>2, <2>3 DEF ToolTypes
<1>5. Ends'
  BY <1>0, <1>1 DEF Ends, Running
<1>6. OwnF'
  <2>1. ASSUME NEW d \in Conns, d # c
        PROVE  /\ th'[d] = "off" => so' # d /\ d \notin freed'
               /\ th'[d] \in Running => so' = d \/ (so' \in overlap' /\ d \in overlap')
               /\ th'[d] \in Running \ {"loop"} => rd'[d] = d \/ (rd'[d] \in overlap' /\ d \in overlap')
               /\ th'[d] \in Running /\ d \notin overlap' =>
                     d \notin freed' /\ \A e \in Conns : e # d => th'[e] \notin Running
               /\ th'[d] = "end" /\ d \notin overlap' => peer'[d] = "closed"
    BY <1>0, <1>1, <1>2, <2>1, OthersAlone DEF OwnF
  <2>2. /\ th'[c] \in Running /\ th'[c] # "off"
        /\ so' = c \/ (so' \in overlap' /\ c \in overlap')
        /\ rd'[c] = c \/ (rd'[c] \in overlap' /\ c \in overlap')
        /\ c \notin overlap' => c \notin freed' /\ \A e \in Conns : e # c => th'[e] \notin Running
        /\ th'[c] = "end" /\ c \notin overlap' => peer'[c] = "closed"
    BY <1>0, <1>1, <1>3 DEF OwnF, Running
  <2>3. QED
    BY <2>1, <2>2 DEF OwnF
<1>7. OnTheQuestion'
  <2> SUFFICES ASSUME NEW d \in Conns, d \notin overlap \cup mixed'
               PROVE  /\ req'[d] # None /\ peer[d] = "open" => question[d] = req'[d] /\ out[d] = <<>>
                      /\ th'[d] = "scan" \/ (th'[d] = "check" /\ port' # 0) =>
                            /\ out[d] = <<>>
                            /\ peer[d] = "open" =>
                                  question[d] # None /\ req'[d] = None /\ port' = R!Atoi(question[d])
    BY DEF OnTheQuestion
  <2>1. req'[d] # None => req'[d] = req[d]
    OBVIOUS
  <2>2. req'[d] # None /\ peer[d] = "open" => question[d] = req'[d] /\ out[d] = <<>>
    BY <1>0, <2>1 DEF OnTheQuestion
  <2>3. CASE d = c
    BY <1>1, <2>2, <2>3
  <2>4. CASE d # c
    <3>1. th'[d] \notin Running
      BY <1>1, <2>4, OthersAlone
    <3>2. QED
      BY <2>2, <3>1 DEF Running
  <2>5. QED
    BY <2>3, <2>4
<1>8. R!RightReply' /\ R!NotCutOff'
  BY <1>0 DEF R!RightReply, R!NotCutOff
<1>9. QED
  BY <1>4, <1>5, <1>6, <1>7, <1>8 DEF ToolInv

\* A thread that answers, or has nothing more to answer.
LEMMA SendAnswer ==
    ASSUME ToolInv, NEW c \in Conns, NEW x \in {"clear", "loop"}, NEW a,
           th[c] = "scan" \/ (th[c] = "check" /\ port # 0),
           th' = [th EXCEPT ![c] = x], R!Send(a),
           UNCHANGED <<so, port, freed, rd, buf, peer, req, question, overlap, mixed>>,
           a = Missing \/ (a \in {port, Refused} /\ port \in Listed)
    PROVE  ToolInv'
<1> USE DEF RightService, R!RightService
<1>0. ToolTypes /\ Ends /\ OwnF /\ OnTheQuestion /\ R!RightReply /\ R!NotCutOff
  BY DEF ToolInv
<1>1. \A d \in Conns : th'[d] = IF d = c THEN x ELSE th[d]
  BY <1>0 DEF ToolTypes
<1>2. th[c] \in Running /\ x \in Running /\ x # "off" /\ x # "scan" /\ x # "check" /\ x # "end"
  BY DEF Running
<1>3. out' = out \/ (so \in Conns /\ peer[so] = "open" /\ out' = [out EXCEPT ![so] = Append(@, a)])
  <2>1. so \in Conns
    BY <1>0, <1>2 DEF OwnF, ToolTypes
  <2>2. QED
    BY <2>1 DEF R!Send
<1>4. \A d \in Conns : out'[d] = out[d] \/ (d = so /\ peer[d] = "open" /\ out'[d] = Append(out[d], a))
  BY <1>0, <1>3 DEF ToolTypes
<1>5. ToolTypes'
  <2>1. out' = [d \in Conns |-> out'[d]]
    BY <1>0, <1>3 DEF ToolTypes
  <2>2. QED
    BY <1>0, <1>2, <2>1 DEF ToolTypes
<1>6. Ends'
  BY <1>0, <1>1, <1>2, <1>4 DEF Ends, Running
<1>7. OwnF'
  <2>1. \A d \in Conns : th'[d] \in Running <=> th[d] \in Running
    BY <1>1, <1>2
  <2>2. \A d \in Conns : /\ th'[d] = "off" => th[d] = "off"
                         /\ th'[d] = "end" => th[d] = "end"
                         /\ th'[d] \in Running \ {"loop"} => th[d] \in Running \ {"loop"}
    BY <1>1, <1>2 DEF Running
  <2>3. QED
    BY <1>0, <2>1, <2>2 DEF OwnF
<1>8. ASSUME NEW d \in Conns, d # c, d \notin overlap
      PROVE  out'[d] = out[d] /\ th'[d] = th[d]
  BY <1>1, <1>2, <1>4, <1>8, OthersAlone
<1>9. ASSUME c \notin overlap \cup mixed, out'[c] # <<>>
      PROVE  /\ out'[c] = <<a>> /\ question[c] # None /\ port = R!Atoi(question[c])
             /\ peer[c] = "open" /\ req[c] = None
  <2>1. /\ out[c] = <<>>
        /\ peer[c] = "open" => question[c] # None /\ req[c] = None /\ port = R!Atoi(question[c])
    BY <1>0, <1>9 DEF OnTheQuestion
  <2>2. peer[c] = "open" /\ out'[c] = Append(<<>>, a)
    BY <1>4, <1>9, <2>1
  <2>3. QED
    BY <2>1, <2>2
<1>10. OnTheQuestion'
  <2> SUFFICES ASSUME NEW d \in Conns, d \notin overlap \cup mixed
               PROVE  /\ req[d] # None /\ peer[d] = "open" => question[d] = req[d] /\ out'[d] = <<>>
                      /\ th'[d] = "scan" \/ (th'[d] = "check" /\ port # 0) =>
                            /\ out'[d] = <<>>
                            /\ peer[d] = "open" =>
                                  question[d] # None /\ req[d] = None /\ port = R!Atoi(question[d])
    BY DEF OnTheQuestion
  <2>1. CASE d = c
    BY <1>0, <1>1, <1>2, <1>9, <2>1 DEF OnTheQuestion
  <2>2. CASE d # c
    BY <1>0, <1>8, <2>2 DEF OnTheQuestion
  <2>3. QED
    BY <2>1, <2>2
<1>11. R!RightReply'
  <2> SUFFICES ASSUME NEW d \in Conns, d \notin overlap \cup mixed, out'[d] # <<>>
               PROVE  /\ question[d] # None
                      /\ out'[d] \in {<<Missing>>, <<Refused>>, <<R!Atoi(question[d])>>}
                      /\ R!Atoi(question[d]) \notin Listed => out'[d] = <<Missing>>
    BY DEF R!RightReply
  <2>1. CASE d = c
    BY <1>9, <2>1
  <2>2. CASE d # c
    BY <1>0, <1>8, <2>2 DEF R!RightReply
  <2>3. QED
    BY <2>1, <2>2
<1>12. R!NotCutOff'
  BY <1>0 DEF R!NotCutOff
<1>13. QED
  BY <1>5, <1>6, <1>7, <1>10, <1>11, <1>12 DEF ToolInv

\* The threads of RunTool.
LEMMA ServeStep ==
    ASSUME ToolInv, NEW c \in Conns, R!Serve(c)
    PROVE  ToolInv'
<1> USE DEF R!shared, R!threads, R!client, R!history, R!vars
<1>0. ToolTypes /\ Ends /\ OwnF /\ OnTheQuestion
  BY DEF ToolInv
<1>1. CASE R!Loop(c)
  BY <1>0, <1>1, QuietStep DEF R!Loop, Running, ToolTypes
<1>2. CASE R!Receive(c)
  <2>1. /\ UNCHANGED <<so, freed, peer, question, out, overlap, rd>>
        /\ th[c] = "recv" /\ th' = [th EXCEPT ![c] = "scan"] /\ th[c] \in Running /\ "scan" \in Running
        /\ th[c] # "loop"
    BY <1>2 DEF R!Receive, Running
  <2>2. rd[c] = c \/ (rd[c] \in overlap /\ c \in overlap)
    BY <1>0, <2>1 DEF OwnF, Running
  <2>3. rd[c] \in Conns
    BY <1>0, <2>2 DEF ToolTypes
  <2>4. PICK r \in Requests : r = req[rd[c]] /\ r # None
    BY <1>0, <1>2, <2>3 DEF ToolTypes, R!Receive
  <2>5. r \in Seq(0 .. 9) /\ buf[c] \in Seq(0 .. 9)
    BY <1>0, ToolAssumption DEF ToolTypes
  <2>6. /\ req' = [req EXCEPT ![rd[c]] = None]
        /\ buf' = [buf EXCEPT ![c] = R!Overlay(buf[c], r)]
        /\ port' = R!Atoi(R!Overlay(buf[c], r))
        /\ mixed' = IF Len(r) < Len(buf[c]) THEN mixed \cup {rd[c]} ELSE mixed
    BY <1>2, <2>4 DEF R!Receive
  <2>7. R!Overlay(buf[c], r) \in Seq(0 .. 9)
    <3>1. SubSeq(buf[c], Len(r) + 1, Len(buf[c])) \in Seq(0 .. 9)
      BY <2>5
    <3>2. QED
      BY <2>5, <3>1 DEF R!Overlay
  <2>8. buf' \in [Conns -> Seq(0 .. 9)]
    BY <1>0, <2>6, <2>7 DEF ToolTypes
  <2>9. req' \in [Conns -> Requests \cup {None}]
    BY <1>0, <2>6 DEF ToolTypes
  <2>10. \A d \in Conns : req'[d] = IF d = rd[c] THEN None ELSE req[d]
    BY <1>0, <2>6 DEF ToolTypes
  <2>11. \A d \in Conns : req'[d] = req[d] \/ (req'[d] = None /\ (d = c \/ d \in overlap))
    BY <2>2, <2>10
  <2>12. mixed \subseteq mixed'
    BY <2>6
  <2>13. ASSUME c \notin overlap \cup mixed'
         PROVE  /\ out[c] = <<>>
                /\ peer[c] = "open" => question[c] # None /\ req'[c] = None /\ port' = R!Atoi(question[c])
    <3>1. rd[c] = c /\ c \notin mixed
      BY <2>2, <2>12, <2>13
    <3>2. R!Overlay(buf[c], r) = r
      BY <2>5, <2>6, <2>13, <3>1, OverlayWhole
    <3>3. peer[c] = "open" => question[c] = r /\ out[c] = <<>>
      BY <1>0, <2>4, <2>13, <3>1 DEF OnTheQuestion
    <3>4. peer[c] # "open" => out[c] = <<>>
      BY <1>0 DEF Ends
    <3>5. QED
      BY <2>4, <2>6, <2>10, <3>1, <3>2, <3>3, <3>4
  <2>14. QED
    BY <2>1, <2>8, <2>9, <2>11, <2>12, <2>13, QuietStep
<1>3. CASE R!ReceiveEnds(c)
  <2>1. /\ UNCHANGED <<so, port, freed, peer, question, out, overlap, mixed, rd, buf, req>>
        /\ th[c] = "recv" /\ th' = [th EXCEPT ![c] = "end"] /\ th[c] \in Running /\ "end" \in Running
    BY <1>3 DEF R!ReceiveEnds, Running
  <2>2. c \notin overlap => peer[c] = "closed"
    BY <1>0, <1>3, <2>1 DEF R!ReceiveEnds, OwnF, Running
  <2>3. QED
    BY <1>0, <2>1, <2>2, QuietStep DEF ToolTypes
<1>4. CASE R!Found(c)
  BY <1>4, SendAnswer DEF R!Found
<1>5. CASE R!Clear(c)
  <2>1. /\ UNCHANGED <<so, freed, peer, question, out, overlap, mixed, rd, buf, req>> /\ port' = 0
        /\ th[c] = "clear" /\ th' = [th EXCEPT ![c] = "check"] /\ th[c] \in Running /\ "check" \in Running
    BY <1>5 DEF R!Clear, Running
  <2>2. QED
    BY <1>0, <2>1, QuietStep DEF ToolTypes
<1>6. CASE R!NotFound(c)
  <2>1. /\ UNCHANGED <<so, port, freed, peer, question, out, overlap, mixed, rd, buf, req>>
        /\ th[c] = "scan" /\ th' = [th EXCEPT ![c] = "check"] /\ th[c] \in Running /\ "check" \in Running
    BY <1>6 DEF R!NotFound, Running
  <2>2. QED
    BY <1>0, <2>1, QuietStep DEF ToolTypes, OnTheQuestion
<1>7. CASE R!Check(c)
  <2>1. /\ UNCHANGED <<so, port, freed, peer, question, overlap, mixed, rd, buf, req>>
        /\ th[c] = "check" /\ th' = [th EXCEPT ![c] = "loop"]
        /\ IF port # 0 THEN R!Send(Missing) ELSE UNCHANGED out
    BY <1>7 DEF R!Check
  <2>2. CASE port # 0
    BY <2>1, <2>2, SendAnswer
  <2>3. CASE port = 0
    <3>1. th[c] \in Running /\ "loop" \in Running /\ UNCHANGED out
      BY <2>1, <2>3 DEF Running
    <3>2. QED
      BY <1>0, <2>1, <2>3, <3>1, QuietStep DEF ToolTypes
  <2>4. QED
    BY <2>2, <2>3
<1>8. CASE R!Finish(c)
  <2>1. /\ UNCHANGED <<so, port, peer, question, out, overlap, mixed, rd, buf, req>>
        /\ th[c] = "end" /\ th' = [th EXCEPT ![c] = "gone"] /\ th[c] \in Running
        /\ freed' = freed \cup {so}
    BY <1>8 DEF R!Finish, Running
  <2>2. \A d \in Conns : th'[d] = IF d = c THEN "gone" ELSE th[d]
    BY <1>0, <2>1 DEF ToolTypes
  <2>3. so = c \/ (so \in overlap /\ c \in overlap)
    BY <1>0, <2>1 DEF OwnF
  <2>4. ToolTypes' /\ Ends'
    BY <1>0, <2>1, <2>2, <2>3 DEF ToolTypes, Ends
  <2>5. OwnF'
    <3> SUFFICES ASSUME NEW d \in Conns
                 PROVE  /\ th'[d] = "off" => so' # d /\ d \notin freed'
                        /\ th'[d] \in Running => so' = d \/ (so' \in overlap' /\ d \in overlap')
                        /\ th'[d] \in Running \ {"loop"} => rd'[d] = d \/ (rd'[d] \in overlap' /\ d \in overlap')
                        /\ th'[d] \in Running /\ d \notin overlap' =>
                              d \notin freed' /\ \A e \in Conns : e # d => th'[e] \notin Running
                        /\ th'[d] = "end" /\ d \notin overlap' => peer'[d] = "closed"
      BY DEF OwnF
    <3>1. CASE d = c
      BY <2>2, <3>1 DEF Running
    <3>2. CASE d # c
      <4>1. th'[d] = th[d] /\ (th[d] \in Running => d \in overlap)
        BY <2>1, <2>2, <3>2, OthersAlone
      <4>2. QED
        BY <1>0, <2>1, <4>1 DEF OwnF, Running
    <3>3. QED
      BY <3>1, <3>2
  <2>6. OnTheQuestion'
    BY <1>0, <2>1, <2>2 DEF OnTheQuestion
  <2>7. RightService'
    <3>1. R!RightReply'
      BY <2>1 DEF ToolInv, RightService, R!RightService, R!RightReply
    <3>2. c \notin overlap => peer[c] = "closed"
      BY <1>0, <2>1 DEF OwnF
    <3>3. R!NotCutOff'
      BY <2>1, <2>3, <3>2 DEF ToolInv, RightService, R!RightService, R!NotCutOff
    <3>4. QED
      BY <3>1, <3>3 DEF RightService, R!RightService
  <2>8. QED
    BY <2>4, <2>5, <2>6, <2>7 DEF ToolInv
<1>9. QED
  BY <1>1, <1>2, <1>3, <1>4, <1>5, <1>6, <1>7, <1>8, AcceptStep DEF R!Serve

\* The lookup server answers the question that is open, with the remote address
\* of the port that was asked for, a refusal or a miss, and closes a connection
\* only after SyncServer has, unless threads overlapped on the one FindInfo or
\* the request buffer held the tail of a longer port.
THEOREM RightServiceHolds == R!Spec => []RightService
<1>1. ToolInv /\ [R!Next]_R!vars => ToolInv'
  <2> SUFFICES ASSUME ToolInv, [R!Next]_R!vars PROVE ToolInv'
    OBVIOUS
  <2>1. CASE R!Next
    BY <2>1, PeerStep, ServeStep DEF R!Next
  <2>2. CASE UNCHANGED R!vars
    BY <2>2 DEF R!vars, R!shared, R!threads, R!client, R!history, ToolInv, ToolTypes, Ends, OwnF,
                OnTheQuestion, RightService, R!RightService, R!RightReply, R!NotCutOff
  <2>3. QED
    BY <2>1, <2>2
<1>2. ToolInv => RightService
  BY DEF ToolInv
<1>3. QED
  BY <1>1, <1>2, ToolInit, PTL DEF R!Spec

-----------------------------------------------------------------------------
(* ProcessFilter.                                                          *)

\* The shapes of the filter's state; the names left are the ones not used up.
FilterTypes ==
    /\ proc \in [Pids -> Names \cup Others \cup {None}]
    /\ names = Names \ used
    /\ ids \in Seq(Pids)
    /\ search \in [Threads -> {"idle", "tmp", "enum", "record", "refused"}]
    /\ pid \in [Threads -> Pids \cup {None}] /\ hit \in [Threads -> Names \cup {None}]
    /\ \A t \in Threads : /\ search[t] # "idle" => pid[t] \in Pids
                          /\ search[t] \in {"enum", "record"} => tmp \in Pids
    /\ together \in BOOLEAN

\* The one thread that searches has tmpProcessID to itself.
OneSearch ==
    \A t \in Threads : search[t] # "idle" =>
        /\ \A u \in Threads : search[u] # "idle" => u = t
        /\ pid[t] \notin F!ToSet(ids)
        /\ proc[pid[t]] # None \/ pid[t] \in reused
        /\ search[t] \in {"enum", "record", "refused"} => tmp = pid[t]
        /\ search[t] = "record" => hit[t] \in names /\ (proc[pid[t]] = hit[t] \/ pid[t] \in reused)
        /\ search[t] = "refused" => proc[pid[t]] \notin names \/ pid[t] \in reused

\* A remembered id is that of a program of the game, unless that one has ended.
Remember == \A p \in Pids : p \in F!ToSet(ids) => proc[p] \in Names \/ p \in reused

FilterInv == FilterTypes /\ F!OneIdPerName /\ (together \/ (OneSearch /\ Remember))

\* The ids remembered after Record.
LEMMA ToSetAppend ==
    ASSUME NEW s \in Seq(Pids), NEW e \in Pids
    PROVE  F!ToSet(Append(s, e)) = F!ToSet(s) \cup {e}
<1> DEFINE t == Append(s, e)
<1>1. /\ DOMAIN t = 1 .. (Len(s) + 1) /\ DOMAIN s = 1 .. Len(s) /\ Len(s) \in Nat
      /\ t[Len(s) + 1] = e /\ \A i \in DOMAIN s : t[i] = s[i]
  OBVIOUS
<1> HIDE DEF t
<1>2. F!ToSet(t) = {t[i] : i \in DOMAIN t} /\ F!ToSet(s) = {s[i] : i \in DOMAIN s}
  BY DEF F!ToSet
<1>3. \A i \in DOMAIN t : i \in DOMAIN s \/ i = Len(s) + 1
  BY <1>1
<1>4. \A i \in DOMAIN s : i \in DOMAIN t
  BY <1>1
<1>5. Len(s) + 1 \in DOMAIN t
  BY <1>1
<1>6. QED
  BY <1>1, <1>2, <1>3, <1>4, <1>5, Zenon DEF t

\* The instance counts the members of a set as FiniteSets does.
LEMMA FilterCardinality ==
    ASSUME NEW S
    PROVE  F!Cardinality(S) = Cardinality(S)
BY DEF F!Cardinality, Cardinality

\* The initial state.
LEMMA FilterInit == F!Init => FilterInv
<1> SUFFICES ASSUME F!Init PROVE FilterInv
  OBVIOUS
<1> USE DEF F!Init
<1>1. FilterTypes
  <2>1. together \in BOOLEAN
    BY Zenon
  <2>2. ids \in Seq(Pids) /\ names = Names \ used
    OBVIOUS
  <2>3. QED
    BY <2>1, <2>2 DEF FilterTypes
<1>2. F!OneIdPerName
  <2>1. Cardinality(Names) \in Nat
    BY FilterAssumption, FS_CardinalityType
  <2>2. F!Cardinality(names) = Cardinality(Names) /\ F!Cardinality(Names) = Cardinality(Names)
    BY FilterCardinality
  <2>3. Len(ids) = 0
    OBVIOUS
  <2>4. QED
    BY <2>1, <2>2, <2>3 DEF F!OneIdPerName
<1>3. OneSearch /\ Remember
  BY DEF OneSearch, Remember, F!ToSet
<1>4. QED
  BY <1>1, <1>2, <1>3 DEF FilterInv

\* A step that starts no second search beside another keeps the one search.
LEMMA FilterStep ==
    ASSUME FilterInv, F!Next
    PROVE  FilterInv'
<1>0. FilterTypes /\ F!OneIdPerName /\ (together \/ (OneSearch /\ Remember))
  BY DEF FilterInv
<1>1. None \notin Names /\ None \notin Pids
  BY FilterAssumption
<1>2. ASSUME NEW p \in Pids, NEW n \in Names \cup Others, F!Start(p, n)
      PROVE  FilterInv'
  <2>1. /\ UNCHANGED <<names, ids, tmp, search, pid, hit, used, reused, together>>
        /\ proc[p] = None /\ proc' = [proc EXCEPT ![p] = n]
    BY <1>2 DEF F!Start
  <2>2. \A q \in Pids : proc'[q] = IF q = p THEN n ELSE proc[q]
    BY <1>0, <2>1 DEF FilterTypes
  <2>3. FilterTypes' /\ F!OneIdPerName'
    BY <1>0, <2>1 DEF FilterTypes, F!OneIdPerName
  <2>4. ASSUME OneSearch, Remember PROVE OneSearch' /\ Remember'
    <3>1. Remember'
      BY <1>1, <2>1, <2>2, <2>4 DEF Remember
    <3>2. \A t \in Threads : search[t] # "idle" => pid[t] \in Pids
      BY <1>0 DEF FilterTypes
    <3>3. names \subseteq Names
      BY <1>0 DEF FilterTypes
    <3>4. OneSearch'
      BY <1>1, <2>1, <2>2, <2>4, <3>2, <3>3 DEF OneSearch
    <3>5. QED
      BY <3>1, <3>4
  <2>5. QED
    BY <1>0, <2>1, <2>3, <2>4 DEF FilterInv
<1>3. ASSUME NEW p \in Pids, F!Exit(p) PROVE FilterInv'
  <2>1. /\ UNCHANGED <<names, ids, tmp, search, pid, hit, used, together>>
        /\ proc' = [proc EXCEPT ![p] = None] /\ reused \subseteq reused'
        /\ p \in F!ToSet(ids) \/ (\E t \in Threads : search[t] # "idle" /\ pid[t] = p) => p \in reused'
    BY <1>3 DEF F!Exit
  <2>2. \A q \in Pids : proc'[q] = IF q = p THEN None ELSE proc[q]
    BY <1>0, <2>1 DEF FilterTypes
  <2>3. FilterTypes' /\ F!OneIdPerName'
    BY <1>0, <2>1 DEF FilterTypes, F!OneIdPerName
  <2>4. ASSUME OneSearch, Remember PROVE OneSearch' /\ Remember'
    <3>1. Remember'
      BY <2>1, <2>2, <2>4 DEF Remember
    <3>2. \A t \in Threads : search[t] # "idle" => pid[t] \in Pids
      BY <1>0 DEF FilterTypes
    <3>3. OneSearch'
      BY <2>1, <2>2, <2>4, <3>2 DEF OneSearch
    <3>4. QED
      BY <3>1, <3>3
  <2>5. QED
    BY <1>0, <2>1, <2>3, <2>4 DEF FilterInv
<1>4. ASSUME NEW t \in Threads, NEW p \in Pids, F!Check(t, p) PROVE FilterInv'
  <2>1. UNCHANGED <<proc, names, ids, tmp, hit, used, reused>> /\ search[t] = "idle" /\ proc[p] # None
    BY <1>4 DEF F!Check
  <2>2. CASE p \in F!ToSet(ids)
    <3>1. UNCHANGED <<search, pid, together>>
      BY <1>4, <2>2 DEF F!Check
    <3>2. QED
      BY <2>1, <3>1 DEF FilterInv, FilterTypes, F!OneIdPerName, OneSearch, Remember
  <2>3. CASE p \notin F!ToSet(ids)
    <3>1. search' = [search EXCEPT ![t] = "tmp"] /\ pid' = [pid EXCEPT ![t] = p]
      BY <1>4, <2>3 DEF F!Check
    <3>2. together' \in BOOLEAN
      BY <1>4, <2>3, Zenon DEF F!Check
    <3>3. ~together' => ~together /\ \A u \in Threads : search[u] = "idle"
      BY <1>4, <2>3, Zenon DEF F!Check
    <3>4. \A u \in Threads : /\ search'[u] = IF u = t THEN "tmp" ELSE search[u]
                             /\ pid'[u] = IF u = t THEN p ELSE pid[u]
      BY <1>0, <3>1 DEF FilterTypes
    <3>5. FilterTypes'
      <4>1. search' \in [Threads -> {"idle", "tmp", "enum", "record", "refused"}]
            /\ pid' \in [Threads -> Pids \cup {None}]
        BY <1>0, <3>1 DEF FilterTypes
      <4>2. \A u \in Threads : /\ search'[u] # "idle" => pid'[u] \in Pids
                               /\ search'[u] \in {"enum", "record"} => tmp \in Pids
        BY <1>0, <3>4 DEF FilterTypes
      <4>3. QED
        BY <1>0, <2>1, <3>2, <4>1, <4>2 DEF FilterTypes
    <3>6. F!OneIdPerName'
      <4>1. together \/ Len(ids) + F!Cardinality(names) = F!Cardinality(Names)
        BY <1>0 DEF F!OneIdPerName
      <4>2. together' \/ Len(ids) + F!Cardinality(names) = F!Cardinality(Names)
        BY <3>3, <4>1, Zenon
      <4>3. QED
        BY <2>1, <4>2, Zenon DEF F!OneIdPerName
    <3>7. ASSUME ~together' PROVE OneSearch' /\ Remember'
      <4>1. ~together /\ \A u \in Threads : search[u] = "idle"
        BY <3>3, <3>7, Zenon
      <4>2. Remember
        BY <1>0, <4>1
      <4>3. OneSearch' /\ Remember'
        BY <2>1, <2>3, <3>4, <4>1, <4>2 DEF OneSearch, Remember
      <4>4. QED
        BY <4>3
    <3>8. QED
      BY <3>5, <3>6, <3>7, Zenon DEF FilterInv
  <2>4. QED
    BY <2>2, <2>3
<1>5. ASSUME NEW t \in Threads, F!SetTmp(t) PROVE FilterInv'
  <2>1. /\ UNCHANGED <<proc, names, ids, pid, hit, used, reused, together>>
        /\ search[t] = "tmp" /\ tmp' = pid[t]
        /\ search' = [search EXCEPT ![t] = IF names = {} THEN "refused" ELSE "enum"]
    BY <1>5 DEF F!SetTmp
  <2>2. \A u \in Threads : search'[u] = IF u = t THEN (IF names = {} THEN "refused" ELSE "enum") ELSE search[u]
    BY <1>0, <2>1 DEF FilterTypes
  <2>3. FilterTypes' /\ F!OneIdPerName'
    BY <1>0, <2>1, <2>2 DEF FilterTypes, F!OneIdPerName
  <2>4. ASSUME OneSearch, Remember PROVE OneSearch' /\ Remember'
    BY <2>1, <2>2, <2>4 DEF OneSearch, Remember
  <2>5. QED
    BY <1>0, <2>1, <2>3, <2>4 DEF FilterInv
<1>6. ASSUME NEW t \in Threads, F!Enumerate(t) PROVE FilterInv'
  <2>1. /\ UNCHANGED <<proc, names, ids, tmp, pid, used, reused, together>> /\ search[t] = "enum"
        /\ \/ /\ proc[tmp] \in names /\ hit' = [hit EXCEPT ![t] = proc[tmp]]
              /\ search' = [search EXCEPT ![t] = "record"]
           \/ /\ proc[tmp] \notin names /\ hit' = hit
              /\ search' = [search EXCEPT ![t] = "refused"]
    BY <1>6 DEF F!Enumerate
  <2>2. names \subseteq Names /\ tmp \in Pids
    BY <1>0, <2>1 DEF FilterTypes
  <2>3. \A u \in Threads : u # t => search'[u] = search[u] /\ hit'[u] = hit[u]
    BY <1>0, <2>1 DEF FilterTypes
  <2>4. \/ search'[t] = "record" /\ proc[tmp] \in names /\ hit'[t] = proc[tmp]
        \/ search'[t] = "refused" /\ proc[tmp] \notin names
    BY <1>0, <2>1 DEF FilterTypes
  <2>5. FilterTypes' /\ F!OneIdPerName'
    <3>1. hit' \in [Threads -> Names \cup {None}]
      BY <1>0, <2>1, <2>2 DEF FilterTypes
    <3>2. search' \in [Threads -> {"idle", "tmp", "enum", "record", "refused"}]
      BY <1>0, <2>1 DEF FilterTypes
    <3>3. \A u \in Threads : search'[u] # "idle" => pid[u] \in Pids
      BY <1>0, <2>1, <2>3 DEF FilterTypes
    <3>4. QED
      BY <1>0, <2>1, <2>2, <3>1, <3>2, <3>3 DEF FilterTypes, F!OneIdPerName
  <2>6. ASSUME OneSearch, Remember PROVE OneSearch' /\ Remember'
    <3>1. tmp = pid[t]
      BY <2>1, <2>6 DEF OneSearch
    <3>2. OneSearch'
      BY <2>1, <2>3, <2>4, <2>6, <3>1 DEF OneSearch
    <3>3. QED
      BY <2>1, <2>6, <3>2 DEF Remember
  <2>7. QED
    BY <1>0, <2>1, <2>5, <2>6 DEF FilterInv
<1>7. ASSUME NEW t \in Threads, F!Record(t) PROVE FilterInv'
  <2>1. /\ UNCHANGED <<proc, tmp, reused, together>> /\ search[t] = "record"
        /\ names' = names \ {hit[t]} /\ used' = used \cup {hit[t]}
        /\ ids' = Append(ids, tmp)
        /\ search' = [search EXCEPT ![t] = "idle"]
        /\ pid' = [pid EXCEPT ![t] = None] /\ hit' = [hit EXCEPT ![t] = None]
    BY <1>7 DEF F!Record
  <2>2. tmp \in Pids /\ ids \in Seq(Pids) /\ ids' \in Seq(Pids) /\ Len(ids') = Len(ids) + 1
    BY <1>0, <2>1 DEF FilterTypes
  <2>3. F!ToSet(ids') = F!ToSet(ids) \cup {tmp}
    BY <2>1, <2>2, ToSetAppend
  <2>4. \A u \in Threads : /\ search'[u] = IF u = t THEN "idle" ELSE search[u]
                           /\ u # t => pid'[u] = pid[u] /\ hit'[u] = hit[u]
    BY <1>0, <2>1 DEF FilterTypes
  <2>5. FilterTypes'
    <3>1. names' = Names \ used'
      BY <1>0, <2>1 DEF FilterTypes
    <3>2. /\ search' \in [Threads -> {"idle", "tmp", "enum", "record", "refused"}]
          /\ pid' \in [Threads -> Pids \cup {None}] /\ hit' \in [Threads -> Names \cup {None}]
      BY <1>0, <2>1 DEF FilterTypes
    <3>3. \A u \in Threads : /\ search'[u] # "idle" => pid'[u] \in Pids
                             /\ search'[u] \in {"enum", "record"} => tmp \in Pids
      BY <1>0, <2>4 DEF FilterTypes
    <3>4. QED
      BY <1>0, <2>1, <2>2, <3>1, <3>2, <3>3 DEF FilterTypes
  <2>6. ASSUME OneSearch, Remember PROVE OneSearch' /\ Remember'
    <3>1. /\ hit[t] \in Names /\ tmp = pid[t] /\ (proc[tmp] = hit[t] \/ tmp \in reused)
          /\ \A u \in Threads : search'[u] = "idle"
      BY <1>0, <2>1, <2>4, <2>6 DEF OneSearch, FilterTypes
    <3>2. Remember'
      BY <2>1, <2>3, <2>6, <3>1 DEF Remember
    <3>3. OneSearch'
      BY <3>1 DEF OneSearch
    <3>4. QED
      BY <3>2, <3>3
  <2>7. F!OneIdPerName'
    <3>1. CASE together
      BY <2>1, <3>1 DEF F!OneIdPerName
    <3>2. CASE ~together
      <4>1. hit[t] \in names /\ IsFiniteSet(names)
        <5>1. hit[t] \in names
          BY <1>0, <2>1, <3>2 DEF OneSearch
        <5>2. IsFiniteSet(names)
          BY <1>0, FilterAssumption, FS_Subset DEF FilterTypes
        <5>3. QED
          BY <5>1, <5>2
      <4>2. Cardinality(names') = Cardinality(names) - 1 /\ Cardinality(names) \in Nat
        BY <2>1, <4>1, FS_RemoveElement, FS_CardinalityType
      <4>3. Len(ids) + Cardinality(names) = Cardinality(Names) /\ Len(ids) \in Nat
        BY <1>0, <2>2, <3>2, FilterCardinality DEF F!OneIdPerName
      <4>4. Len(ids') + Cardinality(names') = Cardinality(Names)
        BY <2>2, <4>2, <4>3
      <4>5. QED
        BY <4>4, FilterCardinality DEF F!OneIdPerName
    <3>3. QED
      BY <3>1, <3>2
  <2>8. QED
    BY <1>0, <2>1, <2>5, <2>6, <2>7 DEF FilterInv
<1>8. ASSUME NEW t \in Threads, F!Kill(t) PROVE FilterInv'
  <2>1. /\ UNCHANGED <<names, ids, tmp, hit, used, together>> /\ search[t] = "refused"
        /\ proc' = [proc EXCEPT ![pid[t]] = None] /\ reused \subseteq reused'
        /\ search' = [search EXCEPT ![t] = "idle"] /\ pid' = [pid EXCEPT ![t] = None]
    BY <1>8 DEF F!Kill
  <2>2. \A u \in Threads : /\ search'[u] = IF u = t THEN "idle" ELSE search[u]
                           /\ u # t => pid'[u] = pid[u]
    BY <1>0, <2>1 DEF FilterTypes
  <2>3. \A q \in Pids : q # pid[t] => proc'[q] = proc[q]
    BY <1>0, <2>1 DEF FilterTypes
  <2>4. FilterTypes' /\ F!OneIdPerName'
    <3>1. /\ search' \in [Threads -> {"idle", "tmp", "enum", "record", "refused"}]
          /\ pid' \in [Threads -> Pids \cup {None}]
          /\ proc' \in [Pids -> Names \cup Others \cup {None}]
      BY <1>0, <2>1 DEF FilterTypes
    <3>2. \A u \in Threads : /\ search'[u] # "idle" => pid'[u] \in Pids
                             /\ search'[u] \in {"enum", "record"} => tmp \in Pids
      BY <1>0, <2>2 DEF FilterTypes
    <3>3. QED
      BY <1>0, <2>1, <3>1, <3>2 DEF FilterTypes, F!OneIdPerName
  <2>5. ASSUME OneSearch, Remember PROVE OneSearch' /\ Remember'
    <3>1. pid[t] \notin F!ToSet(ids) /\ \A u \in Threads : search'[u] = "idle"
      BY <2>1, <2>2, <2>5 DEF OneSearch
    <3>2. Remember'
      BY <2>1, <2>3, <2>5, <3>1 DEF Remember
    <3>3. OneSearch'
      BY <3>1 DEF OneSearch
    <3>4. QED
      BY <3>2, <3>3
  <2>6. QED
    BY <1>0, <2>1, <2>4, <2>5 DEF FilterInv
<1>9. QED
  BY <1>2, <1>3, <1>4, <1>5, <1>6, <1>7, <1>8 DEF F!Next

\* Filters::check admits a program that is not in ProcessNames, refuses one whose
\* name is left, or remembers a second id for a name, only after an id was given
\* out again, a name came up twice, or two threads shared tmpProcessID.
THEOREM FilterRightHolds == F!Spec => FilterRight
<1>1. FilterInv /\ [F!Next]_F!vars => FilterInv'
  <2> SUFFICES ASSUME FilterInv, [F!Next]_F!vars PROVE FilterInv'
    OBVIOUS
  <2>1. CASE F!Next
    BY <2>1, FilterStep
  <2>2. CASE UNCHANGED F!vars
    BY <2>2 DEF F!vars, FilterInv, FilterTypes, F!OneIdPerName, OneSearch, Remember
  <2>3. QED
    BY <2>1, <2>2
<1>2. FilterInv => F!OneIdPerName
  BY DEF FilterInv
<1>3. FilterInv => \A t \in Threads, p \in Pids :
         /\ (F!Check(t, p) /\ p \in F!ToSet(ids)) \/ (F!Record(t) /\ p = pid[t])
         /\ proc[p] \in Others
         => p \in reused \/ together
  <2> SUFFICES ASSUME FilterInv, ~together, NEW t \in Threads, NEW p \in Pids, proc[p] \in Others,
                      (F!Check(t, p) /\ p \in F!ToSet(ids)) \/ (F!Record(t) /\ p = pid[t])
               PROVE  p \in reused
    BY Zenon
  <2>1. OneSearch /\ Remember /\ proc[p] \notin Names /\ names \subseteq Names
    BY FilterAssumption DEF FilterInv, FilterTypes
  <2>2. CASE p \in F!ToSet(ids)
    BY <2>1, <2>2 DEF Remember
  <2>3. CASE search[t] = "record" /\ p = pid[t]
    BY <2>1, <2>3 DEF OneSearch
  <2>4. QED
    BY <2>2, <2>3 DEF F!Record
<1>4. FilterInv => \A t \in Threads : F!Kill(t) /\ proc[pid[t]] \in Names =>
         proc[pid[t]] \in used \/ pid[t] \in reused \/ together
  <2> SUFFICES ASSUME FilterInv, ~together, NEW t \in Threads, F!Kill(t), proc[pid[t]] \in Names
               PROVE  proc[pid[t]] \in used \/ pid[t] \in reused
    BY Zenon
  <2>1. OneSearch /\ names = Names \ used /\ search[t] = "refused"
    BY DEF FilterInv, FilterTypes, F!Kill
  <2>2. QED
    BY <2>1 DEF OneSearch
<1>5. QED
  BY <1>1, <1>2, <1>3, <1>4, FilterInit, PTL
     DEF F!Spec, FilterRight, F!FilterRight, F!NoStranger, F!KilledForAReason
=============================================================================
