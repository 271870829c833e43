----------------------------- MODULE RelayProofs -----------------------------
(*****************************************************************************)
(* Proofs about a host's relays, for any set of relays, any capacity of      *)
(* ConnChan and of exit and any number of chunks. RelayPool: typing, the     *)
(* balance of questions and answers, the right answer for lookups that do    *)
(* not overlap, and the refinement of Lookup. RelayPipe: a relay is cut for  *)
(* a reason.                                                                 *)
(*****************************************************************************)
EXTENDS MCRelay, FiniteSetTheorems, TLAPS

\* ConnChan holds connections that are queued, each of them once, so the
\* dispatcher starts a connection once.
Queued ==
    /\ \A i \in 1..Len(connChan) : st[connChan[i]] = "queued"
    /\ \A i, j \in 1..Len(connChan) : connChan[i] = connChan[j] => i = j

\* The connection to RunTool carries at most the question being asked or its
\* answer, and only between the Write and the end of the Read; a question is
\* never left on a link that broke.
OnWire ==
    /\ pc \in BusyPC => cur \in Conns
    /\ wire.kind # "none" => pc \in {"read", "fill"} /\ wire.from = cur
    /\ pc = "fill" => wire.kind \in {"addr", "short"}
    /\ pc = "put" => buf = cur
    /\ link # "up" => wire.kind # "req"

\* Two lookups that are open at the same time both know it.
Overlapped == \A c, d \in Open : c # d => c \in overlap

\* While a lookup is alone, whatever is in In, in SyncServer's hands, in Out
\* and in buf is its own.
AloneAt(c) ==
    /\ st[c] = "asked" =>
          /\ in # NoConn => in = c
          /\ pc \in BusyPC => cur = c
          /\ out.kind = "addr" => out.of = c /\ buf = c
    /\ st[c] = "holding" => hold[c] = c /\ buf = c

Alone == \A c \in Conns \ overlap : AloneAt(c)

Counted == IsFiniteSet(Asked) /\ Balance

IInv ==
    /\ TypeOK
    /\ Queued
    /\ Counted
    /\ OnWire
    /\ Overlapped
    /\ Alone
    /\ OwnAnswer

-----------------------------------------------------------------------------
(* Typing and the connection to RunTool.                                   *)

\* Every step of the pool keeps the types, given what the wire carries.
LEMMA TypeStep == TypeOK /\ OnWire /\ [Next]_vars => TypeOK'
<1> SUFFICES ASSUME TypeOK, OnWire, [Next]_vars PROVE TypeOK'
    OBVIOUS
<1> USE DEF TypeOK
<1>1. ASSUME NEW c \in Conns, Enqueue(c) PROVE TypeOK'
  <2>1. st' \in [Conns -> Stages]
    BY <1>1 DEF Enqueue, Stages
  <2>2. connChan' \in Seq(Conns) /\ Len(connChan') = Len(connChan) + 1
    BY <1>1 DEF Enqueue
  <2>3. Len(connChan') <= ConnCap
    BY <1>1, <2>2, ConnCapAssumption DEF Enqueue
  <2>4. QED
    BY <1>1, <2>1, <2>2, <2>3 DEF Enqueue, relayVars, syncVars, netVars
<1>2. ASSUME NEW c \in Conns, AskIn(c) PROVE TypeOK'
    BY <1>2 DEF AskIn, Stages, Open, relayVars, syncVars, netVars
<1>3. ASSUME NEW c \in Conns, TakeOut(c) PROVE TypeOK'
    BY <1>3 DEF TakeOut, Stages, Slices, EmptyOut, Content, Results, relayVars, syncVars, netVars
<1>4. ASSUME NEW c \in Conns, CopyAddr(c) PROVE TypeOK'
    BY <1>4 DEF CopyAddr, Stages, Copies, Content, Results, relayVars, syncVars, netVars
<1>5. ASSUME NEW c \in Conns, GetConn(c) PROVE TypeOK'
    BY <1>5 DEF GetConn, Stages, relayVars, syncVars, netVars
<1>6. ASSUME NEW c \in Conns, PipeEnd(c) PROVE TypeOK'
    BY <1>6 DEF PipeEnd, Stages, relayVars, syncVars, netVars
<1>7. CASE Dispatch
  <2>1. st' \in [Conns -> Stages]
    BY <1>7 DEF Dispatch, Stages
  <2>2. connChan' \in Seq(Conns) /\ Len(connChan') = Len(connChan) - 1
    BY <1>7 DEF Dispatch
  <2>3. Len(connChan') <= ConnCap
    BY <1>7, <2>2, ConnCapAssumption DEF Dispatch
  <2>4. QED
    BY <1>7, <2>1, <2>2, <2>3 DEF Dispatch, relayVars, syncVars, netVars
<1>8. CASE SyncDial
    BY <1>8 DEF SyncDial, SyncPC, BusyPC, Messages, NoMsg, relayVars, syncVars, netVars
<1>9. CASE SyncTake
    BY <1>9 DEF SyncTake, SyncPC, BusyPC, relayVars, syncVars, netVars
<1>10. CASE SyncWrite
    BY <1>10 DEF SyncWrite, SyncPC, BusyPC, Messages, relayVars, syncVars, netVars
<1>11. CASE SyncWriteFails
    BY <1>11 DEF SyncWriteFails, SyncPC, BusyPC, relayVars, syncVars, netVars
<1>12. CASE SyncRead
    BY <1>12 DEF SyncRead, SyncPC, BusyPC, Content, relayVars, syncVars, netVars
<1>13. CASE SyncReadFails
    BY <1>13 DEF SyncReadFails, SyncPC, BusyPC, relayVars, syncVars, netVars
<1>14. CASE SyncFill
    BY <1>14 DEF SyncFill, SyncPC, BusyPC, Content, OnWire, Messages, NoMsg, relayVars, syncVars, netVars
<1>15. CASE SyncPut
    BY <1>15 DEF SyncPut, SyncPC, Slices, relayVars, syncVars, netVars
<1>16. CASE SyncPutErr
    BY <1>16 DEF SyncPutErr, SyncPC, Slices, ErrorOut, Content, relayVars, syncVars, netVars
<1>17. CASE PeerAnswer
    BY <1>17 DEF PeerAnswer, Messages, NoMsg, relayVars, syncVars, netVars
<1>18. CASE LinkBreaks
    BY <1>18 DEF LinkBreaks, Messages, NoMsg, relayVars, syncVars, netVars
<1>19. CASE UNCHANGED vars
    BY <1>19 DEF vars, relayVars, syncVars, netVars
<1>20. QED
    BY <1>1, <1>2, <1>3, <1>4, <1>5, <1>6, <1>7, <1>8, <1>9, <1>10, <1>11, <1>12, <1>13, <1>14, <1>15, <1>16, <1>17, <1>18, <1>19 DEF Next, Relay, SyncServer

\* Every step keeps what the connection to RunTool may carry.
LEMMA WireStep == TypeOK /\ OnWire /\ [Next]_vars => OnWire'
<1> SUFFICES ASSUME TypeOK, OnWire, [Next]_vars PROVE OnWire'
    OBVIOUS
<1> USE DEF OnWire, BusyPC
<1>1. ASSUME NEW c \in Conns, Relay(c) PROVE OnWire'
    BY <1>1 DEF Relay, Enqueue, AskIn, TakeOut, CopyAddr, GetConn, PipeEnd,
                syncVars, netVars
<1>2. CASE Dispatch
    BY <1>2 DEF Dispatch, syncVars, netVars
<1>3. CASE SyncDial
    BY <1>3 DEF SyncDial, NoMsg
<1>4. CASE SyncTake
    BY <1>4 DEF SyncTake, netVars, TypeOK
<1>5. CASE SyncWrite
    BY <1>5 DEF SyncWrite
<1>6. CASE SyncWriteFails
    BY <1>6 DEF SyncWriteFails
<1>7. CASE SyncRead
    BY <1>7 DEF SyncRead, netVars
<1>8. CASE SyncReadFails
    BY <1>8 DEF SyncReadFails, TypeOK, Messages, NoMsg
<1>9. CASE SyncFill
    BY <1>9 DEF SyncFill, NoMsg, TypeOK, Messages
<1>10. CASE SyncPut
    BY <1>10 DEF SyncPut, netVars
<1>11. CASE SyncPutErr
    BY <1>11 DEF SyncPutErr, netVars
<1>12. CASE PeerAnswer
    BY <1>12 DEF PeerAnswer, syncVars, TypeOK, Messages
<1>13. CASE LinkBreaks
    BY <1>13 DEF LinkBreaks, syncVars, NoMsg
<1>14. CASE UNCHANGED vars
    BY <1>14 DEF vars, syncVars, netVars
<1>15. QED
    BY <1>1, <1>2, <1>3, <1>4, <1>5, <1>6, <1>7, <1>8, <1>9, <1>10, <1>11, <1>12, <1>13, <1>14 DEF Next, SyncServer

\* Every step keeps ConnChan a queue of queued connections without repetition.
LEMMA QueuedStep == TypeOK /\ Queued /\ [Next]_vars => Queued'
<1> SUFFICES ASSUME TypeOK, Queued, [Next]_vars PROVE Queued'
    OBVIOUS
<1> USE DEF Queued
<1>1. ASSUME NEW c \in Conns, Enqueue(c) PROVE Queued'
  <2>1. /\ Len(connChan') = Len(connChan) + 1
        /\ connChan'[Len(connChan) + 1] = c
        /\ \A i \in 1..Len(connChan) : connChan'[i] = connChan[i]
        /\ \A i \in 1..Len(connChan) : connChan[i] \in Conns
        /\ Len(connChan) \in Nat
    BY <1>1 DEF Enqueue, TypeOK
  <2>2. \A i \in 1..Len(connChan) : connChan[i] # c
    BY <1>1 DEF Enqueue
  <2>3. st' = [st EXCEPT ![c] = "queued"] /\ st \in [Conns -> Stages]
    BY <1>1 DEF Enqueue, TypeOK
  <2>4. QED
    BY <2>1, <2>2, <2>3
<1>2. CASE Dispatch
  <2>1. /\ Len(connChan') = Len(connChan) - 1
        /\ Len(connChan) \in Nat \ {0}
        /\ \A i \in 1..(Len(connChan) - 1) : connChan'[i] = connChan[i + 1]
        /\ \A i \in 1..Len(connChan) : connChan[i] \in Conns
        /\ Head(connChan) = connChan[1]
    BY <1>2 DEF Dispatch, TypeOK
  <2>2. st' = [st EXCEPT ![connChan[1]] = "started"] /\ st \in [Conns -> Stages]
    BY <1>2, <2>1 DEF Dispatch, TypeOK
  <2>3. ASSUME NEW i \in 1..Len(connChan')
        PROVE  i + 1 \in 1..Len(connChan) /\ connChan'[i] = connChan[i + 1]
    BY <2>1
  <2>4. ASSUME NEW i \in 1..Len(connChan') PROVE st'[connChan'[i]] = "queued"
    <3>1. connChan[i + 1] # connChan[1] /\ connChan[i + 1] \in Conns
      BY <2>1, <2>3
    <3>2. st[connChan[i + 1]] = "queued"
      BY <2>3
    <3>3. QED
      BY <2>2, <2>3, <3>1, <3>2
  <2>5. ASSUME NEW i \in 1..Len(connChan'), NEW j \in 1..Len(connChan'),
               connChan'[i] = connChan'[j]
        PROVE  i = j
    <3>1. i + 1 = j + 1
      BY <2>3, <2>5
    <3>2. QED
      BY <2>1, <3>1
  <2>6. QED
    BY <2>4, <2>5
<1>3. ASSUME NEW c \in Conns,
             AskIn(c) \/ TakeOut(c) \/ CopyAddr(c) \/ GetConn(c) \/ PipeEnd(c)
      PROVE  Queued'
  <2>1. connChan' = connChan /\ st[c] # "queued"
    BY <1>3 DEF AskIn, TakeOut, CopyAddr, GetConn, PipeEnd
  <2>2. \A d \in Conns : d # c => st'[d] = st[d]
    BY <1>3 DEF AskIn, TakeOut, CopyAddr, GetConn, PipeEnd, TypeOK
  <2>3. \A i \in 1..Len(connChan) : connChan[i] \in Conns /\ connChan[i] # c
    BY <2>1 DEF TypeOK
  <2>4. QED
    BY <2>1, <2>2, <2>3
<1>4. CASE SyncServer \/ PeerAnswer \/ LinkBreaks \/ UNCHANGED vars
  <2>1. connChan' = connChan /\ st' = st
    BY <1>4 DEF SyncServer, SyncDial, SyncTake, SyncWrite, SyncWriteFails,
                SyncRead, SyncReadFails, SyncFill, SyncPut, SyncPutErr,
                PeerAnswer, LinkBreaks, vars, relayVars
  <2>2. QED
    BY <2>1
<1>5. QED
    BY <1>1, <1>2, <1>3, <1>4 DEF Next, Relay

-----------------------------------------------------------------------------
(* Questions and answers.                                                  *)

\* With no relay waiting there is no question and no answer anywhere.
LEMMA NoneAsked ==
    ASSUME TypeOK, Counted, Asked = {}
    PROVE  in = NoConn /\ pc \notin BusyPC /\ out.kind = "empty"
BY FS_EmptySet DEF Counted, Balance, Tokens, Busy, TypeOK

\* A relay that waits and has overlapped no other is the only one waiting.
LEMMA OneAsked ==
    ASSUME TypeOK, Counted, Overlapped,
           NEW c \in Conns \ overlap, st[c] = "asked"
    PROVE  Tokens = 1
<1>1. Asked = {c}
    BY DEF Asked, Open, Overlapped
<1>2. QED
    BY <1>1, FS_Singleton DEF Counted, Balance

\* While a relay that has overlapped no other holds its slice nobody waits.
LEMMA HoldingAlone ==
    ASSUME TypeOK, Counted, Overlapped,
           NEW c \in Conns \ overlap, st[c] = "holding"
    PROVE  pc \notin BusyPC
<1>1. Asked = {}
    BY DEF Asked, Open, Overlapped
<1>2. QED
    BY <1>1, NoneAsked

\* Every step keeps as many questions and answers as there are relays waiting.
LEMMA CountedStep ==
    TypeOK /\ OnWire /\ Queued /\ Counted /\ [Next]_vars => Counted'
<1> SUFFICES ASSUME TypeOK, OnWire, Queued, Counted, [Next]_vars PROVE Counted'
    OBVIOUS
<1>0. Cardinality(Asked) \in Nat
    BY FS_CardinalityType DEF Counted
<1>1. ASSUME NEW c \in Conns, AskIn(c) PROVE Counted'
  <2>1. Asked' = Asked \cup {c} /\ c \notin Asked
    BY <1>1 DEF AskIn, Asked, TypeOK, Stages
  <2>2. IsFiniteSet(Asked') /\ Cardinality(Asked') = Cardinality(Asked) + 1
    BY <2>1, FS_AddElement DEF Counted
  <2>3. Tokens' = Tokens + 1
    BY <1>1, NoConnAssumption DEF AskIn, Tokens, Busy, syncVars
  <2>4. QED
    BY <2>2, <2>3 DEF Counted, Balance
<1>2. ASSUME NEW c \in Conns, TakeOut(c) PROVE Counted'
  <2>1. Asked' = Asked \ {c} /\ c \in Asked
    BY <1>2 DEF TakeOut, Asked, TypeOK, Stages
  <2>2. IsFiniteSet(Asked') /\ Cardinality(Asked') = Cardinality(Asked) - 1
    BY <2>1, FS_RemoveElement DEF Counted
  <2>3. Tokens' = Tokens - 1
    BY <1>2 DEF TakeOut, Tokens, Busy, syncVars, EmptyOut
  <2>4. QED
    BY <2>2, <2>3, <1>0 DEF Counted, Balance
<1>3. ASSUME NEW c \in Conns, Enqueue(c) \/ CopyAddr(c) \/ GetConn(c) \/ PipeEnd(c)
      PROVE  Counted'
  <2>1. Asked' = Asked
    BY <1>3 DEF Enqueue, CopyAddr, GetConn, PipeEnd, Asked, TypeOK, Stages
  <2>2. Tokens' = Tokens
    BY <1>3 DEF Enqueue, CopyAddr, GetConn, PipeEnd, Tokens, Busy, syncVars
  <2>3. QED
    BY <2>1, <2>2 DEF Counted, Balance
<1>4. CASE Dispatch
  <2>1. Head(connChan) \in Conns /\ st[Head(connChan)] = "queued"
    BY <1>4 DEF Dispatch, Queued, TypeOK
  <2>2. Asked' = Asked
    BY <1>4, <2>1 DEF Dispatch, Asked, TypeOK, Stages
  <2>3. Tokens' = Tokens
    BY <1>4 DEF Dispatch, Tokens, Busy, syncVars
  <2>4. QED
    BY <2>2, <2>3 DEF Counted, Balance
<1>5. CASE SyncServer
  <2>1. Asked' = Asked
    BY <1>5 DEF SyncServer, SyncDial, SyncTake, SyncWrite, SyncWriteFails,
                SyncRead, SyncReadFails, SyncFill, SyncPut, SyncPutErr,
                Asked, relayVars
  <2>2. Tokens' = Tokens
    <3> USE DEF Tokens, Busy, BusyPC
    <3>1. CASE SyncDial \/ SyncWrite \/ SyncWriteFails \/ SyncRead \/ SyncReadFails \/ SyncFill
      BY <3>1 DEF SyncDial, SyncWrite, SyncWriteFails, SyncRead, SyncReadFails, SyncFill
    <3>2. CASE SyncTake
      BY <3>2 DEF SyncTake
    <3>3. CASE SyncPut \/ SyncPutErr
      BY <3>3 DEF SyncPut, SyncPutErr, ErrorOut
    <3>4. QED
      BY <1>5, <3>1, <3>2, <3>3 DEF SyncServer
  <2>3. QED
    BY <2>1, <2>2 DEF Counted, Balance
<1>6. CASE PeerAnswer \/ LinkBreaks \/ UNCHANGED vars
  <2>1. Asked' = Asked /\ Tokens' = Tokens
    BY <1>6 DEF PeerAnswer, LinkBreaks, vars, relayVars, syncVars, Asked, Tokens, Busy
  <2>2. QED
    BY <2>1 DEF Counted, Balance
<1>7. QED
    BY <1>1, <1>2, <1>3, <1>4, <1>5, <1>6 DEF Next, Relay

\* Every step keeps the record of which lookups have overlapped.
LEMMA OverlappedStep ==
    TypeOK /\ Queued /\ Overlapped /\ [Next]_vars => Overlapped'
<1> SUFFICES ASSUME TypeOK, Queued, Overlapped, [Next]_vars PROVE Overlapped'
    OBVIOUS
<1> USE DEF Overlapped
<1>1. ASSUME NEW c \in Conns, AskIn(c) PROVE Overlapped'
  <2>1. Open' = Open \cup {c}
    BY <1>1 DEF AskIn, Open, TypeOK, Stages
  <2>2. QED
    BY <1>1, <2>1 DEF AskIn
<1>2. ASSUME NEW c \in Conns,
             Enqueue(c) \/ TakeOut(c) \/ CopyAddr(c) \/ GetConn(c) \/ PipeEnd(c)
      PROVE  Overlapped'
  <2>1. Open' \subseteq Open /\ overlap' = overlap
    BY <1>2 DEF Enqueue, TakeOut, CopyAddr, GetConn, PipeEnd, Open, TypeOK, Stages
  <2>2. QED
    BY <2>1
<1>3. CASE Dispatch
  <2>1. Open' \subseteq Open /\ overlap' = overlap
    BY <1>3 DEF Dispatch, Open, TypeOK, Stages
  <2>2. QED
    BY <2>1
<1>4. CASE SyncServer \/ PeerAnswer \/ LinkBreaks \/ UNCHANGED vars
  <2>1. Open' = Open /\ overlap' = overlap
    BY <1>4 DEF SyncServer, SyncDial, SyncTake, SyncWrite, SyncWriteFails,
                SyncRead, SyncReadFails, SyncFill, SyncPut, SyncPutErr,
                PeerAnswer, LinkBreaks, vars, relayVars, Open
  <2>2. QED
    BY <2>1
<1>5. QED
    BY <1>1, <1>2, <1>3, <1>4 DEF Next, Relay

-----------------------------------------------------------------------------
(* The right answer.                                                       *)

\* A step of SyncServer or of the network keeps what is a lone relay's own.
LEMMA AloneSync ==
    ASSUME TypeOK, Counted, OnWire, Overlapped,
           SyncServer \/ PeerAnswer \/ LinkBreaks,
           NEW c \in Conns \ overlap, AloneAt(c)
    PROVE  AloneAt(c)'
<1>1. st' = st /\ hold' = hold
    BY DEF SyncServer, SyncDial, SyncTake, SyncWrite, SyncWriteFails, SyncRead,
           SyncReadFails, SyncFill, SyncPut, SyncPutErr, PeerAnswer, LinkBreaks,
           relayVars
<1>2. CASE st[c] = "asked"
  <2>1. Tokens = 1
    BY <1>2, OneAsked
  <2> USE <1>2, <2>1 DEF AloneAt, Tokens, Busy, BusyPC
  <2>2. CASE SyncDial \/ SyncWrite \/ SyncWriteFails \/ SyncReadFails
    BY <1>1, <2>2 DEF SyncDial, SyncWrite, SyncWriteFails, SyncReadFails
  <2>3. CASE SyncTake
    BY <1>1, <2>3 DEF SyncTake
  <2>4. CASE SyncRead
    BY <1>1, <2>4 DEF SyncRead
  <2>5. CASE SyncFill
    BY <1>1, <2>5 DEF SyncFill
  <2>6. CASE SyncPut
    BY <1>1, <2>6 DEF SyncPut, OnWire
  <2>7. CASE SyncPutErr
    BY <1>1, <2>7 DEF SyncPutErr, ErrorOut
  <2>8. CASE PeerAnswer \/ LinkBreaks
    BY <1>1, <2>8 DEF PeerAnswer, LinkBreaks, syncVars
  <2>9. QED
    BY <2>2, <2>3, <2>4, <2>5, <2>6, <2>7, <2>8 DEF SyncServer
<1>3. CASE st[c] = "holding"
  <2>1. pc \notin BusyPC
    BY <1>3, HoldingAlone
  <2>2. buf' = buf
    BY <2>1 DEF SyncServer, SyncDial, SyncTake, SyncWrite, SyncWriteFails,
                SyncRead, SyncReadFails, SyncFill, SyncPut, SyncPutErr,
                PeerAnswer, LinkBreaks, syncVars, BusyPC
  <2>3. QED
    BY <1>1, <1>3, <2>2 DEF AloneAt
<1>4. QED
    BY <1>1, <1>2, <1>3 DEF AloneAt

\* Every step keeps what is a lone relay's own.
LEMMA AloneStep ==
    TypeOK /\ Queued /\ Counted /\ OnWire /\ Overlapped /\ Alone /\ [Next]_vars => Alone'
<1> SUFFICES ASSUME TypeOK, Queued, Counted, OnWire, Overlapped, Alone, [Next]_vars,
                    NEW c \in Conns, c \notin overlap'
             PROVE  AloneAt(c)'
    BY DEF Alone
<1>0. c \notin overlap /\ AloneAt(c)
  <2>1. overlap \subseteq overlap'
    BY DEF Next, Relay, Enqueue, AskIn, TakeOut, CopyAddr, GetConn, PipeEnd,
           Dispatch, SyncServer, SyncDial, SyncTake, SyncWrite, SyncWriteFails,
           SyncRead, SyncReadFails, SyncFill, SyncPut, SyncPutErr, PeerAnswer,
           LinkBreaks, vars, relayVars
  <2>2. QED
    BY <2>1 DEF Alone
<1>1. ASSUME NEW d \in Conns, AskIn(d) PROVE AloneAt(c)'
  <2>1. CASE Open = {}
    <3>1. pc \notin BusyPC /\ out.kind = "empty"
      BY <2>1, NoneAsked DEF Asked, Open
    <3>2. st[c] \notin {"asked", "holding"}
      BY <2>1 DEF Open
    <3>3. QED
      BY <1>1, <3>1, <3>2 DEF AskIn, AloneAt, TypeOK, Stages, syncVars
  <2>2. CASE Open # {}
    <3>1. c # d /\ c \notin Open
      BY <1>1, <2>2 DEF AskIn
    <3>2. st'[c] \notin {"asked", "holding"}
      BY <1>1, <3>1 DEF AskIn, Open, TypeOK, Stages
    <3>3. QED
      BY <3>2 DEF AloneAt
  <2>3. QED
    BY <2>1, <2>2
<1>2. ASSUME NEW d \in Conns, TakeOut(d) PROVE AloneAt(c)'
  <2>1. CASE c = d
    BY <1>0, <1>2, <2>1 DEF TakeOut, AloneAt, TypeOK, Stages, syncVars
  <2>2. CASE c # d
    <3>1. st[c] \notin {"asked", "holding"}
      BY <1>0, <1>2, <2>2 DEF TakeOut, Overlapped, Open
    <3>2. st'[c] = st[c]
      BY <1>2, <2>2 DEF TakeOut, TypeOK
    <3>3. QED
      BY <3>1, <3>2 DEF AloneAt
  <2>3. QED
    BY <2>1, <2>2
<1>3. ASSUME NEW d \in Conns, Enqueue(d) \/ CopyAddr(d) \/ GetConn(d) \/ PipeEnd(d)
      PROVE  AloneAt(c)'
    BY <1>0, <1>3 DEF Enqueue, CopyAddr, GetConn, PipeEnd, AloneAt, TypeOK, Stages, syncVars
<1>4. CASE Dispatch
    BY <1>0, <1>4 DEF Dispatch, AloneAt, TypeOK, Stages, syncVars
<1>5. CASE SyncServer \/ PeerAnswer \/ LinkBreaks
    BY <1>0, <1>5, AloneSync
<1>6. CASE UNCHANGED vars
    BY <1>0, <1>6 DEF vars, relayVars, syncVars, AloneAt
<1>7. QED
    BY <1>1, <1>2, <1>3, <1>4, <1>5, <1>6 DEF Next, Relay

\* Every step keeps the right answer with the relays that were alone.
LEMMA OwnAnswerStep ==
    TypeOK /\ Queued /\ Alone /\ OwnAnswer /\ [Next]_vars => OwnAnswer'
<1> SUFFICES ASSUME TypeOK, Queued, Alone, OwnAnswer, [Next]_vars,
                    NEW c \in Conns, c \notin overlap', st'[c] \in {"dialing", "piping"}
             PROVE  addr'[c] = c
    BY DEF OwnAnswer
<1>1. ASSUME NEW d \in Conns, CopyAddr(d) PROVE addr'[c] = c
    BY <1>1 DEF CopyAddr, Copies, Alone, AloneAt, OwnAnswer, TypeOK
<1>2. ASSUME NEW d \in Conns, Enqueue(d) \/ GetConn(d) \/ PipeEnd(d) PROVE addr'[c] = c
    BY <1>2 DEF Enqueue, GetConn, PipeEnd, OwnAnswer, TypeOK
<1>3. ASSUME NEW d \in Conns, AskIn(d) PROVE addr'[c] = c
    BY <1>3 DEF AskIn, OwnAnswer, TypeOK
<1>4. ASSUME NEW d \in Conns, TakeOut(d) PROVE addr'[c] = c
    BY <1>4 DEF TakeOut, OwnAnswer, TypeOK
<1>5. CASE Dispatch
  <2>1. Head(connChan) \in Conns
    BY <1>5 DEF Dispatch, TypeOK
  <2>2. QED
    BY <1>5, <2>1 DEF Dispatch, OwnAnswer, TypeOK
<1>6. CASE SyncServer \/ PeerAnswer \/ LinkBreaks \/ UNCHANGED vars
    BY <1>6 DEF SyncServer, SyncDial, SyncTake, SyncWrite, SyncWriteFails,
                SyncRead, SyncReadFails, SyncFill, SyncPut, SyncPutErr,
                PeerAnswer, LinkBreaks, vars, relayVars, OwnAnswer
<1>7. QED
    BY <1>1, <1>2, <1>3, <1>4, <1>5, <1>6 DEF Next, Relay

-----------------------------------------------------------------------------
(* The theorems.                                                           *)

\* The initial state of a pool satisfies the inductive invariant.
LEMMA InitIInv == Init => IInv
<1> SUFFICES ASSUME Init PROVE IInv
    OBVIOUS
<1> USE DEF Init
<1>1. TypeOK
    BY ConnCapAssumption DEF TypeOK, Stages, Slices, EmptyOut, Content, Results,
       SyncPC, Messages, NoMsg
<1>2. Asked = {} /\ Open = {}
    BY DEF Asked, Open
<1>3. Counted
    BY <1>2, FS_EmptySet DEF Counted, Balance, Tokens, Busy, BusyPC, EmptyOut
<1>4. Queued /\ OnWire /\ Overlapped /\ Alone /\ OwnAnswer
    BY <1>2 DEF Queued, OnWire, Overlapped, Alone, AloneAt, OwnAnswer, BusyPC, NoMsg
<1>5. QED
    BY <1>1, <1>3, <1>4 DEF IInv

\* The inductive invariant holds in every state of every pool.
THEOREM Invariance == Spec => []IInv
<1>1. IInv /\ [Next]_vars => IInv'
    BY TypeStep, WireStep, QueuedStep, CountedStep, OverlappedStep, AloneStep,
       OwnAnswerStep DEF IInv
<1>2. QED
    BY InitIInv, <1>1, PTL DEF Spec

\* The state of the pool keeps its types and ConnChan its capacity: no answer
\* that RunTool never gave enters buf.
THEOREM TypeCorrect == Spec => []TypeOK
<1>1. IInv => TypeOK
    BY DEF IInv
<1>2. QED
    BY Invariance, <1>1, PTL

\* Whatever fails between the server and RunTool, SyncServer owes exactly as
\* many answers as there are relays waiting for one.
THEOREM BalanceHolds == Spec => []Balance
<1>1. IInv => Balance
    BY DEF IInv, Counted
<1>2. QED
    BY Invariance, <1>1, PTL

\* A relay whose lookup overlapped no other dials the address of its own port,
\* for any number of relays and any history of failures.
THEOREM OwnAnswerHolds == Spec => []OwnAnswer
<1>1. IInv => OwnAnswer
    BY DEF IInv
<1>2. QED
    BY Invariance, <1>1, PTL

\* The Read that SyncServer repeats after a failure never yields an answer.
THEOREM RereadFails == Spec => RereadOnlyFails
<1>1. IInv /\ [Next]_vars => [pc = "reread" => pc' \in {"reread", "putErr"}]_vars
  <2> SUFFICES ASSUME IInv, Next, pc = "reread"
               PROVE  pc' \in {"reread", "putErr"}
      BY DEF IInv
  <2>1. wire.kind = "none"
    BY DEF IInv, OnWire
  <2>2. QED
    BY <2>1 DEF Next, Relay, Enqueue, AskIn, TakeOut, CopyAddr, GetConn, PipeEnd,
           Dispatch, SyncServer, SyncDial, SyncTake, SyncWrite, SyncWriteFails,
           SyncRead, SyncReadFails, SyncFill, SyncPut, SyncPutErr, PeerAnswer,
           LinkBreaks, syncVars
<1>2. QED
    BY Invariance, <1>1, PTL DEF Spec, RereadOnlyFails

-----------------------------------------------------------------------------
(* ProxyPool implements the promise of module Lookup.                      *)

\* A relay is asking, in the sense of Lookup, while its lookup is open.
LEMMA AskingIsOpen == TypeOK => L!Asking = Open
BY DEF TypeOK, Stages, L!Asking, Phase, Open

\* Questions and answers through the shared channels, buffer and connection
\* are one Ask and one Tell per relay.
THEOREM ImplementsLookup == Spec => LookupSpec
<1>1. Init => L!Init
    BY DEF Init, L!Init, Phase
<1>2. ASSUME IInv, Next PROVE L!Next \/ UNCHANGED L!vars
  <2>0. TypeOK /\ Queued /\ Alone
    BY <1>2 DEF IInv
  <2> USE <2>0
  <2>1. ASSUME NEW c \in Conns, AskIn(c) PROVE L!Ask(c)
    <3>1. Phase(c) = "idle"
      BY <2>1 DEF AskIn, Phase
    <3>2. [d \in Conns |-> Phase(d)]' = [[d \in Conns |-> Phase(d)] EXCEPT ![c] = "asking"]
      BY <2>1 DEF AskIn, Phase, TypeOK, Stages
    <3>3. QED
      BY <2>1, <3>1, <3>2, AskingIsOpen DEF AskIn, L!Ask
  <2>2. ASSUME NEW c \in Conns, TakeOut(c), out.kind = "short" PROVE L!Tell(c)
    <3>1. Phase(c) = "asking"
      BY <2>2 DEF TakeOut, Phase
    <3>2. [d \in Conns |-> Phase(d)]' = [[d \in Conns |-> Phase(d)] EXCEPT ![c] = "told"]
      BY <2>2 DEF TakeOut, Phase, TypeOK, Stages
    <3>3. QED
      BY <2>2, <3>1, <3>2 DEF TakeOut, L!Tell, L!Allowed
  <2>3. ASSUME NEW c \in Conns, TakeOut(c), out.kind # "short" PROVE UNCHANGED L!vars
    <3>1. [d \in Conns |-> Phase(d)]' = [d \in Conns |-> Phase(d)]
      BY <2>3 DEF TakeOut, Phase, TypeOK, Stages
    <3>2. QED
      BY <2>3, <3>1 DEF TakeOut, L!vars
  <2>4. ASSUME NEW c \in Conns, CopyAddr(c) PROVE L!Tell(c)
    <3>1. Phase(c) = "asking"
      BY <2>4 DEF CopyAddr, Phase
    <3>2. [d \in Conns |-> Phase(d)]' = [[d \in Conns |-> Phase(d)] EXCEPT ![c] = "told"]
      BY <2>4 DEF CopyAddr, Phase, TypeOK, Stages
    <3>3. PICK x \in Copies(c) : addr' = [addr EXCEPT ![c] = x]
      BY <2>4 DEF CopyAddr
    <3>4. x \in L!Allowed(c)
      BY <2>4, <3>3 DEF CopyAddr, Copies, L!Allowed, Alone, AloneAt, TypeOK, Content
    <3>5. QED
      BY <2>4, <3>1, <3>2, <3>3, <3>4 DEF CopyAddr, L!Tell
  <2>5. ASSUME NEW c \in Conns, Enqueue(c) \/ GetConn(c) \/ PipeEnd(c)
        PROVE  UNCHANGED L!vars
    <3>1. [d \in Conns |-> Phase(d)]' = [d \in Conns |-> Phase(d)]
      BY <2>5 DEF Enqueue, GetConn, PipeEnd, Phase, TypeOK, Stages
    <3>2. QED
      BY <2>5, <3>1 DEF Enqueue, GetConn, PipeEnd, L!vars
  <2>6. CASE Dispatch
    <3>1. Head(connChan) \in Conns /\ st[Head(connChan)] = "queued"
      BY <2>6 DEF Dispatch, Queued, TypeOK
    <3>2. [d \in Conns |-> Phase(d)]' = [d \in Conns |-> Phase(d)]
      BY <2>6, <3>1 DEF Dispatch, Phase, TypeOK, Stages
    <3>3. QED
      BY <2>6, <3>2 DEF Dispatch, L!vars
  <2>7. CASE SyncServer \/ PeerAnswer \/ LinkBreaks
    <3>1. UNCHANGED relayVars
      BY <2>7 DEF SyncServer, SyncDial, SyncTake, SyncWrite, SyncWriteFails,
                  SyncRead, SyncReadFails, SyncFill, SyncPut, SyncPutErr,
                  PeerAnswer, LinkBreaks
    <3>2. UNCHANGED L!vars
      BY <3>1 DEF relayVars, L!vars, Phase
    <3>3. QED
      BY <3>2
  <2>8. QED
    BY <1>2, <2>1, <2>2, <2>3, <2>4, <2>5, <2>6, <2>7 DEF Next, Relay, L!Next
<1>3. UNCHANGED vars => UNCHANGED L!vars
    BY DEF vars, relayVars, L!vars, Phase
<1>4. QED
    BY <1>1, <1>2, <1>3, Invariance, PTL DEF Spec, LookupSpec, L!Spec

-----------------------------------------------------------------------------
(* RelayPipe, the copying half of RelayHandle.                              *)

\* One end has reset, or has stopped and all it sent was passed on.
Over ==
    \E d \in P!Ends : peer[d] = "reset" \/ (peer[d] = "fin" /\ wrote[d] = sent[d])

\* What was sent is still to be read, is in the hands of a copier (one chunk),
\* or has been passed on.
Passing ==
    \A d \in P!Ends :
        /\ wrote[d] <= read[d] /\ read[d] <= sent[d]
        /\ cp[d] = "read" => wrote[d] = read[d]
        /\ cp[d] = "write" => read[d] = wrote[d] + 1

\* From the end of an io.Copy to its report in exit, to the Close of tconn and to
\* that of conn, every step has the step before it as its cause.
Traced ==
    \/ /\ \A d \in P!Ends : cp[d] \in {"read", "write"} /\ sock[d] = "open"
       /\ exit = 0 /\ main = "wait"
    \/ Over

PipeInv == P!TypeOK /\ Passing /\ Traced

\* A reason to close stays one: an end that has stopped sends no more, and what
\* was passed on stays passed on.
LEMMA OverStays ==
    ASSUME P!TypeOK, Passing, Over, [P!Next]_(P!vars)
    PROVE  Over'
<1>1. PICK d \in P!Ends : peer[d] = "reset" \/ (peer[d] = "fin" /\ wrote[d] = sent[d])
  BY DEF Over
<1>2. ASSUME NEW e \in P!Ends, P!PeerSends(e) PROVE Over'
  BY <1>1, <1>2 DEF Over, P!PeerSends, P!TypeOK
<1>3. ASSUME NEW e \in P!Ends, P!PeerStops(e) PROVE Over'
  BY <1>1, <1>3 DEF Over, P!PeerStops, P!TypeOK
<1>4. ASSUME NEW e \in P!Ends, P!CopyWrite(e) PROVE Over'
  <2>1. wrote[e] < sent[e]
    BY <1>4 DEF P!CopyWrite, Passing, P!TypeOK
  <2>2. wrote'[d] = wrote[d] \/ d = e
    BY <1>4 DEF P!CopyWrite, P!TypeOK
  <2>3. QED
    BY <1>1, <1>4, <2>1, <2>2 DEF Over, P!CopyWrite, P!TypeOK
<1>5. CASE UNCHANGED <<peer, sent, wrote>>
  BY <1>1, <1>5 DEF Over
<1>6. QED
  BY <1>2, <1>3, <1>4, <1>5 DEF P!Next, P!Copier, P!CopyRead, P!CopyReadEnds, P!CopyWriteFails,
     P!CopyExit, P!CloseProxy, P!CloseConn, P!vars

\* The initial state.
LEMMA PipeInit == P!Init => PipeInv
  BY PipeAssumption DEF P!Init, PipeInv, P!TypeOK, Passing, Traced, P!Ends

\* Every step keeps the types and the count of the chunks.
LEMMA PassingStep ==
    ASSUME P!TypeOK, Passing, [P!Next]_(P!vars)
    PROVE  P!TypeOK' /\ Passing'
<1> USE PipeAssumption DEF P!TypeOK, Passing
<1>1. ASSUME NEW e \in P!Ends, P!PeerSends(e) PROVE P!TypeOK' /\ Passing'
  BY <1>1 DEF P!PeerSends
<1>2. ASSUME NEW e \in P!Ends, P!PeerStops(e) PROVE P!TypeOK' /\ Passing'
  BY <1>2 DEF P!PeerStops
<1>3. ASSUME NEW d \in P!Ends, P!CopyRead(d) PROVE P!TypeOK' /\ Passing'
  BY <1>3 DEF P!CopyRead
<1>4. ASSUME NEW d \in P!Ends, P!CopyReadEnds(d) PROVE P!TypeOK' /\ Passing'
  BY <1>4 DEF P!CopyReadEnds
<1>5. ASSUME NEW d \in P!Ends, P!CopyWrite(d) PROVE P!TypeOK' /\ Passing'
  BY <1>5 DEF P!CopyWrite
<1>6. ASSUME NEW d \in P!Ends, P!CopyWriteFails(d) PROVE P!TypeOK' /\ Passing'
  BY <1>6 DEF P!CopyWriteFails
<1>7. ASSUME NEW d \in P!Ends, P!CopyExit(d) PROVE P!TypeOK' /\ Passing'
  BY <1>7 DEF P!CopyExit
<1>8. CASE P!CloseProxy
  BY <1>8 DEF P!CloseProxy, P!Ends
<1>9. CASE P!CloseConn
  BY <1>9 DEF P!CloseConn, P!Ends
<1>10. CASE UNCHANGED P!vars
  BY <1>10 DEF P!vars
<1>11. QED
  BY <1>1, <1>2, <1>3, <1>4, <1>5, <1>6, <1>7, <1>8, <1>9, <1>10 DEF P!Next, P!Copier

\* Every step keeps the chain of causes: an io.Copy that ends while nothing was
\* closed met a reset or the end of a stream it has passed on.
LEMMA TracedStep ==
    ASSUME PipeInv, [P!Next]_(P!vars)
    PROVE  Traced'
<1> USE DEF PipeInv, P!TypeOK
<1>1. CASE Over
  BY <1>1, OverStays DEF Traced
<1>2. CASE ~Over
  <2> USE <1>2
  <2>1. /\ \A d \in P!Ends : cp[d] \in {"read", "write"} /\ sock[d] = "open"
        /\ exit = 0 /\ main = "wait"
    BY DEF Traced
  <2>2. \A d \in P!Ends : P!Other(d) \in P!Ends
    BY DEF P!Other, P!Ends
  <2>3. ASSUME NEW d \in P!Ends, P!CopyReadEnds(d) PROVE FALSE
    BY <2>1, <2>3 DEF P!CopyReadEnds, Over, Passing
  <2>4. ASSUME NEW d \in P!Ends, P!CopyWriteFails(d) PROVE FALSE
    BY <2>1, <2>2, <2>4 DEF P!CopyWriteFails, Over
  <2>5. ASSUME NEW d \in P!Ends, P!CopyExit(d) PROVE FALSE
    BY <2>1, <2>5 DEF P!CopyExit
  <2>6. ~P!CloseProxy /\ ~P!CloseConn
    BY <2>1 DEF P!CloseProxy, P!CloseConn
  <2>7. ASSUME NEW d \in P!Ends, P!CopyRead(d) \/ P!CopyWrite(d) PROVE Traced'
    BY <2>1, <2>7 DEF P!CopyRead, P!CopyWrite, Traced
  <2>8. CASE UNCHANGED <<cp, sock, exit, main>>
    BY <2>1, <2>8 DEF Traced
  <2>9. QED
    BY <2>3, <2>4, <2>5, <2>6, <2>7, <2>8 DEF P!Next, P!Copier, P!PeerSends, P!PeerStops, P!vars
<1>3. QED
  BY <1>1, <1>2

\* RelayHandle never cuts a relay whose two ends are still talking
\* (ClosedForAReason), whatever the ends send and however the copiers run.
THEOREM ClosedForAReasonHolds == P!Spec => []ClosedForAReason
<1>1. P!Init => PipeInv
  BY PipeInit
<1>2. PipeInv /\ [P!Next]_(P!vars) => PipeInv'
  BY PassingStep, TracedStep DEF PipeInv
<1>3. PipeInv => ClosedForAReason
  BY DEF PipeInv, Traced, Over, ClosedForAReason, P!ClosedForAReason
<1>4. QED
  BY <1>1, <1>2, <1>3, PTL DEF P!Spec
=============================================================================
