----------------------------- MODULE GameClient -----------------------------
(***************************************************************************)
(* The request buffer of a GameRun client (GameRun/SendBufferBit.cpp)      *)
(* talking to the robot server (robot/Server.go), whose sessions are       *)
(* reduced to what the comparison of requests in GetRecvData sees. Two     *)
(* threads of the client call LoadSendData: "main", the lobby and the      *)
(* nested callbacks of a game, and "reload", the callback the sender       *)
(* thread starts when nothing was asked for TimeOut. A caller waits until  *)
(* its request is deleted. The sender thread owns the connection.          *)
(***************************************************************************)
EXTENDS Naturals, Sequences, FiniteSets

CONSTANTS
    Codes,       \* functions of MethodLib
    Payloads, Empty,   \* arguments; Empty is the one of no bytes
    Keys, NoKey, \* session keys, and the 255 the client starts with
    None, Skipped, NoBytes,   \* no reply; a request deleted without callback; a callback without bytes
    MaxCalls, MaxReloads, MaxBreaks    \* bounds

ASSUME EmptyAssumption == Empty \in Payloads
ASSUME NoKeyAssumption == NoKey \notin Keys

Callers == {"main", "reload"}
Wait == [by : Callers, code : Codes, pay : Payloads, key : Keys \cup {NoKey}]
        \cup [by : {"timer"}, code : {None}, pay : {None}, key : Keys \cup {NoKey}]
Nil == [code |-> None, pay |-> Empty]     \* result of a session that has run nothing
Result == [code : Codes, pay : Payloads] \cup {Nil}
Reply == [key : Keys, res : Result, ran : BOOLEAN]
Host == [data : Payloads, res : Result]   \* LastForData of a session

ASSUME NoneAssumption == None \notin Reply \cup Host

VARIABLES
    caller,     \* "off", "run", "wait"
    asked,      \* the request a caller made
    got,        \* what its last LoadSendData led to: a reply, Skipped, NoBytes or None
    list,       \* Sendlist
    spc,        \* the sender thread: "idle", "recv", "erase"
    key,        \* keyID
    conn,       \* "open", "shut" by the server, "dead"
    wire, back, \* request and reply under way
    srv,        \* HostMap: [data, res] per key
    up,         \* the client runs
    calls, reloads, breaks,
    skips,      \* history: requests deleted without their callback
    raced,      \* history: a push met the erase of the head
    doubled     \* history: two requests without a key were in the list

client == <<caller, asked, got>>
sender == <<list, spc, key>>
net == <<conn, wire, back>>
bounds == <<calls, reloads, breaks>>
vars == <<client, sender, net, srv, up, bounds, skips, raced, doubled>>

Init ==
    /\ caller = [c \in Callers |-> IF c = "main" THEN "run" ELSE "off"]
    /\ asked = [c \in Callers |-> None] /\ got = [c \in Callers |-> None]
    /\ list = <<>> /\ spc = "idle" /\ key = NoKey
    /\ conn = "open" /\ wire = None /\ back = None
    /\ srv = [k \in Keys |-> None]
    /\ up = TRUE /\ calls = 0 /\ reloads = 0 /\ breaks = 0
    /\ skips = 0 /\ raced = FALSE /\ doubled = FALSE

-----------------------------------------------------------------------------
(* Callers. *)

\* GetSendBit puts the present key in front; push_back while the sender thread
\* erases the head is a race on the vector: it works, loses the new element or
\* ends the process.
LoadSendData(c, f, p) ==
    LET r == [by |-> c, code |-> f, pay |-> p, key |-> key] IN
    /\ up /\ caller[c] = "run" /\ calls < MaxCalls
    /\ calls' = calls + 1
    /\ caller' = [caller EXCEPT ![c] = "wait"]
    /\ asked' = [asked EXCEPT ![c] = r]
    /\ got' = [got EXCEPT ![c] = None]
    /\ \/ list' = Append(list, r) /\ UNCHANGED <<up, raced>>
       \/ spc = "erase" /\ raced' = TRUE /\ UNCHANGED <<list, up>>
       \/ spc = "erase" /\ up' = FALSE /\ UNCHANGED <<list, raced>>
    /\ doubled' = (doubled \/ (key = NoKey /\ \E i \in DOMAIN list : list[i].key = NoKey /\ list[i].by # "timer"))
    /\ UNCHANGED <<spc, key, net, srv, reloads, breaks, skips>>

\* The request is deleted: its caller goes on with what it got. The reload
\* request's flag is a local variable that is gone; writing it is undefined.
Release(r, g) ==
    IF r.by = "timer"
    THEN /\ caller' = IF g # Skipped /\ caller["reload"] = "off"
                      THEN [caller EXCEPT !["reload"] = "run"] ELSE caller
         /\ up' \in BOOLEAN
         /\ UNCHANGED got
    ELSE /\ caller' = [caller EXCEPT ![r.by] = "run"]
         /\ got' = [got EXCEPT ![r.by] = g]
         /\ UNCHANGED up

-----------------------------------------------------------------------------
(* The sender thread. *)

\* syncSend with an empty list after TimeOut: a request of two bytes.
Reload ==
    /\ up /\ spc = "idle" /\ list = <<>> /\ reloads < MaxReloads
    /\ reloads' = reloads + 1
    /\ list' = <<[by |-> "timer", code |-> None, pay |-> None, key |-> key]>>
    /\ UNCHANGED <<client, spc, key, net, srv, up, calls, breaks, skips, raced, doubled>>

\* sendData: an error is noticed at once, then the connection is dialled again
\* and the request repeated; or the bytes are accepted and lost.
SendData ==
    /\ up /\ spc = "idle" /\ list # <<>>
    /\ spc' = "recv"
    /\ \/ conn # "shut" /\ conn' = "open" /\ wire' = Head(list) /\ back' = None
       \/ conn = "shut" /\ UNCHANGED net
       \/ conn # "open" /\ conn' = "dead" /\ wire' = None /\ back' = None
    /\ UNCHANGED <<client, list, key, srv, up, bounds, skips, raced, doubled>>

\* recvData with a reply: updateKeyId, then the callback in a new thread.
RecvReply ==
    /\ up /\ spc = "recv" /\ back # None
    /\ key' = back.key
    /\ Release(Head(list), back)
    /\ back' = None /\ spc' = "erase"
    /\ UNCHANGED <<asked, list, conn, wire, srv, bounds, skips, raced, doubled>>

\* recv returns 0 on a connection the server closed: no error, the callback is
\* called with length -1 and the connection is kept.
RecvEof ==
    /\ up /\ spc = "recv" /\ back = None /\ conn = "shut"
    /\ Release(Head(list), NoBytes)
    /\ spc' = "erase"
    /\ UNCHANGED <<asked, list, key, net, srv, bounds, skips, raced, doubled>>

\* Mutant of RecvError: the request is not deleted, so its flag stays set.
RecvErrorHold ==
    /\ up /\ spc = "recv" /\ back = None /\ conn = "dead"
    /\ conn' = "open" /\ wire' = None /\ back' = None
    /\ skips' = IF Head(list).by = "timer" THEN skips ELSE skips + 1
    /\ spc' = "erase"
    /\ UNCHANGED <<client, up, list, key, srv, bounds, raced, doubled>>

\* recvData with an error: a new connection, the request deleted without its
\* callback.
RecvError ==
    /\ up /\ spc = "recv" /\ back = None /\ conn = "dead"
    /\ conn' = "open" /\ wire' = None /\ back' = None
    /\ Release(Head(list), Skipped)
    /\ skips' = IF Head(list).by = "timer" THEN skips ELSE skips + 1
    /\ spc' = "erase"
    /\ UNCHANGED <<asked, list, key, srv, bounds, raced, doubled>>

\* Sendlist.erase(Sendlist.begin()).
Erase ==
    /\ up /\ spc = "erase"
    /\ list' = Tail(list) /\ spc' = "idle"
    /\ UNCHANGED <<client, key, net, srv, up, bounds, skips, raced, doubled>>

-----------------------------------------------------------------------------
(* The robot server and the network. *)

\* Mutant of Session: the key of the request is ignored.
SessionNew(k) == {j \in Keys : srv[j] = None /\ \A i \in Keys : srv[i] = None => j <= i}

\* GetHost: the session of the key, or a new one under the first free key.
Session(k) ==
    IF k \in Keys /\ srv[k] # None THEN {k}
    ELSE {j \in Keys : srv[j] = None /\ \A i \in Keys : srv[i] = None => j <= i}

\* Mutant of Answered: a stored result is returned whatever the payload.
AnsweredAny(s, r) ==
    IF s # None THEN s ELSE [data |-> r.pay, res |-> [code |-> r.code, pay |-> r.pay]]

\* GetRecvData: the function runs unless the payload equals the last one; in a
\* new session LastForData is nil, which equals a payload of no bytes.
Answered(s, r) ==
    LET last == IF s = None THEN [data |-> Empty, res |-> Nil] ELSE s IN
    IF last.data = r.pay THEN last
    ELSE [data |-> r.pay, res |-> [code |-> r.code, pay |-> r.pay]]

\* Handle closes the connection after a request of fewer than three bytes.
ServerHandle ==
    /\ wire # None
    /\ wire' = None
    /\ IF wire.by = "timer"
       THEN /\ conn' = IF conn = "dead" THEN "dead" ELSE "shut"
            /\ UNCHANGED <<srv, back>>
       ELSE /\ \E k \in Session(wire.key) :
                  LET s == Answered(srv[k], wire) IN
                  /\ srv' = [srv EXCEPT ![k] = s]
                  /\ back' = [key |-> k, res |-> s.res, ran |-> s # srv[k] /\ s.res # Nil]
            /\ UNCHANGED conn
    /\ UNCHANGED <<client, sender, up, bounds, skips, raced, doubled>>

\* The network loses the connection with what is on it; a reply may still
\* arrive.
Break ==
    /\ conn = "open" /\ breaks < MaxBreaks
    /\ breaks' = breaks + 1
    /\ conn' = "dead" /\ wire' \in {None, wire} /\ back' \in {None, back}
    /\ UNCHANGED <<client, sender, srv, up, calls, reloads, skips, raced, doubled>>

\* The reset that answers bytes sent to a closed connection arrives.
ResetArrives ==
    /\ conn = "shut" /\ spc = "recv" /\ list[1].by # "timer"
    /\ conn' = "dead"
    /\ UNCHANGED <<client, sender, wire, back, srv, up, bounds, skips, raced, doubled>>

Sender == SendData \/ RecvReply \/ RecvEof \/ RecvError \/ Erase

Next ==
    \/ \E c \in Callers, f \in Codes, p \in Payloads : LoadSendData(c, f, p)
    \/ Reload \/ Sender \/ ServerHandle \/ Break \/ ResetArrives

Spec == Init /\ [][Next]_vars

\* The sender thread and the server run; connections can be made again.
FairSpec == Spec /\ WF_vars(Sender) /\ WF_vars(ServerHandle)

-----------------------------------------------------------------------------
\* The callers, the queue (bounded by its callers), the connection and the sessions.
TypeOK ==
    /\ caller \in [Callers -> {"off", "run", "wait"}]
    /\ list \in Seq(Wait) /\ spc \in {"idle", "recv", "erase"}
    /\ Len(list) <= 1 + Cardinality(Callers)
    /\ key \in Keys \cup {NoKey} /\ conn \in {"open", "shut", "dead"}
    /\ wire \in Wait \cup {None} /\ up \in BOOLEAN
    /\ back \in Reply \cup {None} /\ srv \in [Keys -> Host \cup {None}]
    /\ calls \in 0 .. MaxCalls /\ skips \in Nat

\* A callback gets the result for its own payload, never the late reply to
\* another request, and if the server ran a function at all it was the one asked
\* for: only a payload equal to the previous one is answered from memory.
OwnResult ==
    \A c \in Callers : got[c] \notin {None, Skipped, NoBytes} =>
        /\ got[c].res.pay = asked[c].pay
        /\ got[c].ran => got[c].res.code = asked[c].code

\* A lost connection or a reload costs at most one request its callback.
OneLossPerFault ==
    skips <= breaks + reloads

\* The client has a second session, and so a second state of its game, only
\* after a connection was lost or after its two threads both asked before the
\* first key arrived: a reload, which makes the server close the connection,
\* costs no session.
OneSession ==
    Cardinality({k \in Keys : srv[k] # None}) > 1 => breaks > 0 \/ doubled

\* Every call of LoadSendData returns, unless its request was lost in the race
\* for the vector or the process ended, and a fault makes at most one of them
\* return without its callback.
EveryCallReturns ==
    /\ \A c \in Callers : caller[c] = "wait" ~> caller[c] = "run" \/ raced \/ ~up
    /\ []OneLossPerFault
=============================================================================
