------------------------------ MODULE RunTool ------------------------------
(***************************************************************************)
(* The lookup server of RunTool/serverHandle.cpp on a game host. RunServer *)
(* keeps one FindInfo on its stack, so the thread of every connection      *)
(* works on the same f: f.so, overwritten by each Accept, and f.LocalPort. *)
(* The client is SyncServer of proxyPool/proxy.go: one connection at a     *)
(* time, one question at a time, a new connection after a failure.         *)
(*                                                                         *)
(* A port is the sequence of its decimal digits on the wire and a number   *)
(* after atoi. The answer for a port is the port itself (its remote        *)
(* address), Refused (the filter killed the process: byte 2) or Missing    *)
(* (byte 1).                                                               *)
(***************************************************************************)
EXTENDS Integers, Sequences, SequencesExt, FiniteSets

CONSTANTS
    Conns,      \* connections SyncServer dials, one after another
    Requests,   \* ports asked for, as digits
    Listed,     \* ports in the TCP table of the host
    None, Refused, Missing,
    MaxAsks     \* bound on the questions

VARIABLES
    up,         \* the process runs
    so,         \* f.so
    port,       \* f.LocalPort
    freed,      \* Socket objects that were deleted; their connection is closed
    th,         \* the thread of a connection
    rd,         \* the Socket object a thread reads from
    buf,        \* the thread's request buffer
    peer,       \* SyncServer's end: "new", "open", "closed"
    req,        \* question on its way to RunTool
    out,        \* answers on their way back
    asked,      \* the open question, None if there is none
    asks,       \* questions asked so far
    overlap,    \* history: connections whose threads ran together with another's
    mixed       \* history: connections that asked a shorter port after a longer one

shared == <<so, port, freed>>
threads == <<th, rd, buf>>
client == <<peer, req, out, asked, asks>>
history == <<overlap, mixed>>
vars == <<up, shared, threads, client, history>>

\* atoi on a buffer of digits.
Atoi(d) == FoldLeft(LAMBDA n, x : 10 * n + x, 0, d)

\* recv writes its bytes over the start of a buffer that was cleared once.
Overlay(old, new) == new \o SubSeq(old, Len(new) + 1, Len(old))

Init ==
    /\ up = TRUE /\ so = None /\ port = 0 /\ freed = {}
    /\ th = [c \in Conns |-> "off"]
    /\ rd = [c \in Conns |-> None]
    /\ buf = [c \in Conns |-> <<>>]
    /\ peer = [c \in Conns |-> "new"]
    /\ req = [c \in Conns |-> None]
    /\ out = [c \in Conns |-> <<>>]
    /\ asked = [c \in Conns |-> None]
    /\ asks = 0
    /\ overlap = {} /\ mixed = {}

-----------------------------------------------------------------------------
(* SyncServer's side. *)

Dial(c) ==
    /\ peer[c] = "new" /\ \A d \in Conns : peer[d] # "open"
    /\ peer' = [peer EXCEPT ![c] = "open"]
    /\ UNCHANGED <<up, shared, threads, req, out, asked, asks, history>>

Ask(c, r) ==
    /\ peer[c] = "open" /\ asked[c] = None /\ asks < MaxAsks
    /\ asked' = [asked EXCEPT ![c] = r]
    /\ req' = [req EXCEPT ![c] = r]
    /\ asks' = asks + 1
    /\ UNCHANGED <<up, shared, threads, peer, out, history>>

TakeAnswer(c) ==
    /\ peer[c] = "open" /\ asked[c] # None /\ out[c] # <<>>
    /\ out' = [out EXCEPT ![c] = Tail(@)]
    /\ asked' = [asked EXCEPT ![c] = None]
    /\ UNCHANGED <<up, shared, threads, peer, req, asks, history>>

\* SyncServer gives the connection up, or the network does.
PeerClose(c) ==
    /\ peer[c] = "open"
    /\ peer' = [peer EXCEPT ![c] = "closed"]
    /\ asked' = [asked EXCEPT ![c] = None]
    /\ out' = [out EXCEPT ![c] = <<>>]
    /\ UNCHANGED <<up, shared, threads, req, asks, history>>

-----------------------------------------------------------------------------
(* RunTool. Using or deleting a deleted Socket, and deleting f itself, which *)
(* is no heap object, is undefined: nothing happens or the process ends.     *)

Undefined == up' \in BOOLEAN

\* so->SendBytes(a): send reports no error.
Send(a) ==
    IF so \in freed THEN Undefined /\ UNCHANGED out
    ELSE /\ out' = IF peer[so] = "open" THEN [out EXCEPT ![so] = Append(@, a)] ELSE out
         /\ UNCHANGED up

\* RunServer: the new Socket goes into the one f, and its thread starts.
Accept(c) ==
    /\ up /\ peer[c] # "new" /\ th[c] = "off"
    /\ so' = c
    /\ th' = [th EXCEPT ![c] = "loop"]
    /\ LET running == {d \in Conns : th[d] \notin {"off", "gone"}} IN
       overlap' = IF running = {} THEN overlap ELSE overlap \cup running \cup {c}
    /\ UNCHANGED <<up, port, freed, rd, buf, client, mixed>>

\* The call f->so->ReceiveBytes picks the Socket that is in f now.
Loop(c) ==
    /\ up /\ th[c] = "loop"
    /\ rd' = [rd EXCEPT ![c] = so]
    /\ th' = [th EXCEPT ![c] = "recv"]
    /\ IF so \in freed THEN Undefined ELSE UNCHANGED up
    /\ UNCHANGED <<shared, buf, client, history>>

Receive(c) ==
    LET r == req[rd[c]] IN
    /\ up /\ th[c] = "recv" /\ rd[c] \notin freed /\ r # None
    /\ req' = [req EXCEPT ![rd[c]] = None]
    /\ buf' = [buf EXCEPT ![c] = Overlay(@, r)]
    /\ port' = Atoi(Overlay(buf[c], r))
    /\ mixed' = IF Len(r) < Len(buf[c]) THEN mixed \cup {rd[c]} ELSE mixed
    /\ th' = [th EXCEPT ![c] = "scan"]
    /\ UNCHANGED <<up, so, freed, rd, peer, out, asked, asks, overlap>>

\* recv returns 0 or an error.
ReceiveEnds(c) ==
    /\ up /\ th[c] = "recv"
    /\ rd[c] \in freed \/ (peer[rd[c]] = "closed" /\ req[rd[c]] = None)
    /\ th' = [th EXCEPT ![c] = "end"]
    /\ UNCHANGED <<up, shared, rd, buf, client, history>>

\* FindLoclPort: the row of f->LocalPort is answered by loadPortWithHandle ...
Found(c) ==
    /\ up /\ th[c] = "scan" /\ port \in Listed
    /\ \E a \in {port, Refused} : Send(a)
    /\ th' = [th EXCEPT ![c] = "clear"]
    /\ UNCHANGED <<shared, rd, buf, peer, req, asked, asks, history>>

\* Mutant of Clear: f->LocalPort keeps the port.
ClearNothing(c) ==
    /\ up /\ th[c] = "clear"
    /\ th' = [th EXCEPT ![c] = "check"]
    /\ UNCHANGED <<up, shared, rd, buf, client, history>>

\* ... which then sets f->LocalPort to 0 ...
Clear(c) ==
    /\ up /\ th[c] = "clear"
    /\ port' = 0
    /\ th' = [th EXCEPT ![c] = "check"]
    /\ UNCHANGED <<up, so, freed, rd, buf, client, history>>

\* ... or there is no such row, or the table could not be read.
NotFound(c) ==
    /\ up /\ th[c] = "scan"
    /\ th' = [th EXCEPT ![c] = "check"]
    /\ UNCHANGED <<up, shared, rd, buf, client, history>>

\* Mutant of Check: only a found port is answered.
CheckSilent(c) ==
    /\ up /\ th[c] = "check"
    /\ th' = [th EXCEPT ![c] = "loop"]
    /\ UNCHANGED <<up, shared, rd, buf, client, history>>

\* The byte 1 for a port that is still set.
Check(c) ==
    /\ up /\ th[c] = "check"
    /\ IF port # 0 THEN Send(Missing) ELSE UNCHANGED <<up, out>>
    /\ th' = [th EXCEPT ![c] = "loop"]
    /\ UNCHANGED <<shared, rd, buf, peer, req, asked, asks, history>>

\* delete f->so; delete f.
Finish(c) ==
    /\ up /\ th[c] = "end"
    /\ freed' = freed \cup {so}
    /\ th' = [th EXCEPT ![c] = "gone"]
    /\ Undefined
    /\ UNCHANGED <<so, port, rd, buf, client, history>>

Serve(c) ==
    \/ Accept(c) \/ Loop(c) \/ Receive(c) \/ ReceiveEnds(c)
    \/ Found(c) \/ Clear(c) \/ NotFound(c) \/ Check(c) \/ Finish(c)

Next ==
    \E c \in Conns :
        \/ Dial(c) \/ (\E r \in Requests : Ask(c, r)) \/ TakeAnswer(c) \/ PeerClose(c)
        \/ Serve(c)

Spec == Init /\ [][Next]_vars

\* Windows schedules the threads, and SyncServer reads what it is sent.
Fairness == \A c \in Conns : WF_vars(Serve(c)) /\ WF_vars(TakeAnswer(c))

FairSpec == Spec /\ Fairness

-----------------------------------------------------------------------------
\* The threads over the shared FindInfo and the ends of each connection.
TypeOK ==
    /\ up \in BOOLEAN /\ asks \in 0 .. MaxAsks
    /\ so \in Conns \cup {None} /\ port \in Nat
    /\ {freed, mixed, overlap} \subseteq SUBSET Conns
    /\ th \in [Conns -> {"off", "loop", "recv", "scan", "clear", "check", "end", "gone"}]
    /\ rd \in [Conns -> Conns \cup {None}]
    /\ peer \in [Conns -> {"new", "open", "closed"}]
    /\ buf \in [Conns -> Seq(0 .. 9)]
    /\ {req, asked} \subseteq [Conns -> Requests \cup {None}]
    /\ \A c \in Conns : Len(out[c]) <= 2 * asks

\* An answer RunTool sends is for the question that is open on that connection,
\* one answer to one question, unless its thread ran together with another's or its
\* request buffer held the tail of a longer port.
RightReply ==
    \A c \in Conns \ (overlap \cup mixed) : out[c] # <<>> =>
        /\ asked[c] # None
        /\ out[c] \in {<<Missing>>, <<Refused>>, <<Atoi(asked[c])>>}
        /\ Atoi(asked[c]) \notin Listed => out[c] = <<Missing>>

\* RunTool closes only connections that SyncServer has closed, unless a thread
\* of an earlier connection was still there to delete the new one's Socket.
NotCutOff ==
    \A c \in freed \ overlap : peer[c] = "closed"

\* A question is answered or given up, unless threads overlapped or the process
\* ended.
Answered ==
    \A c \in Conns : asked[c] # None ~> asked[c] = None \/ c \in overlap \/ ~up

\* RunTool serves a connection right, with the answer that was asked for and
\* without hanging up, unless threads overlapped or the buffer held a longer port.
RightService == RightReply /\ NotCutOff
=============================================================================
