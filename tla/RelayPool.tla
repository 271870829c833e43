------------------------------ MODULE RelayPool ------------------------------
(***************************************************************************)
(* One ProxyPool of proxyPool/proxy.go: the relay connections of one game  *)
(* host, the channels ConnChan, In and Out, the goroutine SyncServer that  *)
(* asks the host's RunTool which remote address a local port talks to, and *)
(* the goroutines RelayHandle that wait for the answers.                   *)
(*                                                                         *)
(* A relay connection stands for its own port, so the right answer to the  *)
(* question of connection c is written c.  The answer bytes live in the    *)
(* one array buf of SyncServer; what travels on Out is a slice of it, and  *)
(* the goroutine that receives the slice copies it later (string(buf)).    *)
(* The array is therefore shared between SyncServer's next Read and the    *)
(* copy: a copy made after buf changed may see the new bytes or a mixture. *)
(***************************************************************************)
EXTENDS Integers, Sequences, FiniteSets

CONSTANTS
    Conns,      \* the relay connections one host opens
    ConnCap,    \* capacity of ConnChan (10 in the code)
    NoConn,     \* no connection
    Torn        \* content of buf that is no RunTool answer

ASSUME ConnCapAssumption == ConnCap \in Nat \ {0}
ASSUME NoConnAssumption  == NoConn \notin Conns
ASSUME TornAssumption    == Torn \notin Conns /\ Torn # NoConn

VARIABLES
    st,         \* where the goroutine RelayHandle of each connection stands
    connChan,   \* self.ConnChan
    in,         \* self.In, capacity 1: the port asked for
    out,        \* self.Out, capacity 1: a slice of buf or a one-byte error
    buf,        \* the array buf of SyncServer
    hold,       \* the bytes the slice a relay received was made of
    addr,       \* what GetRemoteAddr returned to each relay
    pc,         \* where SyncServer stands
    cur,        \* val, the port SyncServer is asking for
    link,       \* the TCP connection ClientConn to RunTool
    wire,       \* the request or the answer on that connection
    overlap     \* history: lookups that ran while another one did

relayVars == <<st, hold, addr, overlap>>
syncVars  == <<pc, cur, buf>>
netVars   == <<link, wire>>
vars == <<relayVars, syncVars, netVars, connChan, in, out>>

Content  == Conns \cup {Torn}
Slices   == [kind : {"empty", "addr", "short"}, of : Content]
EmptyOut == [kind |-> "empty", of |-> Torn]
ErrorOut == [kind |-> "short", of |-> Torn]     \* []byte{1}
NoMsg    == [kind |-> "none", from |-> NoConn]

Stages   == {"new", "queued", "started", "asked", "holding", "dialing",
             "piping", "closed"}
BusyPC   == {"write", "redialW", "write2", "read", "redialR", "reread",
             "fill", "put", "putErr"}
SyncPC   == BusyPC \cup {"dial", "idle"}

\* What GetRemoteAddr has not returned yet is NoConn; an error is "error".
Results == Content \cup {NoConn, "error"}

Asked == {c \in Conns : st[c] = "asked"}
Open  == {c \in Conns : st[c] \in {"asked", "holding"}}
Busy  == IF pc \in BusyPC THEN 1 ELSE 0

-----------------------------------------------------------------------------
\* Inits: fresh channels, SyncServer about to dial RunTool.
Init ==
    /\ st = [c \in Conns |-> "new"]
    /\ connChan = <<>>
    /\ in = NoConn
    /\ out = EmptyOut
    /\ buf = Torn
    /\ hold = [c \in Conns |-> Torn]
    /\ addr = [c \in Conns |-> NoConn]
    /\ pc = "dial"
    /\ cur = NoConn
    /\ link = "down"
    /\ wire = NoMsg
    /\ overlap = {}

-----------------------------------------------------------------------------
(* The accept loop and the dispatcher.                                     *)

\* Mutant of Enqueue: ConnChan without its capacity.
EnqueueUnbounded(c) ==
    /\ st[c] = "new"
    /\ connChan' = Append(connChan, c)
    /\ st' = [st EXCEPT ![c] = "queued"]
    /\ UNCHANGED <<in, out, hold, addr, overlap, syncVars, netVars>>

\* pr.ConnChan <- conn in the accept loop; it blocks while the channel is full.
Enqueue(c) ==
    /\ st[c] = "new"
    /\ Len(connChan) < ConnCap
    /\ connChan' = Append(connChan, c)
    /\ st' = [st EXCEPT ![c] = "queued"]
    /\ UNCHANGED <<in, out, hold, addr, overlap, syncVars, netVars>>

\* The dispatcher goroutine of SyncServer: conn <- ConnChan, go RelayHandle.
Dispatch ==
    /\ connChan # <<>>
    /\ st' = [st EXCEPT ![Head(connChan)] = "started"]
    /\ connChan' = Tail(connChan)
    /\ UNCHANGED <<in, out, hold, addr, overlap, syncVars, netVars>>

-----------------------------------------------------------------------------
(* RelayHandle and GetRemoteAddr, one goroutine per connection.            *)

\* self.In <- []byte(port), which blocks while In is full.
AskIn(c) ==
    /\ st[c] = "started"
    /\ in = NoConn
    /\ in' = c
    /\ st' = [st EXCEPT ![c] = "asked"]
    /\ overlap' = IF Open = {} THEN overlap ELSE overlap \cup Open \cup {c}
    /\ UNCHANGED <<connChan, out, hold, addr, syncVars, netVars>>

\* buf := <-self.Out: whichever waiting goroutine the runtime wakes gets it.
\* A slice of at most one byte is an error and RelayHandle closes the
\* connection; a longer one is copied in a later step.
TakeOut(c) ==
    /\ st[c] = "asked"
    /\ out.kind # "empty"
    /\ out' = EmptyOut
    /\ \/ /\ out.kind = "short"
          /\ st' = [st EXCEPT ![c] = "closed"]
          /\ addr' = [addr EXCEPT ![c] = "error"]
          /\ UNCHANGED hold
       \/ /\ out.kind = "addr"
          /\ st' = [st EXCEPT ![c] = "holding"]
          /\ hold' = [hold EXCEPT ![c] = out.of]
          /\ UNCHANGED addr
    /\ UNCHANGED <<connChan, in, overlap, syncVars, netVars>>

\* What string(buf) yields: the bytes of the slice, or, when the array has
\* been written since, its present bytes (cut to the slice) or a mixture.
Copies(c) == IF buf = hold[c] THEN {buf} ELSE {buf, Torn}

CopyAddr(c) ==
    /\ st[c] = "holding"
    /\ \E x \in Copies(c) : addr' = [addr EXCEPT ![c] = x]
    /\ st' = [st EXCEPT ![c] = "dialing"]
    /\ UNCHANGED <<connChan, in, out, hold, overlap, syncVars, netVars>>

\* GetConn fails (no proxy, or the proxy refuses) and RelayHandle closes the
\* connection, or the two copies start (module RelayPipe).
GetConn(c) ==
    /\ st[c] = "dialing"
    /\ \E s \in {"piping", "closed"} : st' = [st EXCEPT ![c] = s]
    /\ UNCHANGED <<connChan, in, out, hold, addr, overlap, syncVars, netVars>>

PipeEnd(c) ==
    /\ st[c] = "piping"
    /\ st' = [st EXCEPT ![c] = "closed"]
    /\ UNCHANGED <<connChan, in, out, hold, addr, overlap, syncVars, netVars>>

-----------------------------------------------------------------------------
(* SyncServer.                                                             *)

\* connfunc returns: a dial succeeded (a failed dial is retried at once).
SyncDial ==
    /\ pc \in {"dial", "redialW", "redialR"}
    /\ link' = "up"
    /\ wire' = NoMsg
    /\ pc' = CASE pc = "dial"    -> "idle"
               [] pc = "redialW" -> "write2"
               [] pc = "redialR" -> "reread"
    /\ UNCHANGED <<relayVars, connChan, in, out, cur, buf>>

\* val := <-self.In
SyncTake ==
    /\ pc = "idle"
    /\ in # NoConn
    /\ cur' = in
    /\ in' = NoConn
    /\ pc' = "write"
    /\ UNCHANGED <<relayVars, connChan, out, buf, netVars>>

\* ClientConn.Write(val) succeeds: on a live link the request travels, on a
\* link the peer has left the kernel may still accept the bytes, which are lost.
SyncWrite ==
    /\ pc \in {"write", "write2"}
    /\ \/ /\ link = "up"
          /\ wire' = [kind |-> "req", from |-> cur]
       \/ /\ link = "broken"
          /\ UNCHANGED wire
    /\ pc' = "read"
    /\ UNCHANGED <<relayVars, connChan, in, out, cur, buf, link>>

\* Mutant of SyncWriteFails: the second failure continues without an answer.
SyncWriteFailsSilently ==
    /\ link = "broken"
    /\ \/ pc = "write"  /\ pc' = "redialW" /\ link' = "down"
       \/ pc = "write2" /\ pc' = "idle"    /\ UNCHANGED link
    /\ UNCHANGED <<relayVars, connChan, in, out, cur, buf, wire>>

\* ClientConn.Write(val) fails: the first time the link is closed and dialled
\* again, the second time the relay gets the error answer.
SyncWriteFails ==
    /\ link = "broken"
    /\ \/ pc = "write"  /\ pc' = "redialW" /\ link' = "down"
       \/ pc = "write2" /\ pc' = "putErr"  /\ UNCHANGED link
    /\ UNCHANGED <<relayVars, connChan, in, out, cur, buf, wire>>

\* ClientConn.Read(buf[:]) starts to copy an answer into the array.
SyncRead ==
    /\ pc \in {"read", "reread"}
    /\ wire.kind \in {"addr", "short"}
    /\ buf' = Torn
    /\ pc' = "fill"
    /\ UNCHANGED <<relayVars, connChan, in, out, cur, netVars>>

\* Mutant of SyncReadFails: the second failure falls through to Out <- buf[:n].
SyncReadFailsPutsBuf ==
    /\ link = "broken"
    /\ wire.kind \notin {"addr", "short"}
    /\ \/ pc = "read"   /\ pc' = "redialR" /\ link' = "down"
       \/ pc = "reread" /\ pc' = "put"     /\ UNCHANGED link
    /\ UNCHANGED <<relayVars, connChan, in, out, cur, buf, wire>>

\* Mutant of SyncReadFails: a read deadline, and no new connection after it.
SyncReadFailsKeepsLink ==
    /\ wire.kind \notin {"addr", "short"}
    /\ \/ pc = "read"   /\ pc' = "reread"
       \/ pc = "reread" /\ pc' = "putErr"
    /\ UNCHANGED <<relayVars, connChan, in, out, cur, buf, netVars>>

\* ClientConn.Read(buf[:]) fails: the first time the link is closed and
\* dialled again, and the Read repeated there; the second time the relay gets
\* the error answer.
SyncReadFails ==
    /\ link = "broken"
    /\ wire.kind \notin {"addr", "short"}
    /\ \/ pc = "read"   /\ pc' = "redialR" /\ link' = "down"
       \/ pc = "reread" /\ pc' = "putErr"  /\ UNCHANGED link
    /\ UNCHANGED <<relayVars, connChan, in, out, cur, buf, wire>>

\* Read returns.  A one-byte answer overwrites only the first byte of the
\* array, so what the array holds is then no address at all.
SyncFill ==
    /\ pc = "fill"
    /\ buf' = IF wire.kind = "addr" THEN wire.from ELSE Torn
    /\ pc' = IF wire.kind = "addr" THEN "put" ELSE "putErr"
    /\ wire' = NoMsg
    /\ UNCHANGED <<relayVars, connChan, in, out, cur, link>>

\* self.Out <- buf[:n] with an address, which blocks while Out is full.
SyncPut ==
    /\ pc = "put"
    /\ out.kind = "empty"
    /\ out' = [kind |-> "addr", of |-> buf]
    /\ pc' = "idle"
    /\ cur' = NoConn
    /\ UNCHANGED <<relayVars, connChan, in, buf, netVars>>

\* self.Out <- []byte{1}, or self.Out <- buf[:1] with RunTool's refusal.
SyncPutErr ==
    /\ pc = "putErr"
    /\ out.kind = "empty"
    /\ out' = ErrorOut
    /\ pc' = "idle"
    /\ cur' = NoConn
    /\ UNCHANGED <<relayVars, connChan, in, buf, netVars>>

-----------------------------------------------------------------------------
(* RunTool and the network.                                                *)

\* SocketHandle answers every request it reads, on the connection it came
\* from: the address, or one byte (the port is unknown, or belongs to a
\* process the filter refuses).
PeerAnswer ==
    /\ link = "up"
    /\ wire.kind = "req"
    /\ \E k \in {"addr", "short"} : wire' = [wire EXCEPT !.kind = k]
    /\ UNCHANGED <<relayVars, connChan, in, out, syncVars, link>>

\* The connection to RunTool breaks.  A request is lost; an answer that has
\* arrived may still be read or be lost, unless a Read is already copying it.
LinkBreaks ==
    /\ link = "up"
    /\ link' = "broken"
    /\ wire' \in (IF pc = "fill" THEN {} ELSE {NoMsg})
                  \cup (IF wire.kind = "req" THEN {} ELSE {wire})
    /\ UNCHANGED <<relayVars, connChan, in, out, syncVars>>

-----------------------------------------------------------------------------
Relay(c) ==
    \/ Enqueue(c) \/ AskIn(c) \/ TakeOut(c) \/ CopyAddr(c)
    \/ GetConn(c) \/ PipeEnd(c)

SyncServer ==
    \/ SyncDial \/ SyncTake \/ SyncWrite \/ SyncWriteFails \/ SyncRead
    \/ SyncReadFails \/ SyncFill \/ SyncPut \/ SyncPutErr

Next ==
    \/ \E c \in Conns : Relay(c)
    \/ Dispatch
    \/ SyncServer
    \/ PeerAnswer
    \/ LinkBreaks

\* The Go scheduler runs every goroutine that can run, a reachable RunTool
\* accepts a dial and answers what it reads.  Nothing makes a link break, a
\* proxy dial end or a relay finish.
Fairness ==
    /\ WF_vars(Dispatch)
    /\ WF_vars(SyncServer)
    /\ WF_vars(PeerAnswer)
    /\ \A c \in Conns : WF_vars(AskIn(c)) /\ WF_vars(TakeOut(c)) /\ WF_vars(CopyAddr(c))

Spec == Init /\ [][Next]_vars
FairSpec == Spec /\ Fairness

-----------------------------------------------------------------------------
(* Properties.                                                             *)

Messages ==
    {NoMsg} \cup [kind : {"req", "addr", "short"}, from : Conns \cup {NoConn}]

\* Every variable of the pool has its type and ConnChan keeps its capacity.
TypeOK ==
    /\ st \in [Conns -> Stages]
    /\ connChan \in Seq(Conns)
    /\ Len(connChan) <= ConnCap
    /\ in \in Conns \cup {NoConn}
    /\ out \in Slices
    /\ buf \in Content
    /\ hold \in [Conns -> Content]
    /\ addr \in [Conns -> Results]
    /\ pc \in SyncPC
    /\ cur \in Conns \cup {NoConn}
    /\ link \in {"down", "up", "broken"}
    /\ wire \in Messages
    /\ overlap \subseteq Conns

Tokens == (IF in = NoConn THEN 0 ELSE 1) + Busy
          + (IF out.kind = "empty" THEN 0 ELSE 1)

\* GetRemoteAddr waits for one answer per question, and SyncServer owes one
\* answer per question on every path, the failing ones included: the relays
\* waiting on Out are exactly as many as the questions in In, the one being
\* asked and the answers in Out.  A path that forgot its answer would leave a
\* relay waiting for ever; one that answered twice would hand every later
\* relay the answer of the one before it.
Balance == Cardinality(Asked) = Tokens

\* A relay whose lookup overlapped no other lookup dials the address of its
\* own port, whatever failures, reconnections and refused lookups came before
\* or during it: no answer left over from an earlier question or an earlier
\* connection, and no half-written buf, reaches it.
OwnAnswer ==
    \A c \in Conns \ overlap : st[c] \in {"dialing", "piping"} => addr[c] = c

\* SyncServer repeats a failed Read on a new connection without sending the
\* question again, so the repeated Read never yields an answer: it ends, if at
\* all, in the error answer.
RereadOnlyFails == [][pc = "reread" => pc' \in {"reread", "putErr"}]_vars

\* SyncServer waits in the repeated Read on a connection that stays up.
Stuck == pc = "reread" /\ link = "up"

\* Every accepted connection is looked up and then dialled or closed, unless
\* SyncServer waits for ever in the repeated Read, the one place where it can
\* hang while RunTool answers and can be dialled.
Released ==
    \A c \in Conns :
        \/ st[c] = "queued" ~> st[c] \in {"dialing", "piping", "closed"}
        \/ <>[]Stuck

-----------------------------------------------------------------------------
(* The promise of GetRemoteAddr, module Lookup.                            *)

Phase(c) ==
    CASE st[c] \in {"new", "queued", "started"}     -> "idle"
      [] st[c] \in {"asked", "holding"}             -> "asking"
      [] st[c] \in {"dialing", "piping", "closed"}  -> "told"

L == INSTANCE Lookup WITH
        Garbled <- Torn, NoResult <- NoConn,
        phase <- [c \in Conns |-> Phase(c)], result <- addr

\* The channels, the buffer and the reconnections of ProxyPool implement one
\* question and one answer per relay, the right one when lookups do not overlap.
LookupSpec == L!Spec
=============================================================================
