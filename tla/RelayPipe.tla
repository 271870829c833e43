------------------------------ MODULE RelayPipe ------------------------------
(***************************************************************************)
(* The second half of RelayHandle in proxyPool/proxy.go: one goroutine     *)
(* copies from the proxy connection tconn to the client connection conn,   *)
(* another the other way, each reports on the channel exit when its        *)
(* io.Copy returns, and RelayHandle closes both connections after the      *)
(* first report.                                                           *)
(*                                                                         *)
(* The two ends are the game client and the proxy server.  Direction d     *)
(* copies what end d sent to the other end.  Data are counted in chunks of *)
(* one Read.                                                               *)
(***************************************************************************)
EXTENDS Integers

CONSTANTS
    ExitCap,    \* capacity of the channel exit (1 in the code)
    MaxChunks   \* bound: chunks an end sends before it stops

Ends == {"client", "proxy"}
Other(e) == IF e = "client" THEN "proxy" ELSE "client"

VARIABLES
    peer,       \* each remote end: "open", "fin" (will send no more), "reset"
    sent,       \* chunks each end has sent
    read,       \* chunks the copier of a direction has read
    wrote,      \* chunks it has written to the other end
    cp,         \* copier of each direction: "read", "write", "send", "done"
    sock,       \* our connection to each end: "open" or "closed"
    exit,       \* reports waiting in the channel exit
    main        \* RelayHandle: "wait", "closeConn", "done"

vars == <<peer, sent, read, wrote, cp, sock, exit, main>>

Init ==
    /\ peer = [e \in Ends |-> "open"]
    /\ sent = [e \in Ends |-> 0]
    /\ read = [e \in Ends |-> 0]
    /\ wrote = [e \in Ends |-> 0]
    /\ cp = [e \in Ends |-> "read"]
    /\ sock = [e \in Ends |-> "open"]
    /\ exit = 0
    /\ main = "wait"

-----------------------------------------------------------------------------
(* The remote ends, outside the program.                                   *)

PeerSends(e) ==
    /\ peer[e] = "open"
    /\ sent[e] < MaxChunks
    /\ sent' = [sent EXCEPT ![e] = @ + 1]
    /\ UNCHANGED <<peer, read, wrote, cp, sock, exit, main>>

\* An end half-closes (it may still receive) or its connection is reset.
PeerStops(e) ==
    /\ peer[e] # "reset"
    /\ \E s \in {"fin", "reset"} \ {peer[e]} : peer' = [peer EXCEPT ![e] = s]
    /\ UNCHANGED <<sent, read, wrote, cp, sock, exit, main>>

-----------------------------------------------------------------------------
(* io.Copy of direction d: Read from end d, Write to the other end.        *)

CopyRead(d) ==
    /\ cp[d] = "read"
    /\ sock[d] = "open" /\ peer[d] # "reset"
    /\ read[d] < sent[d]
    /\ read' = [read EXCEPT ![d] = @ + 1]
    /\ cp' = [cp EXCEPT ![d] = "write"]
    /\ UNCHANGED <<peer, sent, wrote, sock, exit, main>>

\* Read meets the end of the stream, a reset or our own Close.
CopyReadEnds(d) ==
    /\ cp[d] = "read"
    /\ \/ sock[d] = "closed"
       \/ peer[d] = "reset"
       \/ peer[d] = "fin" /\ read[d] = sent[d]
    /\ cp' = [cp EXCEPT ![d] = "send"]
    /\ UNCHANGED <<peer, sent, read, wrote, sock, exit, main>>

\* Write passes the chunk on, once the other end has room for it.
CopyWrite(d) ==
    /\ cp[d] = "write"
    /\ sock[Other(d)] = "open" /\ peer[Other(d)] # "reset"
    /\ wrote' = [wrote EXCEPT ![d] = @ + 1]
    /\ cp' = [cp EXCEPT ![d] = "read"]
    /\ UNCHANGED <<peer, sent, read, sock, exit, main>>

\* Write meets a reset or our own Close.
CopyWriteFails(d) ==
    /\ cp[d] = "write"
    /\ sock[Other(d)] = "closed" \/ peer[Other(d)] = "reset"
    /\ cp' = [cp EXCEPT ![d] = "send"]
    /\ UNCHANGED <<peer, sent, read, wrote, sock, exit, main>>

\* Mutant of CopyExit: an exit channel without a buffer.
CopyExitUnbuffered(d) ==
    /\ cp[d] = "send"
    /\ main = "wait"
    /\ exit = 0
    /\ exit' = 1
    /\ cp' = [cp EXCEPT ![d] = "done"]
    /\ UNCHANGED <<peer, sent, read, wrote, sock, main>>

\* exit <- true, which blocks while the channel is full.
CopyExit(d) ==
    /\ cp[d] = "send"
    /\ exit < ExitCap
    /\ exit' = exit + 1
    /\ cp' = [cp EXCEPT ![d] = "done"]
    /\ UNCHANGED <<peer, sent, read, wrote, sock, main>>

-----------------------------------------------------------------------------
(* RelayHandle.                                                            *)

\* Mutant of CloseProxy: RelayHandle does not wait for a report.
CloseProxyAtOnce ==
    /\ main = "wait"
    /\ sock' = [sock EXCEPT !["proxy"] = "closed"]
    /\ main' = "closeConn"
    /\ UNCHANGED <<peer, sent, read, wrote, cp, exit>>

\* <-exit, then tconn.Close().
CloseProxy ==
    /\ main = "wait"
    /\ exit > 0
    /\ exit' = exit - 1
    /\ sock' = [sock EXCEPT !["proxy"] = "closed"]
    /\ main' = "closeConn"
    /\ UNCHANGED <<peer, sent, read, wrote, cp>>

\* return runs the deferred conn.Close().
CloseConn ==
    /\ main = "closeConn"
    /\ sock' = [sock EXCEPT !["client"] = "closed"]
    /\ main' = "done"
    /\ UNCHANGED <<peer, sent, read, wrote, cp, exit>>

-----------------------------------------------------------------------------
Copier(d) ==
    CopyRead(d) \/ CopyReadEnds(d) \/ CopyWrite(d) \/ CopyWriteFails(d) \/ CopyExit(d)

Next ==
    \/ \E e \in Ends : PeerSends(e) \/ PeerStops(e)
    \/ \E d \in Ends : Copier(d)
    \/ CloseProxy
    \/ CloseConn

Spec == Init /\ [][Next]_vars

\* The Go scheduler runs every goroutine that can run.  The ends need not act,
\* and an end that does not read can hold up a Write for ever.
Fairness ==
    /\ \A d \in Ends : /\ WF_vars(CopyRead(d))
                       /\ WF_vars(CopyReadEnds(d))
                       /\ WF_vars(CopyWriteFails(d))
                       /\ WF_vars(CopyExit(d))
    /\ WF_vars(CloseProxy)
    /\ WF_vars(CloseConn)

FairSpec == Spec /\ Fairness

-----------------------------------------------------------------------------
(* Properties.                                                             *)

\* Every variable has its type, and exit keeps its capacity.
TypeOK ==
    /\ peer \in [Ends -> {"open", "fin", "reset"}]
    /\ sent \in [Ends -> 0..MaxChunks]
    /\ read \in [Ends -> 0..MaxChunks]
    /\ wrote \in [Ends -> 0..MaxChunks]
    /\ cp \in [Ends -> {"read", "write", "send", "done"}]
    /\ sock \in [Ends -> {"open", "closed"}]
    /\ exit \in 0..ExitCap
    /\ main \in {"wait", "closeConn", "done"}

\* RelayHandle never cuts a relay whose two ends are still talking: when it
\* closes a connection, one end has reset, or one end has stopped and all it
\* sent has been passed on.
ClosedForAReason ==
    (\E e \in Ends : sock[e] = "closed") =>
        \E d \in Ends : \/ peer[d] = "reset"
                        \/ peer[d] = "fin" /\ wrote[d] = sent[d]

\* No goroutine and no connection outlives a relay: once one io.Copy has
\* returned, the other one does too, even out of a Write nobody reads, both
\* reports find room in exit, and both connections are closed.
NothingLeaks ==
    (\E d \in Ends : cp[d] = "send") ~>
        /\ main = "done"
        /\ \A d \in Ends : cp[d] = "done" /\ sock[d] = "closed"
=============================================================================
