------------------------------ MODULE MCRelay ------------------------------
(***************************************************************************)
(* The two halves of RelayHandle for TLC: the pool up to the dial          *)
(* (RelayPool) and the copying after it (RelayPipe). They share no         *)
(* variable, and a behaviour is one of the half that part names, the other *)
(* half staying in its initial state.                                      *)
(***************************************************************************)
EXTENDS RelayPool

CONSTANTS ExitCap, MaxChunks

ASSUME PipeAssumption == ExitCap \in Nat /\ MaxChunks \in Nat

VARIABLES part, peer, sent, read, wrote, cp, sock, exit, main

P == INSTANCE RelayPipe

pipeVars == <<peer, sent, read, wrote, cp, sock, exit, main>>
allVars == <<part, vars, pipeVars>>

MCInit == part \in {"pool", "pipe"} /\ Init /\ P!Init

PoolNext == part = "pool" /\ Next /\ UNCHANGED <<part, pipeVars>>
PipeNext == part = "pipe" /\ P!Next /\ UNCHANGED <<part, vars>>

MCSpec ==
    /\ MCInit /\ [][PoolNext \/ PipeNext]_allVars
    /\ WF_vars(part = "pool" /\ Dispatch)
    /\ WF_vars(part = "pool" /\ SyncServer)
    /\ WF_vars(part = "pool" /\ PeerAnswer)
    /\ \A c \in Conns : /\ WF_vars(part = "pool" /\ AskIn(c))
                         /\ WF_vars(part = "pool" /\ TakeOut(c))
                         /\ WF_vars(part = "pool" /\ CopyAddr(c))
    /\ \A d \in P!Ends : /\ WF_pipeVars(part = "pipe" /\ P!CopyRead(d))
                          /\ WF_pipeVars(part = "pipe" /\ P!CopyReadEnds(d))
                          /\ WF_pipeVars(part = "pipe" /\ P!CopyWriteFails(d))
                          /\ WF_pipeVars(part = "pipe" /\ P!CopyExit(d))
    /\ WF_pipeVars(part = "pipe" /\ P!CloseProxy)
    /\ WF_pipeVars(part = "pipe" /\ P!CloseConn)

\* RelayHandle closes a connection only after an end has reset, or has stopped
\* and all it sent was passed on (RelayPipe).
ClosedForAReason == P!ClosedForAReason

\* Once one io.Copy of RelayHandle has returned, both goroutines end and both
\* connections are closed (RelayPipe).
NothingLeaks == part = "pipe" => P!NothingLeaks
============================================================================
