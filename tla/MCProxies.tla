----------------------------- MODULE MCProxies -----------------------------
(***************************************************************************)
(* What goes through or about a proxy, for TLC: the checks of proxies      *)
(* (ProxyCheck), the first use of their database (ProxyFile) and one dial  *)
(* through a proxy (TunnelDial). They share no variable, and a behaviour   *)
(* is one of the component that part names, the others staying in an       *)
(* initial state.                                                          *)
(***************************************************************************)
EXTENDS ProxyCheck

CONSTANTS
    Goroutines, Rows, None, MaxKills,               \* ProxyFile
    Schemes, Users, Auths, Targets, MaxData         \* TunnelDial

VARIABLES
    part,
    fpc, op, lock, file, ftable, rows, up, kills, stored, missed, torn,
    conf, cpc, spc, c2s, s2c, open, dialled, csent, tsent, app, tgot, fault

F == INSTANCE ProxyFile WITH Workers <- Goroutines, pc <- fpc, table <- ftable
D == INSTANCE TunnelDial

ASSUME DialAssumption ==
    /\ Schemes \subseteq D!AllSchemes /\ Users \subseteq {"none", "password"}
    /\ Auths \subseteq BOOLEAN /\ Targets \subseteq {"up", "refused", "timeout", "other"}
    /\ MaxData \in Nat

fileVars == <<fpc, op, lock, file, ftable, rows, up, kills, stored, missed, torn>>
dialVars == <<conf, cpc, spc, c2s, s2c, open, dialled, csent, tsent, app, tgot, fault>>
allVars == <<part, vars, fileVars, dialVars>>

\* Where a component that does not move stands.
AnyEndpoints == CHOOSE e \in [Addrs -> Endpoints] : TRUE
AnyConf == [scheme |-> CHOOSE s \in Schemes : TRUE, user |-> "none", auth |-> FALSE,
            target |-> CHOOSE t \in Targets : TRUE]

MCInit ==
    /\ part \in {"check", "file", "dial"}
    /\ Init /\ F!Init /\ D!Init
    /\ part # "check" => ep = AnyEndpoints
    /\ part # "dial" => conf = AnyConf

CheckNext == part = "check" /\ Next /\ UNCHANGED <<part, fileVars, dialVars>>
FileNext  == part = "file" /\ F!Next /\ UNCHANGED <<part, vars, dialVars>>
DialNext  == part = "dial" /\ D!Next /\ UNCHANGED <<part, vars, fileVars>>

MCSpec ==
    /\ MCInit /\ [][CheckNext \/ FileNext \/ DialNext]_allVars
    /\ WF_vars(part = "check" /\ CheckDB) /\ WF_vars(part = "check" /\ Candidate)
    /\ \A w \in Goroutines : /\ WF_fileVars(part = "file" /\ F!Step(w))
                              /\ SF_fileVars(part = "file" /\ F!Lock(w))
    /\ WF_dialVars(part = "dial" /\ D!Client) /\ WF_dialVars(part = "dial" /\ D!Server)

-----------------------------------------------------------------------------
(* The database file (ProxyFile).                                          *)

\* SaveDB returns, unless the process ends.
SaveReturns == part = "file" => F!SaveReturns

\* A row that SaveDB reported as saved stays; the database is useless, or ends
\* the process, only after two goroutines found no file or a kill inside CreateDB.
FileSound == F!FileSound

-----------------------------------------------------------------------------
(* A dial through a proxy (TunnelDial).                                    *)

\* A tunnel carries what either side sent, but for what came with the answer.
TunnelFaithful == D!TunnelFaithful

\* Every dial ends, unless the server's handler returns without a word, and fails
\* only when the network did or when the server demands a password.
EveryDialEnds == (part = "dial" => (~D!Unanswered ~> D!Ended)) /\ []D!FailsForAReason
============================================================================
