----------------------------- MODULE MCGameHost -----------------------------
(***************************************************************************)
(* The two programs on a game host for TLC: GameRun's request buffer       *)
(* (GameClient), and RunTool's connection threads and lookups (RunTool)    *)
(* with the filter of processes they ask (ProcessFilter), whose verdict    *)
(* RunTool takes as open. A behaviour is one of the component that part    *)
(* names, the others staying in their initial state.                       *)
(***************************************************************************)
EXTENDS GameClient

CONSTANTS
    Conns, Requests, Listed, Refused, Missing, MaxAsks,     \* RunTool
    Names, Others, Pids, Threads, MaxStarts                 \* ProcessFilter

VARIABLES
    part,
    runs, so, port, freed, th, rd, buf, peer, req, out, question, asks, overlap, mixed,
    proc, names, ids, tmp, search, pid, hit, starts, used, reused, together

\* A port is asked for by its digits; a program of the game is no other program.
ASSUME ToolAssumption == \A r \in Requests : r \in Seq(0 .. 9)
ASSUME NoConnAssumption == None \notin Conns
ASSUME FilterAssumption ==
    /\ IsFiniteSet(Names) /\ Names \cap Others = {}
    /\ None \notin Names \cup Others \cup Pids

R == INSTANCE RunTool WITH up <- runs, asked <- question
F == INSTANCE ProcessFilter WITH th <- search, overlap <- together

toolVars == <<runs, so, port, freed, th, rd, buf, peer, req, out, question, asks, overlap, mixed>>
filterVars == <<proc, names, ids, tmp, search, pid, hit, starts, used, reused, together>>
allVars == <<part, vars, toolVars, filterVars>>

\* Port 3 asked after port 12 is read as 32.
PortDigits == {<<1, 2>>, <<3>>}

MCInit == part \in {"client", "tool", "filter"} /\ Init /\ R!Init /\ F!Init

ClientNext == part = "client" /\ Next /\ UNCHANGED <<part, toolVars, filterVars>>
ToolNext   == part = "tool" /\ R!Next /\ UNCHANGED <<part, vars, filterVars>>
FilterNext == part = "filter" /\ F!Next /\ UNCHANGED <<part, vars, toolVars>>

MCSpec ==
    /\ MCInit /\ [][ClientNext \/ ToolNext \/ FilterNext]_allVars
    /\ WF_vars(part = "client" /\ Sender) /\ WF_vars(part = "client" /\ ServerHandle)
    /\ \A c \in Conns : /\ WF_toolVars(part = "tool" /\ R!Serve(c))
                        /\ WF_toolVars(part = "tool" /\ R!TakeAnswer(c))

-----------------------------------------------------------------------------
(* The lookup server (RunTool).                                            *)

\* RunTool answers what was asked and does not hang up, unless threads overlapped
\* or the request buffer held the tail of a longer port.
RightService == R!RightService

\* A question is answered or given up, unless threads overlapped or RunTool ended.
QuestionsAnswered == R!Answered

-----------------------------------------------------------------------------
(* The filter (ProcessFilter).                                             *)

\* The filter decides right and remembers one id per name, unless ids were given
\* out again, a name came up twice, or two searches overlapped.
FilterRight == F!FilterRight
=============================================================================
