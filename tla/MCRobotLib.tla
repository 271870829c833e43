----------------------------- MODULE MCRobotLib -----------------------------
(***************************************************************************)
(* The robot server for TLC: its sessions (RobotServer), how a session     *)
(* learns what the other players do (TableReports), and the weight it      *)
(* gives to a suit (MahjongWeight). A behaviour is one of the component    *)
(* that part names, the others staying in an initial state. Clients and    *)
(* handlers are interchangeable.                                           *)
(***************************************************************************)
EXTENDS RobotServer, TLC

CONSTANTS
    Faces, MaxWall, MaxDiscards,    \* TableReports
    Ranks, MaxTiles                 \* MahjongWeight

ASSUME PartsAssumption ==
    /\ Faces \subseteq 0..26 /\ MaxWall \in Nat /\ MaxDiscards \in Nat
    /\ Ranks \in Nat \ {0} /\ MaxTiles \in Nat

VARIABLES
    part,
    turn, shown, wall, discards, took, lastn, lastData, seeList, see, down,
    eyes, looked, caught, caughts, skipped, hidden, claim,
    no, blk

T == INSTANCE TableReports WITH Tile <- Faces, last <- lastData
W == INSTANCE MahjongWeight

tableVars == <<turn, shown, wall, discards, took, lastn, lastData, seeList, see, down,
               eyes, looked, caught, caughts, skipped, hidden, claim>>
suitVars == <<no, blk>>
allVars == <<part, vars, tableVars, suitVars>>

MCInit ==
    /\ part \in {"sessions", "table", "suit"}
    /\ Init /\ T!Init /\ W!Init
    /\ part # "table" => turn = 0

SessionsNext == part = "sessions" /\ Next /\ UNCHANGED <<part, tableVars, suitVars>>
TableNext == part = "table" /\ T!Next /\ UNCHANGED <<part, vars, suitVars>>
SuitNext == part = "suit" /\ W!Next /\ UNCHANGED <<part, vars, tableVars>>

MCSpec == MCInit /\ [][SessionsNext \/ TableNext \/ SuitNext]_allVars

Symmetry == Permutations(Clients) \cup Permutations(Handlers)

-----------------------------------------------------------------------------
(* The table (TableReports).                                               *)

\* Every discard that the client looked at is counted once.
CountedOnce == T!CountedOnce

\* The server knows a claim when it heard of the discard, and concludes one
\* wrongly only around a discard it did not hear of.
ClaimsRight == T!ClaimsRight

-----------------------------------------------------------------------------
(* The weight of a suit (MahjongWeight).                                   *)

\* Weight 1 means a complete suit and weight 0 one of triplets and sequences, if
\* no tile is held four times; one shape of a complete suit is missed.
WeightIsRight == part = "suit" => W!WeightIsRight
=============================================================================
