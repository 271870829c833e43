---------------------------- MODULE MahjongWeight ----------------------------
(***************************************************************************)
(* One suit of the player's hand, changed tile by tile the way             *)
(* Ai.UpdateBlocksWeight does, so that every hand of the suit comes up;    *)
(* the weight the code keeps for the suit is compared with what it should  *)
(* mean.                                                                   *)
(***************************************************************************)
EXTENDS MahjongBlock

CONSTANTS
  MaxTiles   \* the tiles of a full hand (14 in the code)

VARIABLES
  no,    \* the tiles of the suit
  blk    \* its NewBlock as of the last Update: W and We

vars == <<no, blk>>

Update(n) == SetWeight(n)

Init ==
  /\ no = NoTile
  /\ blk = Update(NoTile)

(* UpdateBlocksWeight(add, i, j, 1) of the suit i: a tile more or less.    *)
UpdateBlocksWeight(add, j) ==
  /\ IF add THEN no[j] < 4 /\ SumLen(no) < MaxTiles ELSE no[j] > 0
  /\ no' = [no EXCEPT ![j] = IF add THEN @ + 1 ELSE @ - 1]
  /\ blk' = Update(no')

Next == \E add \in BOOLEAN, j \in Rank : UpdateBlocksWeight(add, j)

Spec == Init /\ [][Next]_vars

-----------------------------------------------------------------------------
(* Every weight is a natural number, every grain a rank with a count. *)
TypeOK ==
  /\ no \in SuitHand
  /\ blk.w \in Nat
  /\ blk.o \subseteq Rank \X (1 .. 2)

(* The test of checkFull, W = 1, never takes a suit for complete that is   *)
(* not, as long as no tile is held four times: the greedy reading may miss *)
(* a way to read the hand, and does not invent one.                        *)
NoFalseWin == NoFour(no) /\ blk.w = 1 => IsComplete(no)

(* A complete suit is recognised, with one exception. *)
WinSeen == NoFour(no) /\ IsComplete(no) /\ ~ PairInTheMiddle(no) => blk.w = 1

(* A suit of a complete hand that does not hold the pair must weigh        *)
(* nothing, and only such a suit does: the weights of the suits are added. *)
MeldsAreFree == NoFour(no) => (blk.w = 0 <=> IsMelds(no))

(* So the weight means what checkFull takes it for, as long as no tile is  *)
(* held four times, with one shape of a hand that is missed.               *)
WeightIsRight == NoFalseWin /\ MeldsAreFree /\ WinSeen
=============================================================================
