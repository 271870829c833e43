----------------------------- MODULE MCMahjong -----------------------------
(***************************************************************************)
(* The mahjong player for TLC: a game after its opening (MahjongPlay) and  *)
(* the opening itself (MahjongExchange), each with a hand size of its own. *)
(* A behaviour is one of the component that part names, the other one      *)
(* being idle.                                                             *)
(***************************************************************************)
EXTENDS MahjongPlay

CONSTANTS
  OpeningSize, Give     \* MahjongExchange

(* A hand of 13 or 14 tiles cannot have three equally long suits. *)
ASSUME OpeningAssumption ==
  OpeningSize \in Nat /\ Give \in 0 .. OpeningSize /\ OpeningSize % 3 # 0

VARIABLES part, dealt, order, lose, offer, step

E == INSTANCE MahjongExchange WITH
       HandSize <- OpeningSize, hand <- dealt, inv <- lose, phase <- step

openVars == <<dealt, order, lose, offer, step>>
allVars == <<part, vars, openVars>>

PlayIdle ==
  /\ hand = NoTiles /\ melds = [t \in Kind |-> 0] /\ lack = 0 /\ inv = None
  /\ now = NoTiles /\ down = NoTiles /\ gone = {} /\ heard = Unseen
  /\ ans = Nil /\ phase = "over"
OpenIdle ==
  dealt = NoTiles /\ order = <<0, 1, 2>> /\ lose = None /\ offer = <<>> /\ step = "dealt"

MCInit ==
  \/ part = "play" /\ Init /\ OpenIdle
  \/ part = "opening" /\ PlayIdle /\ E!Init

(* Bound: a game is followed until the client has laid down a second meld. *)
FewMelds == Cardinality({t \in Kind : melds[t] > 0}) <= 1

PlayNext == part = "play" /\ FewMelds /\ Next /\ UNCHANGED <<part, openVars>>
OpenNext == part = "opening" /\ E!Next /\ UNCHANGED <<part, vars>>

MCSpec == MCInit /\ [][PlayNext \/ OpenNext]_allVars

-----------------------------------------------------------------------------
(* The opening (MahjongExchange). *)

(* The suit to do without is the best of the three to lose. *)
InvIsBest == part = "opening" => E!InvIsBest

(* What is offered can be given away, but for one tile that is repeated. *)
OfferSound == part = "opening" => E!OfferSound
=============================================================================
