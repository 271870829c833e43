--------------------------- MODULE MahjongExchange ---------------------------
(***************************************************************************)
(* The opening of a mahjong game: the client asks which three tiles to     *)
(* give away (function 1: Init, InitNow, OutDiscard) and, with the hand it *)
(* has after the exchange, which suit to play without (function 2: Init,   *)
(* InitNow, GetValid).                                                     *)
(*                                                                         *)
(* Both functions begin with InitNow, which writes the counts of all suits *)
(* (UserPublic.Now) and refreshes all blocks: between two calls only the   *)
(* order of the blocks and Inv matter.  Within OutDiscard the counts       *)
(* (`now') and the counts the blocks were last made from (`at') differ.    *)
(***************************************************************************)
EXTENDS MahjongBlock

CONSTANTS
  HandSize,  \* tiles of the hand that is sent (14 in the code)
  Give       \* tiles to give away (3 in the code)

VARIABLES
  hand,    \* what the client holds
  order,   \* Ai.Blocks: the suits in the order of their blocks
  inv,     \* Public[3].Inv
  offer,   \* the tiles function 1 answered
  phase    \* what the client does next

vars == <<hand, order, inv, offer, phase>>

(***************************************************************************)
(* OutDiscard                                                              *)
(***************************************************************************)
(* How often a tile is offered, and the counts without what is offered. *)
Times(o, t) == Cardinality({k \in DOMAIN o : o[k] = t})
Without(h, o) == [i \in Suit |-> [r \in Rank |-> h[i][r] - Times(o, <<i, r>>)]]

(* k picks in a row; no block is refreshed between them. *)
Easy(now, at, k) ==
  {o \in [1 .. k -> Shown(at)] :
     \A n \in 1 .. k : o[n] \in EasyOuts(Without(now, SubSeq(o, 1, n - 1)), at)}

(* The first n tiles of a suit in the order of their ranks. *)
Tiles(h, i, n) ==
  [k \in 1 .. n |-> <<i, CHOOSE r \in Rank : Upto(h[i])[r] < k /\ k <= Upto(h[i])[r + 1]>>]

\* Mutant of OutDiscard: the block of the suit is not refreshed.
OutDiscardStale(h, i) ==
  LET own == Tiles(h, i, Min({Give, SumLen(h[i])}))
  IN  {own \o o : o \in Easy(Without(h, own), h, Give - Len(own))}

(* The suit to do without first, in rank order, its block refreshed; then  *)
(* what EasyOuts picks.                                                    *)
OutDiscard(h, i) ==
  LET own == Tiles(h, i, Min({Give, SumLen(h[i])}))
      now == Without(h, own)
  IN  {own \o o : o \in Easy(now, [h EXCEPT ![i] = now[i]], Give - Len(own))}

-----------------------------------------------------------------------------
Init ==
  /\ hand \in Deals(HandSize, Tile)
  /\ order = <<0, 1, 2>>
  /\ inv = None
  /\ offer = <<>>
  /\ phase = "dealt"

InitNow ==
  /\ order' = SortNewBlock(hand, order)
  /\ inv' = GetDiscard(hand, order')

(* ScmjFuncLib[1] *)
Func1 ==
  /\ phase = "dealt"
  /\ InitNow
  /\ offer' \in OutDiscard(hand, inv')
  /\ phase' = "offered"
  /\ UNCHANGED hand

(* ScmjFuncLib[2] *)
Func2 ==
  /\ phase = "exchanged"
  /\ InitNow
  /\ phase' = "playing"
  /\ UNCHANGED <<hand, offer>>

Held(h, o) == \A t \in ToSet(o) : Times(o, t) <= h[t[1]][t[2]]

(* The game: the offered tiles go, and the client gets as many of some     *)
(* other tile; tiles it does not hold cannot go.                           *)
Exchange ==
  /\ phase = "offered"
  /\ Held(hand, offer)
  /\ \E t \in Tile :
       LET rest == Without(hand, offer)
       IN  /\ rest[t[1]][t[2]] + Give <= 4
           /\ hand' = Put(rest, t, Give)
  /\ phase' = "exchanged"
  /\ offer' = <<>>
  /\ UNCHANGED <<order, inv>>

(* The next game of the session. *)
Again ==
  /\ phase = "playing"
  /\ phase' = "dealt"
  /\ UNCHANGED <<hand, order, inv, offer>>

Next == Func1 \/ Func2 \/ Exchange \/ Again

Spec == Init /\ [][Next]_vars

-----------------------------------------------------------------------------
(* Hands keep their size, the blocks are those of the three suits, and     *)
(* Give tiles are offered.                                                 *)
TypeOK ==
  /\ hand \in Hand
  /\ MapThenSumSet(LAMBDA i : SumLen(hand[i]), Suit) = HandSize
  /\ order \in [1 .. 3 -> Suit] /\ ToSet(order) = Suit
  /\ inv \in Suit \cup {None}
  /\ offer \in Seq(Tile) /\ Len(offer) \in {0, Give}
  /\ phase \in {"dealt", "offered", "exchanged", "playing"}

(* The suit the player does without is the best one to lose: no other has  *)
(* fewer tiles, and of the shortest ones it has the most different tiles,  *)
(* then the most blocks.  GetDiscard compares the first two blocks only,   *)
(* which is right as long as the blocks are sorted and the size of a hand  *)
(* keeps three suits from being equally long.                              *)
InvIsBest ==
  phase \in {"offered", "playing"} =>
    \A i \in Suit \ {inv} :
      \/ SumLen(hand[inv]) < SumLen(hand[i])
      \/ /\ SumLen(hand[inv]) = SumLen(hand[i])
         /\ \/ SumWei(hand[inv]) > SumWei(hand[i])
            \/ /\ SumWei(hand[inv]) = SumWei(hand[i])
               /\ Cardinality(Child(hand[inv])) >= Cardinality(Child(hand[i]))

(* All tiles to give away are held as often as they are offered, provided  *)
(* the suit to lose has all of them but one.  With two or more to come     *)
(* from other suits the second loop of OutDiscard picks from blocks it has *)
(* not refreshed, and the tile it just took has the fewest copies left: it *)
(* is offered again and again.                                             *)
OfferHeld ==
  phase = "offered" /\ SumLen(hand[inv]) >= Give - 1 => Held(hand, offer)

(* That is all that goes wrong: what is offered from other suits is one    *)
(* tile, one of those with the fewest copies.                              *)
OfferRepeats ==
  phase = "offered" =>
    \A t, u \in {v \in ToSet(offer) : v[1] # inv} :
      /\ t = u
      /\ \A i \in Suit \ {inv}, r \in Rank : hand[i][r] > 0 => hand[t[1]][t[2]] <= hand[i][r]

(* What is offered can be given away, but for one tile that is repeated.   *)
OfferSound == OfferHeld /\ OfferRepeats
=============================================================================
