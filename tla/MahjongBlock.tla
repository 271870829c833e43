---------------------------- MODULE MahjongBlock ----------------------------
(***************************************************************************)
(* How the mahjong player weighs the tiles of one suit (src/mjai).  A suit *)
(* is a function from ranks to the number of tiles held (UserPublic.Now);  *)
(* it falls apart into blocks of adjacent held ranks (NewBlock.Update),    *)
(* and the weight of a block is what the cheaper of two greedy readings,   *)
(* from its low and from its high end, leaves over (GetWeightVal).  A hand *)
(* weighs 1 when only a pair is left.                                      *)
(*                                                                         *)
(* A grain is a left over tile with the number of copies left over (N and  *)
(* O[0] of MJGrain): the answers are chosen among the grains.  Their order *)
(* and the other sort keys only steer the choice and are left out.         *)
(***************************************************************************)
EXTENDS Integers, Sequences, FiniteSets, FiniteSetsExt, SequencesExt

CONSTANTS
  Ranks     \* the ranks of a suit (9 in the code)

ASSUME RanksAssumption == Ranks \in Nat \ {0}

Rank == 0 .. Ranks - 1
SuitHand == [Rank -> 0 .. 4]
NoTile == [r \in Rank |-> 0]

(* The sums of a number for each rank, over the first n ranks and over all. *)
Upto(f) ==
  LET up[n \in 0 .. Ranks] == IF n = 0 THEN 0 ELSE up[n - 1] + f[n - 1]
  IN  up
Total(f) == Upto(f)[Ranks]

(* The tiles of a suit (NewBlock.SumLen) and its different tiles (SumWei). *)
SumLen(no) == Total(no)
SumWei(no) == Cardinality({r \in Rank : no[r] > 0})

(* The blocks of a suit: its maximal runs of held ranks. *)
Run(a, b) == [i \in 1 .. b - a + 1 |-> a + i - 1]
Starts(no) == {a \in Rank : no[a] > 0 /\ (a = 0 \/ no[a - 1] = 0)}
Ends(no, a) == {e \in Rank : e >= a /\ (e + 1 \in Rank => no[e + 1] = 0)}
BlockAt(no, a) == Run(a, Min(Ends(no, a)))
Child(no) == {BlockAt(no, a) : a \in Starts(no)}

(* A number for each of some ranks, added up. *)
SumOf(f, rs) == Total([r \in Rank |-> IF r \in rs THEN f[r] ELSE 0])

(* What a set of leftover ranks weighs: the tiles that miss to triplets. *)
Loose(no, rs) ==
  LET short == {r \in rs : no[r] < 3}
  IN  [w |-> SumOf([r \in Rank |-> 3 - no[r]], short),
       o |-> {<<r, no[r]>> : r \in short}]

Both(a, b) == [w |-> a.w + b.w, o |-> a.o \cup b.o]

(* The cheaper of two readings; at a tie, the grains of both, those of     *)
(* `first' where both leave the same tile.                                 *)
Cheaper(first, second) ==
  IF second.w < first.w THEN second
  ELSE IF first.w < second.w THEN first
  ELSE [w |-> first.w,
        o |-> first.o \cup {g \in second.o : \A h \in first.o : h[1] # g[1]}]

(* The three first ranks of a block that does not begin with a triplet     *)
(* lose a tile each, a sequence.  What is before the last rank that is     *)
(* used up is left over; what is behind it is read again from both ends.   *)
Adjacent(b) == \/ \A k \in DOMAIN b : b[k] = b[1] + (k - 1)
               \/ \A k \in DOMAIN b : b[k] = b[1] - (k - 1)
Readings ==
  {x \in [Rank -> Nat] \X Seq(Rank) :
     Adjacent(x[2]) /\ \A k \in DOMAIN x[2] : x[1][x[2][k]] > 0}
Less(n, b) == [r \in Rank |-> IF r \in {b[1], b[2], b[3]} THEN n[r] - 1 ELSE n[r]]
UsedUp(n, b) == Cardinality({i \in 1 .. 3 : \E k \in i .. 3 : Less(n, b)[b[k]] = 0})
LeftOver(n, b) == Loose(Less(n, b), {r \in {b[i] : i \in 1 .. UsedUp(n, b)} : Less(n, b)[r] # 0})
Rest(n, b) == SubSeq(b, UsedUp(n, b) + 1, Len(b))
val[x \in Readings] ==
  LET n == x[1]  b == x[2]  less == Less(n, b)  rest == Rest(n, b)
  IN  IF Len(b) < 3 THEN Loose(n, ToSet(b))
      ELSE IF n[b[1]] > 2 THEN val[<<n, Tail(b)>>]
      ELSE IF Len(rest) < 3 THEN Both(LeftOver(n, b), val[<<less, rest>>])
      ELSE Both(LeftOver(n, b), Cheaper(val[<<less, Reverse(rest)>>], val[<<less, rest>>]))
WeightVal(no, bl) == val[<<no, bl>>]

\* Mutant of GetWeightVal: a block is read from its low end only.
GetWeightValLow(no, bl) == WeightVal(no, bl)

GetWeightVal(no, bl) ==
  IF Len(bl) < 3 THEN WeightVal(no, bl)
  ELSE Cheaper(WeightVal(no, bl), WeightVal(no, Reverse(bl)))

(* NewBlock.SetWeight: weight and grains of a whole suit. *)
SetWeight(no) ==
  LET all(of) == [w |-> Total([r \in Rank |-> IF r \in Starts(no) THEN of[r].w ELSE 0]),
                  o |-> UNION {of[a].o : a \in Starts(no)}]
  IN  all([a \in Starts(no) |-> GetWeightVal(no, BlockAt(no, a))])

(***************************************************************************)
(* The hand: three suits.  A tile is <<suit, rank>>, its code I * 9 + j.    *)
(***************************************************************************)
Suit == 0 .. 2
Tile == Suit \X Rank
None == -1
Hand == [Suit -> SuitHand]
NoTiles == [i \in Suit |-> NoTile]

Code(t) == t[1] * Ranks + t[2]
TileOf(k) == <<k \div Ranks, k % Ranks>>
Put(h, t, n) == [h EXCEPT ![t[1]][t[2]] = @ + n]

(* All hands of n tiles of the given kinds, four of each at most. *)
Deals(n, kinds) ==
  LET deal[k \in 0 .. n] ==
        IF k = 0 THEN {NoTiles}
        ELSE UNION {{Put(h, t, 1) : t \in {u \in kinds : h[u[1]][u[2]] < 4}} : h \in deal[k - 1]}
  IN  deal[n]

(***************************************************************************)
(* InitNow: the blocks are refreshed and inserted by length, one after the *)
(* other; equally long ones keep their order.                              *)
(***************************************************************************)
Orders == {o \in [1 .. 3 -> Suit] : \A i \in Suit : \E k \in 1 .. 3 : o[k] = i}
Place(ord, i) == CHOOSE k \in 1 .. 3 : ord[k] = i

SortNewBlock(h, ord) ==
  LET key(i) == 4 * SumLen(h[i]) + Place(ord, i)
  IN  CHOOSE o \in Orders : key(o[1]) < key(o[2]) /\ key(o[2]) < key(o[3])

\* Mutant of GetDiscard: the suit with fewer different tiles is taken.
GetDiscardFew(h, ord) ==
  LET a == ord[1]  b == ord[2]
  IN  IF SumLen(h[a]) # SumLen(h[b]) THEN a
      ELSE IF SumWei(h[a]) # SumWei(h[b])
           THEN IF SumWei(h[a]) < SumWei(h[b]) THEN a ELSE b
      ELSE IF Cardinality(Child(h[a])) >= Cardinality(Child(h[b])) THEN a ELSE b

GetDiscard(h, ord) ==
  LET a == ord[1]  b == ord[2]
  IN  IF SumLen(h[a]) # SumLen(h[b]) THEN a
      ELSE IF SumWei(h[a]) # SumWei(h[b])
           THEN IF SumWei(h[a]) > SumWei(h[b]) THEN a ELSE b
      ELSE IF Cardinality(Child(h[a])) >= Cardinality(Child(h[b])) THEN a ELSE b

(* The tiles EasyOuts may pick: the blocks are those of the last Update,   *)
(* the counts are the present ones, and the fewest copies come first.      *)
(* Which of the tiles with the fewest copies, depends on what was seen.    *)
Shown(at) == {t \in Tile : at[t[1]][t[2]] > 0}
EasyOuts(now, at) ==
  {t \in Shown(at) : \A u \in Shown(at) : now[t[1]][t[2]] <= now[u[1]][u[2]]}

(***************************************************************************)
(* The reference: what the weight stands for.                              *)
(***************************************************************************)
(* All tiles of a suit form triplets and sequences: for some number of     *)
(* sequences that start at each rank, every rank keeps none or a triplet.  *)
IsMelds(no) ==
  \E s \in [Rank -> 0 .. 2] :
    /\ \A r \in Rank : r + 2 \notin Rank => s[r] = 0
    /\ \A r \in Rank :
         no[r] - SumOf(s, r - 2 .. r) \in {0, 3}

(* Triplets, sequences and one pair. *)
IsComplete(no) ==
  \E r \in Rank : no[r] >= 2 /\ IsMelds([no EXCEPT ![r] = @ - 2])

NoFour(no) == \A r \in Rank : no[r] < 4

(* A pair between two triplets on either side, the one hand without four   *)
(* equal tiles that the readings miss: from either end they skip the       *)
(* triplets, come to the pair with three ranks to go and take it for the   *)
(* beginning of two sequences.                                             *)
PairInTheMiddle(no) ==
  \E r \in 2 .. Ranks - 3 :
    /\ no[r] = 2
    /\ \A q \in {r - 2, r - 1, r + 1, r + 2} : no[q] = 3
=============================================================================
