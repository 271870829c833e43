---------------------------- MODULE MahjongProofs ----------------------------
(***************************************************************************)
(* The mahjong player, for any number of ranks, tiles and hands: what it   *)
(* answers in the opening (MahjongExchange) and in the game (MahjongPlay). *)
(***************************************************************************)
EXTENDS MCMahjong, MahjongBlockProofs

-----------------------------------------------------------------------------
(* Hands.                                                                  *)

\* Numbers for all tiles, and the tiles of a hand.
Counts == [Suit -> [Rank -> Int]]
Size(h) == SumLen(h[0]) + SumLen(h[1]) + SumLen(h[2])

\* A hand is counts from none to four, a tile is a suit and a rank.
LEMMA HandDef ==
  /\ \A h : h \in Hand <=> h \in Counts /\ \A t \in Tile : Copies(h, t) \in 0 .. 4
  /\ \A t \in Tile : t = <<t[1], t[2]>> /\ t[1] \in Suit /\ t[2] \in Rank
  /\ \A i \in Suit, r \in Rank : <<i, r>> \in Tile
<1>1. \A t \in Tile : t = <<t[1], t[2]>> /\ t[1] \in Suit /\ t[2] \in Rank
  BY DEF Tile
<1>2. \A i \in Suit, r \in Rank : <<i, r>> \in Tile
  BY DEF Tile
<1>3. ASSUME NEW h PROVE h \in Hand <=> h \in Counts /\ \A t \in Tile : Copies(h, t) \in 0 .. 4
  <2>1. ASSUME h \in Hand PROVE h \in Counts /\ \A t \in Tile : Copies(h, t) \in 0 .. 4
    BY <1>1, <2>1 DEF Hand, SuitHand, Counts, Copies
  <2>2. ASSUME h \in Counts, \A t \in Tile : Copies(h, t) \in 0 .. 4 PROVE h \in Hand
    <3>1. ASSUME NEW i \in Suit, NEW r \in Rank PROVE h[i][r] \in 0 .. 4
      <4>1. Copies(h, <<i, r>>) \in 0 .. 4
        BY <2>2, <1>2
      <4>2. QED
        BY <4>1 DEF Copies
    <3>2. QED
      BY <2>2, <3>1 DEF Counts, Hand, SuitHand
  <2>3. QED
    BY <2>1, <2>2
<1>4. QED
  BY <1>1, <1>2, <1>3

\* The counts of a suit.
LEMMA SuitOfHand ==
  ASSUME NEW h \in Hand, NEW i \in Suit
  PROVE  h[i] \in SuitHand /\ h[i] \in [Rank -> Nat] /\ SumLen(h[i]) \in Nat
<1>1. h[i] \in SuitHand
  BY DEF Hand
<1>2. h[i] \in [Rank -> Nat]
  BY <1>1 DEF SuitHand
<1>3. QED
  BY <1>1, <1>2, TotalNat DEF SumLen

\* Some tiles more or less of one kind.
LEMMA PutCounts ==
  ASSUME NEW h \in Counts, NEW t \in Tile, NEW n \in Int
  PROVE  /\ Put(h, t, n) \in Counts
         /\ Copies(h, t) \in Int
         /\ Copies(Put(h, t, n), t) = Copies(h, t) + n
         /\ \A u \in Tile : u # t => Copies(Put(h, t, n), u) = Copies(h, u)
         /\ Size(h) \in Int
         /\ Size(Put(h, t, n)) = Size(h) + n
<1>1. t = <<t[1], t[2]>> /\ t[1] \in Suit /\ t[2] \in Rank
  BY HandDef
<1> DEFINE i == t[1]  r == t[2]
           f == [h[i] EXCEPT ![r] = @ + n]
           g == [h EXCEPT ![i] = f]
<1>2. h[i] \in [Rank -> Int] /\ f \in [Rank -> Int] /\ g \in Counts
  BY <1>1 DEF Counts
<1>3. Put(h, t, n) = g
  BY <1>1 DEF Put, Counts
<1>4. /\ g[i] = f /\ f[r] = h[i][r] + n
      /\ \A k \in Suit : k # i => g[k] = h[k]
      /\ \A q \in Rank : q # r => f[q] = h[i][q]
  BY <1>1, <1>2 DEF Counts
<1>5. \A k \in Suit : SumLen(h[k]) \in Int
  <2>1. \A k \in Suit : h[k] \in [Rank -> Int]
    BY DEF Counts
  <2>2. QED
    BY <2>1, UptoSteps DEF SumLen
<1>6. SumLen(f) = SumLen(h[i]) + n
  BY <1>1, <1>2, TotalChange DEF SumLen
<1>7. 0 \in Suit /\ 1 \in Suit /\ 2 \in Suit /\ (i = 0 \/ i = 1 \/ i = 2)
  BY <1>1 DEF Suit
<1>8. Copies(h, t) \in Int /\ Copies(g, t) = Copies(h, t) + n
  BY <1>1, <1>2, <1>4 DEF Copies
<1>9. ASSUME NEW u \in Tile, u # t PROVE Copies(g, u) = Copies(h, u)
  <2>1. u = <<u[1], u[2]>> /\ u[1] \in Suit /\ u[2] \in Rank
    BY HandDef
  <2>2. u[1] # i \/ u[2] # r
    BY <1>1, <2>1, <1>9
  <2>3. QED
    BY <1>4, <2>1, <2>2 DEF Copies
<1> HIDE DEF f, g, i, r
<1>10. Size(h) \in Int /\ Size(g) = Size(h) + n
  <2>1. /\ SumLen(h[0]) \in Int /\ SumLen(h[1]) \in Int /\ SumLen(h[2]) \in Int
        /\ \A k \in {0, 1, 2} : SumLen(g[k]) = SumLen(h[k]) + IF k = i THEN n ELSE 0
    BY <1>4, <1>5, <1>6, <1>7
  <2>2. QED
    BY <2>1, <1>7 DEF Size
<1>11. QED
  BY <1>2, <1>3, <1>8, <1>9, <1>10

LEMMA PutHand ==
  ASSUME NEW h \in Hand, NEW t \in Tile, NEW n \in Int, Copies(h, t) + n \in 0 .. 4
  PROVE  Put(h, t, n) \in Hand
<1>1. h \in Counts /\ \A u \in Tile : Copies(h, u) \in 0 .. 4
  BY HandDef
<1>2. Put(h, t, n) \in Counts
  BY <1>1, PutCounts
<1>3. ASSUME NEW u \in Tile PROVE Copies(Put(h, t, n), u) \in 0 .. 4
  <2>1. CASE u = t
    BY <1>1, <2>1, PutCounts
  <2>2. CASE u # t
    BY <1>1, <2>2, PutCounts
  <2>3. QED
    BY <2>1, <2>2
<1>4. QED
  BY <1>2, <1>3, HandDef

\* A hand of no tiles.
LEMMA EmptyHand ==
  /\ NoTiles \in Hand /\ Size(NoTiles) = 0 /\ \A t \in Tile : Copies(NoTiles, t) = 0
  /\ \A h \in Hand : Size(h) \in Nat /\ (HeldTiles(h) = {} => Size(h) = 0)
<1>1. NoTile \in SuitHand /\ NoTile \in [Rank -> Nat] /\ \A r \in Rank : NoTile[r] = 0
  BY DEF NoTile, SuitHand
<1>2. SumLen(NoTile) = 0
  BY <1>1, TotalNat DEF SumLen
<1>3. NoTiles \in Hand /\ \A t \in Tile : Copies(NoTiles, t) = 0
  BY <1>1, HandDef DEF NoTiles, Hand, Copies
<1>4. Size(NoTiles) = 0
  BY <1>2 DEF Size, NoTiles, Suit
<1>5. ASSUME NEW h \in Hand PROVE Size(h) \in Nat /\ (HeldTiles(h) = {} => Size(h) = 0)
  <2>1. SumLen(h[0]) \in Nat /\ SumLen(h[1]) \in Nat /\ SumLen(h[2]) \in Nat
    BY SuitOfHand DEF Suit
  <2>2. ASSUME HeldTiles(h) = {}, NEW i \in Suit PROVE SumLen(h[i]) = 0
    <3>1. h[i] \in [Rank -> Nat]
      BY SuitOfHand
    <3>2. ASSUME NEW r \in Rank PROVE h[i][r] = 0
      <4>1. <<i, r>> \in Tile
        BY HandDef
      <4>2. ~ (Copies(h, <<i, r>>) > 0)
        BY <2>2, <4>1 DEF HeldTiles
      <4>3. ~ (h[i][r] > 0) /\ h[i][r] \in Nat
        BY <3>1, <4>2 DEF Copies
      <4>4. QED
        BY <4>3
    <3>3. QED
      BY <3>1, <3>2, TotalNat DEF SumLen
  <2>3. QED
    BY <2>1, <2>2 DEF Size, Suit
<1>6. QED
  BY <1>3, <1>4, <1>5

\* The equation of Deals, and what it deals: hands of n tiles of the kinds.
LEMMA DealsDef ==
  ASSUME NEW n \in Nat, NEW K \in SUBSET Tile
  PROVE  \A h \in Deals(n, K) :
           h \in Hand /\ Size(h) = n /\ \A t \in Tile : Copies(h, t) > 0 => t \in K
<1> DEFINE More(d) == UNION {{Put(h, t, 1) : t \in {u \in K : h[u[1]][u[2]] < 4}} : h \in d}
           Eq(f, m) == f = [k \in 0 .. m |-> IF k = 0 THEN {NoTiles} ELSE More(f[k - 1])]
           S == {m \in Nat : \E f : Eq(f, m)}
<1> HIDE DEF More
<1>1. 0 \in S
  <2> DEFINE f == [k \in 0 .. 0 |-> {NoTiles}]
  <2>1. f = [k \in 0 .. 0 |-> IF k = 0 THEN {NoTiles} ELSE More(f[k - 1])]
    OBVIOUS
  <2>2. QED
    BY <2>1
<1>2. ASSUME NEW m \in Nat, m \in S PROVE m + 1 \in S
  <2>1. PICK f : Eq(f, m)
    BY <1>2
  <2> DEFINE g == [k \in 0 .. m + 1 |-> IF k \in 0 .. m THEN f[k] ELSE More(f[m])]
  <2>2. ASSUME NEW k \in 0 .. m + 1 PROVE g[k] = IF k = 0 THEN {NoTiles} ELSE More(g[k - 1])
    <3>1. CASE k = 0
      BY <2>1, <3>1
    <3>2. CASE k # 0 /\ k <= m
      <4>1. g[k] = f[k] /\ g[k - 1] = f[k - 1]
        BY <3>2
      <4>2. k \in 0 .. m
        BY <3>2
      <4>3. f[k] = IF k = 0 THEN {NoTiles} ELSE More(f[k - 1])
        BY <2>1, <4>2, Zenon
      <4>4. QED
        BY <4>1, <4>3, <3>2
    <3>3. CASE k = m + 1
      BY <3>3
    <3>4. QED
      BY <3>1, <3>2, <3>3
  <2>3. Eq(g, m + 1)
    BY <2>2
  <2> HIDE DEF Eq, g
  <2>4. QED
    BY <2>3
<1>3. n \in S
  BY <1>1, <1>2, Induct
<1>4. \E f : Eq(f, n)
  BY <1>3
<1> HIDE DEF Eq, S
<1> DEFINE deal == CHOOSE f : Eq(f, n)
<1>5. Eq(deal, n)
  BY <1>4, Zenon
<1>6. Deals(n, K) = deal[n]
  BY DEF Deals, Eq, More
<1> HIDE DEF deal
<1> DEFINE Dealt(h, k) == h \in Hand /\ Size(h) = k /\ \A t \in Tile : Copies(h, t) > 0 => t \in K
           D == {k \in Nat : \A h \in deal[k] : Dealt(h, k)}
<1>7. 0 \in D
  <2>1. deal[0] = {NoTiles}
    BY <1>5 DEF Eq
  <2>2. QED
    BY <2>1, EmptyHand
<1>8. ASSUME NEW k \in 0 .. n - 1, k \in D PROVE k + 1 \in D
  <2>0. k + 1 \in Nat
    OBVIOUS
  <2>1. deal[k + 1] = More(deal[k])
    <3>1. k + 1 \in 0 .. n /\ k + 1 # 0 /\ (k + 1) - 1 = k
      OBVIOUS
    <3>2. deal[k + 1] = IF k + 1 = 0 THEN {NoTiles} ELSE More(deal[(k + 1) - 1])
      BY <1>5, <3>1, Zenon DEF Eq
    <3>3. QED
      BY <3>1, <3>2
  <2>2. ASSUME NEW x \in deal[k + 1] PROVE Dealt(x, k + 1)
    <3>1. PICK h \in deal[k], t \in K : h[t[1]][t[2]] < 4 /\ x = Put(h, t, 1)
      BY <2>1, <2>2 DEF More
    <3>2. h \in Hand /\ Size(h) = k /\ (\A u \in Tile : Copies(h, u) > 0 => u \in K) /\ t \in Tile
      BY <1>8
    <3>3. h \in Counts /\ Copies(h, t) \in 0 .. 4 /\ Copies(h, t) < 4
      BY <3>1, <3>2, HandDef DEF Copies
    <3>4. x \in Hand
      BY <3>1, <3>2, <3>3, PutHand
    <3>5. /\ Size(x) = k + 1
          /\ \A u \in Tile : u # t => Copies(x, u) = Copies(h, u)
      BY <3>1, <3>2, <3>3, PutCounts
    <3>6. QED
      BY <3>2, <3>4, <3>5
  <2>3. QED
    BY <2>0, <2>2
<1> HIDE DEF D
<1>9. n \in D
  BY <1>7, <1>8, InductUpto
<1>10. QED
  BY <1>6, <1>9 DEF D

\* The code of a tile stands for the tile.
LEMMA CodeOfTile ==
  /\ \A t \in Tile : Code(t) \in 0 .. 3 * Ranks - 1 /\ TileOf(Code(t)) = t
  /\ \A k \in 0 .. 3 * Ranks - 1 : TileOf(k) \in Tile /\ Code(TileOf(k)) = k
<1>1. Ranks \in Nat /\ Ranks > 0
  BY RanksAssumption
<1>2. ASSUME NEW k \in 0 .. 3 * Ranks - 1, NEW i \in Suit, NEW r \in Rank, k = i * Ranks + r
      PROVE  k \div Ranks = i /\ k % Ranks = r
  <2>1. r \in Int /\ 0 <= r /\ r < Ranks /\ (i = 0 \/ i = 1 \/ i = 2)
    BY <1>1 DEF Rank, Suit
  <2>2. CASE i = 0
    BY <1>1, <1>2, <2>1, <2>2
  <2>3. CASE i = 1
    BY <1>1, <1>2, <2>1, <2>3
  <2>4. CASE i = 2
    BY <1>1, <1>2, <2>1, <2>4
  <2>5. QED
    BY <2>1, <2>2, <2>3, <2>4
<1>3. ASSUME NEW i \in Suit, NEW r \in Rank PROVE i * Ranks + r \in 0 .. 3 * Ranks - 1
  <2>1. r \in Int /\ 0 <= r /\ r < Ranks /\ (i = 0 \/ i = 1 \/ i = 2)
    BY <1>1 DEF Rank, Suit
  <2>2. QED
    BY <1>1, <2>1
<1>4. ASSUME NEW k \in 0 .. 3 * Ranks - 1 PROVE \E i \in Suit, r \in Rank : k = i * Ranks + r
  <2>1. CASE k < Ranks
    <3>1. 0 \in Suit /\ k \in Rank /\ k = 0 * Ranks + k
      BY <1>1, <2>1 DEF Rank, Suit
    <3>2. QED
      BY <3>1
  <2>2. CASE k >= Ranks /\ k < 2 * Ranks
    <3>1. 1 \in Suit /\ k - Ranks \in Rank /\ k = 1 * Ranks + (k - Ranks)
      BY <1>1, <2>2 DEF Rank, Suit
    <3>2. QED
      BY <3>1
  <2>3. CASE k >= 2 * Ranks
    <3>1. 2 \in Suit /\ k - 2 * Ranks \in Rank /\ k = 2 * Ranks + (k - 2 * Ranks)
      BY <1>1, <2>3 DEF Rank, Suit
    <3>2. QED
      BY <3>1
  <2>4. QED
    BY <1>1, <2>1, <2>2, <2>3
<1>5. ASSUME NEW t \in Tile PROVE Code(t) \in 0 .. 3 * Ranks - 1 /\ TileOf(Code(t)) = t
  <2>1. t = <<t[1], t[2]>> /\ t[1] \in Suit /\ t[2] \in Rank
    BY HandDef
  <2>2. Code(t) = t[1] * Ranks + t[2] /\ Code(t) \in 0 .. 3 * Ranks - 1
    BY <2>1, <1>3 DEF Code
  <2>3. Code(t) \div Ranks = t[1] /\ Code(t) % Ranks = t[2]
    BY <2>1, <2>2, <1>2
  <2>4. QED
    BY <2>1, <2>2, <2>3, Zenon DEF TileOf
<1>6. ASSUME NEW k \in 0 .. 3 * Ranks - 1 PROVE TileOf(k) \in Tile /\ Code(TileOf(k)) = k
  <2>1. PICK i \in Suit, r \in Rank : k = i * Ranks + r
    BY <1>4
  <2>2. k \div Ranks = i /\ k % Ranks = r
    BY <2>1, <1>2
  <2>3. TileOf(k) = <<i, r>>
    BY <2>2, Zenon DEF TileOf
  <2>4. QED
    BY <2>1, <2>3, HandDef DEF Code
<1>7. QED
  BY <1>5, <1>6

-----------------------------------------------------------------------------
(* The opening.  MahjongExchange is instantiated in MCMahjong: its copies  *)
(* of the operators of MahjongBlock are those operators.                   *)

LEMMA OpeningSets ==
  /\ E!Rank = Rank /\ E!Suit = Suit /\ E!Tile = Tile
  /\ E!Hand = Hand /\ E!NoTiles = NoTiles /\ E!Orders = Orders
BY DEF E!Rank, E!Suit, E!Tile, E!Hand, E!NoTiles, E!SuitHand, E!NoTile, E!Orders,
       Rank, Suit, Tile, Hand, NoTiles, SuitHand, NoTile, Orders

LEMMA OpeningSums ==
  ASSUME NEW f
  PROVE  E!Upto(f) = Upto(f) /\ E!SumLen(f) = SumLen(f)
<1>1. \A g : E!Upto(g) = Upto(g)
  BY DEF E!Upto, Upto
<1>2. QED
  BY <1>1, Zenon DEF E!SumLen, SumLen, E!Total, Total

LEMMA OpeningCardinality ==
  ASSUME NEW S
  PROVE  E!Cardinality(S) = Cardinality(S)
BY DEF E!Cardinality, Cardinality

LEMMA OpeningSuits ==
  ASSUME NEW f
  PROVE  /\ E!SumWei(f) = SumWei(f)
         /\ E!Child(f) = Child(f)
<1>1. E!SumWei(f) = SumWei(f)
  <2>1. E!SumWei(f) = E!Cardinality({r \in Rank : f[r] > 0})
    BY OpeningSets, Zenon DEF E!SumWei
  <2>2. QED
    BY <2>1, OpeningCardinality, Zenon DEF SumWei
<1>2. E!Child(f) = Child(f)
  BY DEF E!Child, Child, E!BlockAt, BlockAt, E!Starts, Starts, E!Run, Run, E!Ends, Ends,
         E!Rank, Rank, E!Min, Min
<1>3. QED
  BY <1>1, <1>2

LEMMA OpeningHands ==
  ASSUME NEW h, NEW x
  PROVE  /\ E!SortNewBlock(h, x) = SortNewBlock(h, x)
         /\ E!GetDiscard(h, x) = GetDiscard(h, x)
         /\ E!EasyOuts(h, x) = EasyOuts(h, x)
         /\ E!Shown(h) = Shown(h)
         /\ E!Deals(h, E!Tile) = Deals(h, Tile)
         /\ \A n : E!Put(h, x, n) = Put(h, x, n)
<1>1. E!SortNewBlock(h, x) = SortNewBlock(h, x)
  BY OpeningSums DEF E!SortNewBlock, SortNewBlock, E!Orders, Orders, E!Place, Place, E!Suit, Suit
<1>2. E!GetDiscard(h, x) = GetDiscard(h, x)
  <2>1. \A i : E!SumLen(h[i]) = SumLen(h[i]) /\ E!SumWei(h[i]) = SumWei(h[i])
               /\ E!Child(h[i]) = Child(h[i])
    BY OpeningSums, OpeningSuits, Zenon
  <2>2. \A i : E!Cardinality(Child(h[i])) = Cardinality(Child(h[i]))
    BY OpeningCardinality, Zenon
  <2>3. QED
    BY <2>1, <2>2 DEF E!GetDiscard, GetDiscard
<1>3. E!EasyOuts(h, x) = EasyOuts(h, x) /\ E!Shown(h) = Shown(h)
  BY OpeningSets DEF E!EasyOuts, EasyOuts, E!Shown, Shown
<1>4. E!Deals(h, E!Tile) = Deals(h, Tile)
  BY OpeningSets DEF E!Deals, Deals, E!Put, Put
<1>5. \A n : E!Put(h, x, n) = Put(h, x, n)
  BY DEF E!Put, Put
<1>6. QED
  BY <1>1, <1>2, <1>3, <1>4, <1>5

\* Three suits can be put in order by keys that differ.
LEMMA OrdersDef ==
  ASSUME NEW o
  PROVE  o \in Orders <=>
           /\ o \in [1 .. 3 -> Suit]
           /\ o[1] # o[2] /\ o[1] # o[3] /\ o[2] # o[3]
<1>1. ASSUME o \in [1 .. 3 -> Suit], o[1] # o[2], o[1] # o[3], o[2] # o[3]
      PROVE  o \in Orders
  <2>1. o[1] \in 0 .. 2 /\ o[2] \in 0 .. 2 /\ o[3] \in 0 .. 2
    BY <1>1 DEF Suit
  <2>2. ASSUME NEW i \in Suit PROVE \E k \in 1 .. 3 : o[k] = i
    <3>1. o[1] = i \/ o[2] = i \/ o[3] = i
      BY <1>1, <2>1 DEF Suit
    <3>2. 1 \in 1 .. 3 /\ 2 \in 1 .. 3 /\ 3 \in 1 .. 3
      OBVIOUS
    <3>3. QED
      BY <3>1, <3>2, Zenon
  <2>3. QED
    BY <1>1, <2>2, Zenon DEF Orders
<1>2. ASSUME o \in Orders
      PROVE  o \in [1 .. 3 -> Suit] /\ o[1] # o[2] /\ o[1] # o[3] /\ o[2] # o[3]
  <2>1. o \in [1 .. 3 -> Suit] /\ \A i \in Suit : \E k \in 1 .. 3 : o[k] = i
    BY <1>2 DEF Orders
  <2>2. o[1] \in 0 .. 2 /\ o[2] \in 0 .. 2 /\ o[3] \in 0 .. 2
    BY <2>1 DEF Suit
  <2>3. \A i \in 0 .. 2 : o[1] = i \/ o[2] = i \/ o[3] = i
    BY <2>1 DEF Suit
  <2>4. /\ o[1] = 0 \/ o[2] = 0 \/ o[3] = 0
        /\ o[1] = 1 \/ o[2] = 1 \/ o[3] = 1
        /\ o[1] = 2 \/ o[2] = 2 \/ o[3] = 2
    BY <2>3
  <2>5. QED
    BY <2>1, <2>2, <2>4
<1>3. QED
  BY <1>1, <1>2

LEMMA ThreeInOrder ==
  ASSUME NEW key \in [Suit -> Int], \A i, k \in Suit : i # k => key[i] # key[k]
  PROVE  \E o \in Orders : key[o[1]] < key[o[2]] /\ key[o[2]] < key[o[3]]
<1>1. 0 \in Suit /\ 1 \in Suit /\ 2 \in Suit
  BY DEF Suit
<1>2. \E i, j, k \in Suit : i # j /\ i # k /\ j # k /\ key[i] < key[j] /\ key[j] < key[k]
  <2>1. /\ key[0] \in Int /\ key[1] \in Int /\ key[2] \in Int
        /\ key[0] # key[1] /\ key[0] # key[2] /\ key[1] # key[2]
    BY <1>1
  <2>2. \/ key[0] < key[1] /\ key[1] < key[2]
        \/ key[0] < key[2] /\ key[2] < key[1]
        \/ key[1] < key[0] /\ key[0] < key[2]
        \/ key[1] < key[2] /\ key[2] < key[0]
        \/ key[2] < key[0] /\ key[0] < key[1]
        \/ key[2] < key[1] /\ key[1] < key[0]
    BY <2>1
  <2>3. QED
    BY <1>1, <2>2
<1>3. PICK i, j, k \in Suit : i # j /\ i # k /\ j # k /\ key[i] < key[j] /\ key[j] < key[k]
  BY <1>2
<1> DEFINE o == [n \in 1 .. 3 |-> IF n = 1 THEN i ELSE IF n = 2 THEN j ELSE k]
<1>4. o \in [1 .. 3 -> Suit] /\ o[1] = i /\ o[2] = j /\ o[3] = k
  OBVIOUS
<1> HIDE DEF o
<1>5. o \in Orders
  BY <1>3, <1>4, OrdersDef
<1>6. QED
  BY <1>3, <1>4, <1>5

\* InitNow: the blocks are those of the three suits, the shortest first.
LEMMA SortedBlocks ==
  ASSUME NEW h \in Hand, NEW ord \in Orders
  PROVE  LET o == SortNewBlock(h, ord)
         IN  /\ o \in Orders
             /\ SumLen(h[o[1]]) <= SumLen(h[o[2]])
             /\ SumLen(h[o[2]]) <= SumLen(h[o[3]])
<1> DEFINE Key(i) == 4 * SumLen(h[i]) + Place(ord, i)
           key == [i \in Suit |-> Key(i)]
           o == SortNewBlock(h, ord)
<1>1. ASSUME NEW i \in Suit PROVE Place(ord, i) \in 1 .. 3 /\ ord[Place(ord, i)] = i
  <2>1. \E k \in 1 .. 3 : ord[k] = i
    BY DEF Orders
  <2>2. QED
    BY <2>1 DEF Place
<1>2. \A i \in Suit : SumLen(h[i]) \in Nat
  BY SuitOfHand
<1>3. ASSUME NEW i \in Suit, NEW k \in Suit, i # k PROVE Key(i) # Key(k)
  <2>1. Place(ord, i) # Place(ord, k)
    BY <1>1, <1>3
  <2>2. QED
    BY <1>1, <1>2, <2>1
<1>4. key \in [Suit -> Int] /\ \A i, k \in Suit : i # k => key[i] # key[k]
  BY <1>1, <1>2, <1>3
<1>5. \E x \in Orders : key[x[1]] < key[x[2]] /\ key[x[2]] < key[x[3]]
  BY <1>4, ThreeInOrder
<1>6. \A x \in Orders : x[1] \in Suit /\ x[2] \in Suit /\ x[3] \in Suit
  BY DEF Orders
<1>7. \E x \in Orders : Key(x[1]) < Key(x[2]) /\ Key(x[2]) < Key(x[3])
  BY <1>5, <1>6
<1>8. o = CHOOSE x \in Orders : Key(x[1]) < Key(x[2]) /\ Key(x[2]) < Key(x[3])
  BY DEF SortNewBlock
<1> HIDE DEF o, Key
<1>9. o \in Orders /\ Key(o[1]) < Key(o[2]) /\ Key(o[2]) < Key(o[3])
  BY <1>7, <1>8, Zenon
<1>10. ASSUME NEW i \in Suit, NEW k \in Suit, Key(i) < Key(k) PROVE SumLen(h[i]) <= SumLen(h[k])
  BY <1>1, <1>2, <1>10 DEF Key
<1>11. QED
  BY <1>6, <1>9, <1>10 DEF o

\* The suit GetDiscard takes is the best one to lose.
Best(h, i) ==
  \A k \in Suit \ {i} :
    \/ SumLen(h[i]) < SumLen(h[k])
    \/ /\ SumLen(h[i]) = SumLen(h[k])
       /\ \/ SumWei(h[i]) > SumWei(h[k])
          \/ /\ SumWei(h[i]) = SumWei(h[k])
             /\ Cardinality(Child(h[i])) >= Cardinality(Child(h[k]))

LEMMA BestSuit ==
  ASSUME NEW h \in Hand, NEW ord \in Orders
  PROVE  LET i == GetDiscard(h, SortNewBlock(h, ord))
         IN  i \in Suit /\ (Size(h) % 3 # 0 => Best(h, i))
<1> DEFINE o == SortNewBlock(h, ord)  i == GetDiscard(h, o)  a == o[1]  b == o[2]  c == o[3]
<1>1. o \in Orders /\ SumLen(h[a]) <= SumLen(h[b]) /\ SumLen(h[b]) <= SumLen(h[c])
  BY SortedBlocks
<1> HIDE DEF o
<1>2. a \in Suit /\ b \in Suit /\ c \in Suit /\ a # b /\ a # c /\ b # c
  BY <1>1, OrdersDef
<1>3. Suit = {a, b, c}
  <2>1. a \in {0, 1, 2} /\ b \in {0, 1, 2} /\ c \in {0, 1, 2} /\ Suit = {0, 1, 2}
    BY <1>2 DEF Suit
  <2>2. QED
    BY <1>2, <2>1
<1> DEFINE L(x) == SumLen(h[x])  D(x) == SumWei(h[x])  B(x) == Cardinality(Child(h[x]))
<1>4. L(a) \in Nat /\ L(b) \in Nat /\ L(c) \in Nat
  BY <1>2, SuitOfHand
<1>5. \A x \in Suit : D(x) \in Nat /\ B(x) \in Nat
  <2> TAKE x \in Suit
  <2>1. IsFiniteSet(Rank)
    BY FS_Interval, RanksAssumption DEF Rank
  <2>2. D(x) \in Nat
    <3>1. {r \in Rank : h[x][r] > 0} \in SUBSET Rank
      OBVIOUS
    <3>2. QED
      BY <2>1, <3>1, FS_Subset, FS_CardinalityType DEF SumWei
  <2>3. IsFiniteSet(Starts(h[x]))
    <3>1. Starts(h[x]) \in SUBSET Rank
      BY DEF Starts
    <3>2. QED
      BY <2>1, <3>1, FS_Subset
  <2>4. IsFiniteSet({BlockAt(h[x], s) : s \in Starts(h[x])})
    <3> DEFINE f == [s \in Starts(h[x]) |-> BlockAt(h[x], s)]
               T == {BlockAt(h[x], s) : s \in Starts(h[x])}
    <3>1. f \in Surjection(Starts(h[x]), T)
      BY DEF Surjection
    <3>2. QED
      BY <2>3, <3>1, FS_Surjection
  <2>5. B(x) \in Nat
    BY <2>4, FS_CardinalityType DEF Child
  <2>6. QED
    BY <2>2, <2>5
<1>6. Size(h) = L(a) + L(b) + L(c)
  <2>1. \A x, y, z \in Nat : x + y + z = x + z + y /\ x + y + z = y + x + z /\ x + y + z = y + z + x
                             /\ x + y + z = z + x + y /\ x + y + z = z + y + x
    OBVIOUS
  <2>2. L(0) \in Nat /\ L(1) \in Nat /\ L(2) \in Nat
    BY SuitOfHand DEF Suit
  <2>3. a \in {0, 1, 2} /\ b \in {0, 1, 2} /\ c \in {0, 1, 2}
    BY <1>2 DEF Suit
  <2>4. QED
    BY <1>2, <2>2, <2>3 DEF Size
<1>7. i = IF L(a) # L(b) THEN a
          ELSE IF D(a) # D(b) THEN IF D(a) > D(b) THEN a ELSE b
          ELSE IF B(a) >= B(b) THEN a ELSE b
  BY Zenon DEF GetDiscard
<1>8. i = a \/ i = b
  BY <1>7
<1> HIDE DEF i
<1>9. ASSUME Size(h) % 3 # 0, NEW k \in Suit, k # i
      PROVE  \/ L(i) < L(k)
             \/ L(i) = L(k) /\ (D(i) > D(k) \/ (D(i) = D(k) /\ B(i) >= B(k)))
  <2> HIDE DEF L, D, B
  <2>0. /\ L(a) <= L(b) /\ L(b) <= L(c)
        /\ D(a) \in Nat /\ D(b) \in Nat /\ B(a) \in Nat /\ B(b) \in Nat
    BY <1>1, <1>2, <1>5 DEF L
  <2>1. CASE L(a) # L(b)
    <3>1. i = a /\ L(a) < L(b) /\ L(a) < L(c)
      BY <1>7, <2>1, <2>0, <1>4
    <3>2. QED
      BY <3>1, <1>3, <1>9
  <2>2. CASE L(a) = L(b)
    <3>1. \A x \in Nat : (x + x + x) % 3 = 0
      OBVIOUS
    <3>2. L(c) # L(b)
      BY <1>4, <1>6, <1>9, <2>2, <3>1
    <3>3. L(i) < L(c) /\ L(i) = L(a) /\ L(i) = L(b)
      BY <1>8, <2>0, <2>2, <3>2, <1>4
    <3>4. CASE k = c
      BY <3>3, <3>4
    <3>5. CASE k # c
      BY <1>3, <1>7, <1>9, <2>0, <2>2, <3>3, <3>5
    <3>6. QED
      BY <3>4, <3>5
  <2>3. QED
    BY <2>1, <2>2
<1>10. QED
  BY <1>2, <1>8, <1>9 DEF Best, i, o

\* How often a tile is among the first n of some tiles.
Often(o, n, t) == Cardinality({k \in 1 .. n : o[k] = t})

LEMMA OftenSteps ==
  ASSUME NEW o, NEW t, NEW n \in Nat
  PROVE  /\ Often(o, n, t) \in Nat /\ Often(o, n, t) <= n
         /\ Often(o, 0, t) = 0
         /\ Often(o, n + 1, t) = Often(o, n, t) + IF o[n + 1] = t THEN 1 ELSE 0
<1> DEFINE S(m) == {k \in 1 .. m : o[k] = t}
<1>1. \A m \in Nat : IsFiniteSet(1 .. m) /\ Cardinality(1 .. m) = m
  <2> TAKE m \in Nat
  <2>1. IsFiniteSet(1 .. m) /\ Cardinality(1 .. m) = IF 1 > m THEN 0 ELSE m - 1 + 1
    BY FS_Interval
  <2>2. QED
    BY <2>1
<1>2. \A m \in Nat : IsFiniteSet(S(m)) /\ Cardinality(S(m)) \in Nat /\ Cardinality(S(m)) <= m
  <2> TAKE m \in Nat
  <2>1. S(m) \in SUBSET (1 .. m)
    OBVIOUS
  <2>2. QED
    BY <1>1, <2>1, FS_Subset, FS_CardinalityType
<1>3. S(0) = {}
  OBVIOUS
<1>4. CASE o[n + 1] = t
  <2>1. S(n + 1) = S(n) \cup {n + 1} /\ n + 1 \notin S(n)
    BY <1>4
  <2>2. QED
    BY <1>2, <1>3, <1>4, <2>1, FS_AddElement, FS_EmptySet DEF Often
<1>5. CASE o[n + 1] # t
  <2>1. S(n + 1) = S(n)
    BY <1>5
  <2>2. QED
    BY <1>2, <1>3, <1>5, <2>1, FS_EmptySet DEF Often
<1>6. QED
  BY <1>4, <1>5

LEMMA TimesOften ==
  ASSUME NEW o \in Seq(Tile), NEW t
  PROVE  E!Times(o, t) = Often(o, Len(o), t)
<1>1. DOMAIN o = 1 .. Len(o)
  OBVIOUS
<1>2. E!Times(o, t) = E!Cardinality({k \in DOMAIN o : o[k] = t})
  BY Zenon DEF E!Times
<1>3. QED
  BY <1>1, <1>2, OpeningCardinality, Zenon DEF Often

\* The counts without some tiles.
LEMMA WithoutCounts ==
  ASSUME NEW h \in Counts, NEW o \in Seq(Tile)
  PROVE  /\ E!Without(h, o) \in Counts
         /\ \A t \in Tile : Copies(E!Without(h, o), t) = Copies(h, t) - E!Times(o, t)
         /\ Size(E!Without(h, o)) = Size(h) - Len(o)
<1> DEFINE W(n) == [i \in Suit |-> [r \in Rank |-> h[i][r] - Often(o, n, <<i, r>>)]]
<1>1. ASSUME NEW n \in Nat
      PROVE  /\ W(n) \in Counts
             /\ \A t \in Tile : Copies(W(n), t) = Copies(h, t) - Often(o, n, t)
  <2>1. \A i \in Suit, r \in Rank : Often(o, n, <<i, r>>) \in Nat /\ h[i][r] \in Int
    BY OftenSteps DEF Counts
  <2>2. QED
    BY <2>1, HandDef DEF Counts, Copies
<1>2. E!Without(h, o) = W(Len(o))
  <2>1. \A i, r : E!Times(o, <<i, r>>) = Often(o, Len(o), <<i, r>>)
    BY TimesOften
  <2>2. QED
    BY <2>1, OpeningSets DEF E!Without
<1>3. W(0) = h
  <2>1. \A i \in Suit, r \in Rank : Often(o, 0, <<i, r>>) = 0 /\ h[i][r] \in Int
    BY OftenSteps DEF Counts
  <2>2. QED
    BY <2>1 DEF Counts
<1>4. ASSUME NEW n \in Nat, n + 1 <= Len(o) PROVE W(n + 1) = Put(W(n), o[n + 1], -1)
  <2> DEFINE t == o[n + 1]
  <2>1. t \in Tile /\ t = <<t[1], t[2]>> /\ t[1] \in Suit /\ t[2] \in Rank
    <3>1. t \in Tile
      BY <1>4
    <3>2. QED
      BY <3>1, HandDef
  <2> HIDE DEF t
  <2>2. ASSUME NEW i \in Suit, NEW r \in Rank
        PROVE  W(n + 1)[i][r] = W(n)[i][r] + IF i = t[1] /\ r = t[2] THEN -1 ELSE 0
    <3>1. Often(o, n + 1, <<i, r>>) = Often(o, n, <<i, r>>) + IF t = <<i, r>> THEN 1 ELSE 0
      BY OftenSteps DEF t
    <3>2. Often(o, n, <<i, r>>) \in Nat /\ h[i][r] \in Int
      BY OftenSteps DEF Counts
    <3>3. (t = <<i, r>>) <=> i = t[1] /\ r = t[2]
      BY <2>1
    <3>4. /\ W(n)[i][r] = h[i][r] - Often(o, n, <<i, r>>)
          /\ W(n + 1)[i][r] = h[i][r] - Often(o, n + 1, <<i, r>>)
      BY Zenon
    <3> HIDE DEF W
    <3> DEFINE x == h[i][r]  y == Often(o, n, <<i, r>>)  z == IF t = <<i, r>> THEN 1 ELSE 0
    <3>5. W(n)[i][r] = x - y /\ W(n + 1)[i][r] = x - (y + z)
      BY <3>1, <3>4, Zenon
    <3>6. x \in Int /\ y \in Int /\ z \in Int
      BY <3>2
    <3> HIDE DEF x, y, z
    <3>7. W(n + 1)[i][r] = W(n)[i][r] + (-z)
      BY <3>5, <3>6
    <3> USE DEF z
    <3>8. CASE t = <<i, r>>
      BY <3>3, <3>7, <3>8
    <3>9. CASE t # <<i, r>>
      BY <3>3, <3>7, <3>9
    <3>10. QED
      BY <3>8, <3>9
  <2>3. W(n) \in Counts /\ W(n + 1) \in Counts
    BY <1>1
  <2> HIDE DEF W
  <2>4. ASSUME NEW i \in Suit, NEW r \in Rank
        PROVE  Put(W(n), t, -1)[i][r] = W(n)[i][r] + IF i = t[1] /\ r = t[2] THEN -1 ELSE 0
    BY <2>1, <2>3 DEF Put, Counts
  <2>5. Put(W(n), t, -1) \in Counts
    BY <2>1, <2>3, PutCounts
  <2>6. ASSUME NEW i \in Suit PROVE W(n + 1)[i] = Put(W(n), t, -1)[i]
    <3>1. W(n + 1)[i] \in [Rank -> Int] /\ Put(W(n), t, -1)[i] \in [Rank -> Int]
      BY <2>3, <2>5 DEF Counts
    <3>2. QED
      BY <2>2, <2>4, <3>1
  <2>7. QED
    BY <2>3, <2>5, <2>6 DEF Counts, t
<1> DEFINE S == {n \in Nat : Size(W(n)) = Size(h) - n}
<1> HIDE DEF W
<1>5. Size(h) \in Int
  <2>1. <<0, 0>> \in Tile
    BY RanksAssumption DEF Tile, Suit, Rank
  <2>2. QED
    BY <2>1, PutCounts
<1>6. 0 \in S
  BY <1>3, <1>5
<1>7. ASSUME NEW n \in 0 .. Len(o) - 1, n \in S PROVE n + 1 \in S
  <2>1. n \in Nat /\ n + 1 \in Nat /\ n + 1 <= Len(o) /\ o[n + 1] \in Tile
    OBVIOUS
  <2>2. Size(W(n + 1)) = Size(W(n)) + (-1)
    <3>1. W(n) \in Counts /\ -1 \in Int
      BY <1>1, <2>1
    <3>2. Size(Put(W(n), o[n + 1], -1)) = Size(W(n)) + (-1)
      BY <2>1, <3>1, PutCounts, Zenon
    <3>3. QED
      BY <1>4, <2>1, <3>2, Zenon
  <2>3. Size(W(n)) = Size(h) - n
    BY <1>7
  <2>4. QED
    BY <1>5, <2>1, <2>2, <2>3
<1> HIDE DEF S
<1>8. Len(o) \in S
  <2>1. Len(o) \in Nat
    OBVIOUS
  <2>2. QED
    <3>1. 0 .. Len(o) \subseteq S
      BY <1>6, <1>7, <2>1, InductUpto, Zenon
    <3>2. QED
      BY <2>1, <3>1
<1>9. \A t \in Tile : Copies(W(Len(o)), t) = Copies(h, t) - E!Times(o, t)
  BY <1>1, TimesOften
<1>10. QED
  BY <1>1, <1>2, <1>8, <1>9 DEF S

\* The first tiles of a suit: they are held as often as they are taken, and
\* all tiles of the suit are taken with as many as it has.
LEMMA TilesOfSuit ==
  ASSUME NEW h \in Hand, NEW i \in Suit, NEW n \in 0 .. SumLen(h[i])
  PROVE  LET own == E!Tiles(h, i, n)
         IN  /\ own \in Seq(Tile) /\ Len(own) = n
             /\ \A k \in 1 .. n : own[k][1] = i
             /\ \A r \in Rank : /\ E!Times(own, <<i, r>>) <= h[i][r]
                                /\ n = SumLen(h[i]) => E!Times(own, <<i, r>>) = h[i][r]
<1> DEFINE U == Upto(h[i])
           In(k, r) == U[r] < k /\ k <= U[r + 1]
           own == E!Tiles(h, i, n)
<1>1. h[i] \in [Rank -> Nat] /\ h[i] \in [Rank -> Int] /\ SumLen(h[i]) \in Nat
  BY SuitOfHand
<1>2. /\ U[0] = 0 /\ U[Ranks] = SumLen(h[i])
      /\ \A r \in Rank : U[r + 1] = U[r] + h[i][r]
      /\ \A r \in 0 .. Ranks : U[r] \in Nat
      /\ \A q, r \in 0 .. Ranks : q <= r => U[q] <= U[r]
  BY <1>1, UptoSteps, UptoGrows DEF SumLen
<1> HIDE DEF U
<1>3. ASSUME NEW k \in 1 .. n PROVE \E r \in Rank : In(k, r)
  <2> DEFINE S == {r \in 0 .. Ranks : k <= U[r]}
  <2>1. S \in SUBSET Nat /\ Ranks \in S
    BY <1>1, <1>2, RanksAssumption
  <2>2. PICK e \in S : \A r \in S : e <= r
    BY <2>1, LeastMember
  <2>3. e # 0 /\ e - 1 \in Rank /\ e - 1 \in 0 .. Ranks /\ e - 1 \notin S /\ (e - 1) + 1 = e
    BY <1>2, <2>2, RanksAssumption DEF Rank
  <2>4. U[e - 1] < k /\ k <= U[e]
    BY <1>2, <2>2, <2>3
  <2>5. QED
    BY <2>3, <2>4
<1>4. ASSUME NEW k \in 1 .. n, NEW q \in Rank, NEW r \in Rank, In(k, q), In(k, r) PROVE q = r
  <2>1. /\ q \in 0 .. Ranks /\ r \in 0 .. Ranks /\ q + 1 \in 0 .. Ranks /\ r + 1 \in 0 .. Ranks
    BY RanksAssumption DEF Rank
  <2>2. U[q] \in Nat /\ U[r] \in Nat /\ U[q + 1] \in Nat /\ U[r + 1] \in Nat
    BY <1>2, <2>1
  <2>3. (q + 1 <= r => U[q + 1] <= U[r]) /\ (r + 1 <= q => U[r + 1] <= U[q])
    BY <1>2, <2>1
  <2>4. QED
    BY <1>4, <2>1, <2>2, <2>3
<1> DEFINE rank(k) == CHOOSE r \in Rank : In(k, r)
<1>5. own = [k \in 1 .. n |-> <<i, rank(k)>>]
  BY OpeningSets, OpeningSums DEF E!Tiles, U
<1> HIDE DEF own, In
<1>6. ASSUME NEW k \in 1 .. n PROVE rank(k) \in Rank /\ In(k, rank(k))
  BY <1>3, Zenon
<1> HIDE DEF rank
<1>7. \A k \in 1 .. n : own[k] = <<i, rank(k)>> /\ own[k] \in Tile
  BY <1>5, <1>6, HandDef
<1>8. own \in Seq(Tile) /\ Len(own) = n
  <2>1. own \in [1 .. n -> Tile] /\ n \in Nat
    BY <1>1, <1>5, <1>7
  <2>2. QED
    BY <2>1
<1>9. ASSUME NEW r \in Rank
      PROVE  /\ E!Times(own, <<i, r>>) <= h[i][r]
             /\ n = SumLen(h[i]) => E!Times(own, <<i, r>>) = h[i][r]
  <2> DEFINE S == {k \in 1 .. n : own[k] = <<i, r>>}  T == U[r] + 1 .. U[r + 1]
  <2>0. E!Times(own, <<i, r>>) = Cardinality(S)
    BY <1>8, TimesOften DEF Often
  <2>1. U[r] \in Nat /\ U[r + 1] \in Nat /\ U[r + 1] = U[r] + h[i][r] /\ h[i][r] \in Nat
        /\ U[r + 1] <= U[Ranks]
    BY <1>1, <1>2, RanksAssumption DEF Rank
  <2>2. IsFiniteSet(T) /\ Cardinality(T) = h[i][r]
    <3>1. U[r] + 1 \in Int /\ U[r + 1] \in Int
      BY <2>1
    <3>2. IsFiniteSet(T) /\ Cardinality(T) = IF U[r] + 1 > U[r + 1] THEN 0 ELSE U[r + 1] - (U[r] + 1) + 1
      BY <3>1, FS_Interval
    <3>3. QED
      BY <2>1, <3>2
  <2>3. ASSUME NEW k \in S PROVE k \in T
    <3>1. rank(k) = r /\ In(k, r) /\ k \in 1 .. n
      BY <1>6, <1>7
    <3>2. QED
      BY <2>1, <3>1 DEF In
  <2>4. ASSUME n = SumLen(h[i]), NEW k \in T PROVE k \in S
    <3>1. k \in 1 .. n /\ In(k, r)
      BY <1>2, <2>1, <2>4 DEF In
    <3>2. rank(k) = r
      BY <3>1, <1>4, <1>6
    <3>3. QED
      BY <1>7, <3>1, <3>2
  <2> HIDE DEF S, T
  <2>5. Cardinality(S) <= Cardinality(T)
    <3>1. S \in SUBSET T
      BY <2>3
    <3>2. QED
      BY <2>2, <3>1, FS_Subset
  <2>6. n = SumLen(h[i]) => S = T
    BY <2>3, <2>4
  <2>7. QED
    BY <2>0, <2>2, <2>5, <2>6
<1>10. \A k \in 1 .. n : own[k][1] = i
  BY <1>7
<1>11. QED
  BY <1>8, <1>9, <1>10 DEF own

\* Picks in a row from blocks that are not refreshed are one tile, one of
\* those with the fewest copies.
LEMMA EasyRepeats ==
  ASSUME NEW h \in Hand, NEW m \in Nat, NEW e \in E!Easy(h, h, m)
  PROVE  /\ e \in Seq(Tile) /\ Len(e) = m
         /\ \A n \in 1 .. m : e[n] = e[1] /\ e[n] \in Shown(h)
         /\ m > 0 => \A u \in Shown(h) : Copies(h, e[1]) <= Copies(h, u)
<1>0. h \in Counts /\ \A t \in Tile : Copies(h, t) \in 0 .. 4
  BY HandDef
<1>1. /\ e \in [1 .. m -> Shown(h)]
      /\ \A n \in 1 .. m : e[n] \in EasyOuts(E!Without(h, SubSeq(e, 1, n - 1)), h)
  BY OpeningHands DEF E!Easy
<1>2. Shown(h) \subseteq Tile
  BY DEF Shown
<1>3. e \in Seq(Tile) /\ Len(e) = m
  BY <1>1, <1>2
<1>4. ASSUME NEW n \in 1 .. m, NEW u \in Shown(h)
      PROVE  /\ e[n] \in Tile /\ u \in Tile
             /\ Copies(h, e[n]) - Often(e, n - 1, e[n]) <= Copies(h, u) - Often(e, n - 1, u)
  <2> DEFINE pre == SubSeq(e, 1, n - 1)
  <2>1. pre \in Seq(Tile) /\ Len(pre) = n - 1 /\ \A k \in 1 .. n - 1 : pre[k] = e[k]
    BY <1>3
  <2>2. e[n] \in EasyOuts(E!Without(h, pre), h)
    BY <1>1
  <2> HIDE DEF pre
  <2>3. e[n] \in Tile /\ u \in Tile
    BY <1>1, <1>2
  <2>4. Copies(E!Without(h, pre), e[n]) <= Copies(E!Without(h, pre), u)
    BY <2>2 DEF EasyOuts, Copies
  <2>5. \A t : E!Times(pre, t) = Often(e, n - 1, t)
    <3> TAKE t
    <3>1. E!Times(pre, t) = Often(pre, n - 1, t)
      BY <2>1, TimesOften
    <3>2. {k \in 1 .. n - 1 : pre[k] = t} = {k \in 1 .. n - 1 : e[k] = t}
      BY <2>1
    <3>3. QED
      BY <3>1, <3>2, Zenon DEF Often
  <2>6. \A t \in Tile : Copies(E!Without(h, pre), t) = Copies(h, t) - Often(e, n - 1, t)
    BY <1>0, <2>1, <2>5, WithoutCounts
  <2>7. QED
    BY <2>3, <2>4, <2>6
<1>5. ASSUME m > 0, NEW u \in Shown(h) PROVE Copies(h, e[1]) <= Copies(h, u)
  <2>1. 1 \in 1 .. m /\ 1 - 1 = 0
    BY <1>5
  <2>2. e[1] \in Tile /\ u \in Tile /\ Often(e, 0, e[1]) = 0 /\ Often(e, 0, u) = 0
    BY <1>4, <2>1, OftenSteps
  <2>3. Copies(h, e[1]) - 0 <= Copies(h, u) - 0
    BY <1>4, <2>1, <2>2
  <2>4. QED
    BY <1>0, <2>2, <2>3
<1> DEFINE S == {n \in Nat : \A k \in 1 .. n : e[k] = e[1]}
<1>6. ASSUME NEW n \in 0 .. m - 1, n \in S PROVE n + 1 \in S
  <2>0. n \in Nat /\ n + 1 \in 1 .. m /\ (n + 1) - 1 = n /\ 1 \in 1 .. m /\ m > 0
    OBVIOUS
  <2>1. CASE n = 0
    BY <2>1
  <2>2. CASE n > 0
    <3>1. SUFFICES ASSUME e[n + 1] # e[1] PROVE FALSE
      BY <1>6, <2>0
    <3>2. {k \in 1 .. n : e[k] = e[1]} = 1 .. n /\ {k \in 1 .. n : e[k] = e[n + 1]} = {}
      BY <1>6, <3>1
    <3>3. Often(e, n, e[1]) = n /\ Often(e, n, e[n + 1]) = 0
      <4>1. Cardinality(1 .. n) = n
        <5>1. Cardinality(1 .. n) = IF 1 > n THEN 0 ELSE n - 1 + 1
          BY FS_Interval
        <5>2. QED
          BY <5>1, <2>2
      <4>2. QED
        BY <3>2, <4>1, FS_EmptySet DEF Often
    <3>4. e[1] \in Shown(h) /\ e[n + 1] \in Shown(h) /\ e[1] \in Tile /\ e[n + 1] \in Tile
      BY <1>1, <1>2, <2>0
    <3>5. Copies(h, e[n + 1]) - Often(e, n, e[n + 1]) <= Copies(h, e[1]) - Often(e, n, e[1])
      BY <1>4, <2>0, <3>4
    <3>6. Copies(h, e[1]) <= Copies(h, e[n + 1])
      BY <1>5, <2>0, <3>4
    <3>7. Copies(h, e[1]) \in Int /\ Copies(h, e[n + 1]) \in Int
      BY <1>0, <3>4
    <3>8. QED
      BY <2>0, <2>2, <3>3, <3>5, <3>6, <3>7
  <2>3. QED
    BY <2>0, <2>1, <2>2
<1>7. m \in S
  <2>1. 0 \in S
    OBVIOUS
  <2> HIDE DEF S
  <2>2. 0 .. m \subseteq S
    BY <1>6, <2>1, InductUpto, Zenon
  <2>3. QED
    BY <2>2
<1>8. QED
  BY <1>1, <1>3, <1>5, <1>7

\* What OutDiscard answers.
Repeated(h, i, o) ==
  \A t, u \in {v \in ToSet(o) : v[1] # i} :
    t = u /\ \A k \in Suit \ {i}, r \in Rank : h[k][r] > 0 => Copies(h, t) <= h[k][r]

LEMMA OfferFacts ==
  ASSUME NEW h \in Hand, NEW i \in Suit, NEW o \in E!OutDiscard(h, i)
  PROVE  /\ o \in Seq(Tile) /\ Len(o) = Give
         /\ SumLen(h[i]) >= Give - 1 => E!Held(h, o)
         /\ Repeated(h, i, o)
<1> DEFINE L == SumLen(h[i])
           m == IF Give <= L THEN Give ELSE L
           own == E!Tiles(h, i, m)
           rest == E!Without(h, own)
<1>1. L \in Nat /\ Give \in Nat /\ m \in 0 .. L /\ m <= Give
  BY SuitOfHand, OpeningAssumption
<1>2. E!Min({Give, E!SumLen(h[i])}) = m
  <2>1. E!SumLen(h[i]) = L
    BY OpeningSums
  <2>2. E!Min({Give, L}) = CHOOSE x \in {Give, L} : \A y \in {Give, L} : x <= y
    BY Zenon DEF E!Min
  <2>3. m \in {Give, L} /\ (\A y \in {Give, L} : m <= y)
        /\ \A x \in {Give, L} : (\A y \in {Give, L} : x <= y) => x = m
    BY <1>1
  <2> HIDE DEF m, L
  <2>4. QED
    BY <2>1, <2>2, <2>3, Zenon
<1>3. /\ own \in Seq(Tile) /\ Len(own) = m
      /\ \A k \in 1 .. m : own[k][1] = i
      /\ \A r \in Rank : /\ E!Times(own, <<i, r>>) <= h[i][r]
                         /\ m = L => E!Times(own, <<i, r>>) = h[i][r]
  BY <1>1, TilesOfSuit
<1>4. o \in {own \o e : e \in E!Easy(rest, [h EXCEPT ![i] = rest[i]], Give - Len(own))}
  BY <1>2 DEF E!OutDiscard
<1> HIDE DEF L, m, own, rest
<1>5. h \in Counts /\ \A t \in Tile : Copies(h, t) \in 0 .. 4
  BY HandDef
<1>6. rest \in Counts /\ \A t \in Tile : Copies(rest, t) = Copies(h, t) - E!Times(own, t)
  BY <1>3, <1>5, WithoutCounts DEF rest
<1>7. ASSUME NEW t \in Tile PROVE E!Times(own, t) \in 0 .. Copies(h, t) /\ (t[1] # i => E!Times(own, t) = 0)
  <2>1. t = <<t[1], t[2]>> /\ t[1] \in Suit /\ t[2] \in Rank
    BY HandDef
  <2>2. E!Times(own, t) = Often(own, m, t) /\ m \in Nat
    BY <1>1, <1>3, TimesOften
  <2>3. Often(own, m, t) \in Nat
    BY <2>2, OftenSteps
  <2>4. CASE t[1] = i
    <3>1. E!Times(own, <<i, t[2]>>) <= h[i][t[2]]
      BY <1>3, <2>1
    <3>2. E!Times(own, t) <= Copies(h, t)
      BY <3>1, <2>1, <2>4 DEF Copies
    <3>3. QED
      BY <1>5, <2>2, <2>3, <2>4, <3>2
  <2>5. CASE t[1] # i
    <3>1. {k \in 1 .. m : own[k] = t} = {}
      BY <1>3, <2>5
    <3>2. Often(own, m, t) = 0
      BY <3>1, FS_EmptySet DEF Often
    <3>3. QED
      BY <1>5, <2>2, <3>2
  <2>6. QED
    BY <2>4, <2>5
<1>8. rest \in Hand
  <2>1. \A t \in Tile : Copies(rest, t) \in 0 .. 4
    BY <1>5, <1>6, <1>7
  <2>2. QED
    BY <1>6, <2>1, HandDef
<1>9. [h EXCEPT ![i] = rest[i]] = rest
  <2>1. ASSUME NEW k \in Suit, k # i PROVE rest[k] = h[k]
    <3>1. rest[k] \in [Rank -> Int] /\ h[k] \in [Rank -> Int]
      BY <1>5, <1>6 DEF Counts
    <3>2. ASSUME NEW r \in Rank PROVE rest[k][r] = h[k][r]
      <4>1. <<k, r>> \in Tile /\ <<k, r>>[1] # i
        BY <2>1, HandDef
      <4>2. Copies(rest, <<k, r>>) = Copies(h, <<k, r>>) - 0 /\ Copies(h, <<k, r>>) \in Int
        BY <1>5, <1>6, <1>7, <4>1
      <4>3. QED
        BY <4>2 DEF Copies
    <3>3. QED
      BY <3>1, <3>2
  <2>2. QED
    BY <1>5, <1>6, <2>1 DEF Counts
<1>10. PICK e \in E!Easy(rest, rest, Give - m) : o = own \o e
  BY <1>3, <1>4, <1>9
<1>11. Give - m \in Nat /\ (Give - m > 0 => m = L)
  BY <1>1 DEF m
<1>12. /\ e \in Seq(Tile) /\ Len(e) = Give - m
       /\ \A n \in 1 .. Give - m : e[n] = e[1] /\ e[n] \in Shown(rest)
       /\ Give - m > 0 => \A u \in Shown(rest) : Copies(rest, e[1]) <= Copies(rest, u)
  BY <1>8, <1>10, <1>11, EasyRepeats
<1>13. o \in Seq(Tile) /\ Len(o) = Give
  <2>1. own \o e \in Seq(Tile) /\ Len(own \o e) = Len(own) + Len(e)
    BY <1>3, <1>12, ConcatProperties
  <2>2. m + (Give - m) = Give
    BY <1>1
  <2>3. QED
    BY <1>3, <1>10, <1>12, <2>1, <2>2
<1>14. /\ \A n \in 1 .. m : o[n] = own[n]
       /\ \A n \in m + 1 .. Give : o[n] = e[n - m]
  BY <1>1, <1>3, <1>10, <1>12
<1>15. ASSUME m = L, NEW t \in Shown(rest) PROVE t \in Tile /\ t[1] # i
  <2>1. t \in Tile /\ Copies(rest, t) > 0 /\ t = <<t[1], t[2]>> /\ t[2] \in Rank
    BY HandDef DEF Shown, Copies
  <2>2. CASE t[1] = i
    <3>1. E!Times(own, <<i, t[2]>>) = h[i][t[2]]
      BY <1>3, <1>15, <2>1
    <3>2. E!Times(own, t) = Copies(h, t)
      BY <2>1, <2>2, <3>1 DEF Copies
    <3>3. QED
      BY <1>5, <1>6, <2>1, <3>2
  <2>3. QED
    BY <2>1, <2>2
<1>16. ASSUME L >= Give - 1 PROVE E!Held(h, o)
  <2>1. SUFFICES ASSUME NEW t \in ToSet(o) PROVE E!Times(o, t) <= h[t[1]][t[2]]
    BY DEF E!Held, E!ToSet, ToSet
  <2>2. t \in Tile
    BY <1>13 DEF ToSet
  <2>3. E!Times(o, t) = Often(o, Give, t) /\ E!Times(own, t) = Often(own, m, t)
    BY <1>3, <1>13, TimesOften
  <2>4. {k \in 1 .. m : o[k] = t} = {k \in 1 .. m : own[k] = t}
    BY <1>14
  <2>5. Often(o, m, t) = Often(own, m, t)
    BY <2>4, Zenon DEF Often
  <2>6. CASE m = Give
    BY <1>5, <1>7, <2>2, <2>3, <2>5, <2>6 DEF Copies
  <2>7. CASE m # Give
    <3>1. m = L /\ Give = m + 1 /\ m \in Nat
      BY <1>1, <1>16, <2>7, <1>11
    <3>2. Often(o, Give, t) = Often(o, m, t) + IF o[m + 1] = t THEN 1 ELSE 0
      BY <3>1, OftenSteps
    <3>3. o[m + 1] = e[1] /\ e[1] \in Shown(rest)
      BY <1>12, <1>14, <3>1
    <3>4. CASE o[m + 1] = t
      <4>1. t[1] # i /\ Copies(rest, t) > 0
        BY <1>15, <3>1, <3>3, <3>4 DEF Shown, Copies
      <4>2. E!Times(own, t) = 0 /\ Copies(h, t) > 0
        BY <1>5, <1>6, <1>7, <2>2, <4>1
      <4>3. QED
        BY <1>5, <2>2, <2>3, <2>5, <3>2, <3>4, <4>2 DEF Copies
    <3>5. CASE o[m + 1] # t
      BY <1>5, <1>7, <2>2, <2>3, <2>5, <3>2, <3>5 DEF Copies
    <3>6. QED
      BY <3>4, <3>5
  <2>8. QED
    BY <2>6, <2>7
<1>17. Repeated(h, i, o)
  <2>1. ASSUME NEW v \in ToSet(o), v[1] # i
        PROVE  v = e[1] /\ Give - m > 0 /\ v \in Shown(rest)
    <3>1. PICK n \in 1 .. Give : o[n] = v
      BY <1>13 DEF ToSet
    <3>2. ~ (n \in 1 .. m)
      BY <1>3, <1>14, <2>1, <3>1
    <3>3. n \in m + 1 .. Give /\ n - m \in 1 .. Give - m /\ Give - m > 0
      BY <1>1, <3>1, <3>2
    <3>4. QED
      BY <1>12, <1>14, <3>1, <3>3
  <2>2. ASSUME NEW v \in ToSet(o), v[1] # i, NEW k \in Suit \ {i}, NEW r \in Rank, h[k][r] > 0
        PROVE  Copies(h, v) <= h[k][r]
    <3> DEFINE u == <<k, r>>
    <3>1. u \in Tile /\ u[1] # i /\ Copies(h, u) = h[k][r]
      BY <2>2, HandDef DEF Copies
    <3>2. v = e[1] /\ Give - m > 0 /\ v \in Shown(rest) /\ v \in Tile
      BY <2>1, <2>2 DEF Shown
    <3> HIDE DEF u
    <3>3. Copies(rest, u) = Copies(h, u) /\ Copies(rest, v) = Copies(h, v)
      BY <1>5, <1>6, <1>7, <2>2, <3>1, <3>2
    <3>4. u \in Shown(rest)
      BY <2>2, <3>1, <3>3 DEF Shown, Copies
    <3>5. Copies(rest, v) <= Copies(rest, u)
      BY <1>12, <3>2, <3>4
    <3>6. QED
      BY <3>1, <3>3, <3>5
  <2>3. QED
    BY <2>1, <2>2 DEF Repeated
<1>18. QED
  BY <1>13, <1>16, <1>17 DEF L

\* The invariant of the opening: the hand keeps its size, the blocks are
\* those of the three suits, and what the last function answered was answered
\* for the present hand.
OpenInv ==
  /\ dealt \in Hand /\ Size(dealt) = OpeningSize
  /\ order \in Orders
  /\ step \in {"offered", "playing"} => lose \in Suit /\ Best(dealt, lose)
  /\ step = "offered" => offer \in E!OutDiscard(dealt, lose)

LEMMA OpenFirst == E!Init => OpenInv
<1> SUFFICES ASSUME E!Init PROVE OpenInv
  OBVIOUS
<1>1. dealt \in Hand /\ Size(dealt) = OpeningSize
  <2>1. dealt \in Deals(OpeningSize, Tile)
    BY OpeningHands DEF E!Init
  <2>2. QED
    BY <2>1, DealsDef, OpeningAssumption
<1>2. order \in Orders
  <2>1. order = <<0, 1, 2>>
    BY DEF E!Init
  <2>2. order \in [1 .. 3 -> Suit] /\ order[1] # order[2] /\ order[1] # order[3] /\ order[2] # order[3]
    BY <2>1 DEF Suit
  <2>3. QED
    BY <2>2, OrdersDef
<1>3. QED
  BY <1>1, <1>2 DEF OpenInv, E!Init

LEMMA OpenSorted ==
  ASSUME OpenInv, E!InitNow, UNCHANGED dealt
  PROVE  order' \in Orders /\ lose' \in Suit /\ Best(dealt, lose')
<1>1. dealt \in Hand /\ Size(dealt) % 3 # 0 /\ order \in Orders
  BY OpeningAssumption DEF OpenInv
<1>2. order' = SortNewBlock(dealt, order) /\ lose' = GetDiscard(dealt, order')
  BY OpeningHands DEF E!InitNow
<1>3. QED
  BY <1>1, <1>2, SortedBlocks, BestSuit

LEMMA OpenExchange ==
  ASSUME OpenInv, E!Exchange
  PROVE  OpenInv'
<1>0. dealt \in Hand /\ Size(dealt) = OpeningSize /\ order \in Orders
  BY DEF OpenInv
<1> DEFINE rest == E!Without(dealt, offer)
<1>1. PICK t \in Tile : rest[t[1]][t[2]] + Give <= 4 /\ dealt' = Put(rest, t, Give)
  BY OpeningSets, OpeningHands DEF E!Exchange
<1>2. /\ step = "offered" /\ step' = "exchanged" /\ order' = order
      /\ E!Held(dealt, offer)
  BY DEF E!Exchange
<1>3. offer \in Seq(Tile) /\ Len(offer) = Give
  BY <1>2, OfferFacts DEF OpenInv
<1>4. dealt \in Counts /\ \A u \in Tile : Copies(dealt, u) \in 0 .. 4
  BY <1>0, HandDef
<1>5. /\ rest \in Counts /\ Size(rest) = OpeningSize - Give
      /\ \A u \in Tile : Copies(rest, u) = Copies(dealt, u) - E!Times(offer, u)
  BY <1>0, <1>3, <1>4, WithoutCounts
<1> HIDE DEF rest
<1>6. ASSUME NEW u \in Tile PROVE Copies(rest, u) \in 0 .. 4
  <2>1. E!Times(offer, u) \in Nat
    <3>1. E!Times(offer, u) = Often(offer, Len(offer), u) /\ Len(offer) \in Nat
      BY <1>3, TimesOften
    <3>2. QED
      BY <3>1, OftenSteps
  <2>2. E!Times(offer, u) <= Copies(dealt, u)
    <3>1. CASE u \in ToSet(offer)
      BY <1>2, <3>1 DEF E!Held, E!ToSet, ToSet, Copies
    <3>2. CASE u \notin ToSet(offer)
      <4>1. {k \in 1 .. Len(offer) : offer[k] = u} = {}
        BY <1>3, <3>2 DEF ToSet
      <4>2. Often(offer, Len(offer), u) = 0
        BY <4>1, FS_EmptySet DEF Often
      <4>3. E!Times(offer, u) = 0
        BY <1>3, <4>2, TimesOften
      <4>4. QED
        BY <1>4, <4>3
    <3>3. QED
      BY <3>1, <3>2
  <2>3. QED
    BY <1>4, <1>5, <2>1, <2>2
<1>7. Give \in Nat /\ OpeningSize \in Nat
  BY OpeningAssumption
<1>8. dealt' \in Hand
  <2>1. rest \in Hand
    BY <1>5, <1>6, HandDef
  <2>2. Copies(rest, t) + Give \in 0 .. 4
    BY <1>1, <1>6, <1>7 DEF Copies
  <2>3. QED
    BY <1>1, <1>7, <2>1, <2>2, PutHand
<1>9. Size(dealt') = OpeningSize
  <2>1. Size(Put(rest, t, Give)) = Size(rest) + Give
    BY <1>5, <1>7, PutCounts
  <2>2. (OpeningSize - Give) + Give = OpeningSize
    BY <1>7
  <2>3. QED
    BY <1>1, <1>5, <2>1, <2>2
<1>10. QED
  BY <1>0, <1>2, <1>8, <1>9 DEF OpenInv

LEMMA OpenStep ==
  ASSUME OpenInv, E!Next \/ UNCHANGED openVars
  PROVE  OpenInv'
<1>1. CASE E!Func1
  <2>1. /\ E!InitNow /\ UNCHANGED dealt /\ step' = "offered"
        /\ offer' \in E!OutDiscard(dealt, lose')
    BY <1>1 DEF E!Func1
  <2>2. order' \in Orders /\ lose' \in Suit /\ Best(dealt, lose')
    BY <2>1, OpenSorted
  <2>3. QED
    BY <2>1, <2>2 DEF OpenInv
<1>2. CASE E!Func2
  <2>1. E!InitNow /\ UNCHANGED dealt /\ step' = "playing"
    BY <1>2 DEF E!Func2
  <2>2. order' \in Orders /\ lose' \in Suit /\ Best(dealt, lose')
    BY <2>1, OpenSorted
  <2>3. QED
    BY <2>1, <2>2 DEF OpenInv
<1>3. CASE E!Exchange
  BY <1>3, OpenExchange
<1>4. CASE E!Again
  BY <1>4 DEF E!Again, OpenInv
<1>5. CASE UNCHANGED openVars
  BY <1>5 DEF openVars, OpenInv
<1>6. QED
  BY <1>1, <1>2, <1>3, <1>4, <1>5 DEF E!Next

\* What the player says in the opening is answered for the hand it was sent.
THEOREM OpenInvariant == MCSpec => [](part = "opening" => OpenInv)
<1> DEFINE I == part = "opening" => OpenInv
<1>1. MCInit => I
  BY OpenFirst DEF MCInit
<1>2. I /\ [PlayNext \/ OpenNext]_allVars => I'
  <2> SUFFICES ASSUME I, [PlayNext \/ OpenNext]_allVars, part' = "opening" PROVE OpenInv'
    OBVIOUS
  <2>1. part = "opening" /\ (E!Next \/ UNCHANGED openVars)
    BY DEF PlayNext, OpenNext, allVars, openVars
  <2>2. QED
    BY <2>1, OpenStep
<1> HIDE DEF I
<1>3. MCSpec => []I
  BY <1>1, <1>2, PTL DEF MCSpec
<1>4. QED
  BY <1>3 DEF I

\* The suit the player does without is the best one to lose, for hands whose
\* size keeps three suits from being equally long (InitNow, GetDiscard).
THEOREM InvIsBestHolds == MCSpec => []InvIsBest
<1>1. (part = "opening" => OpenInv) => InvIsBest
  <2> SUFFICES ASSUME part = "opening", OpenInv, step \in {"offered", "playing"}
               PROVE  E!InvIsBest
    BY DEF InvIsBest, E!InvIsBest
  <2>1. Best(dealt, lose)
    BY DEF OpenInv
  <2>2. \A i : /\ E!SumLen(dealt[i]) = SumLen(dealt[i]) /\ E!SumWei(dealt[i]) = SumWei(dealt[i])
               /\ E!Cardinality(E!Child(dealt[i])) = Cardinality(Child(dealt[i]))
    BY OpeningSums, OpeningSuits, OpeningCardinality, Zenon
  <2>3. QED
    BY <2>1, <2>2, OpeningSets DEF E!InvIsBest, Best
<1>2. QED
  BY <1>1, OpenInvariant, PTL

\* The tiles to give away are held, or the one tile that is not in the suit to
\* lose is offered again and again (OutDiscard, EasyOuts).
THEOREM OfferSoundHolds == MCSpec => []OfferSound
<1>1. (part = "opening" => OpenInv) => OfferSound
  <2> SUFFICES ASSUME part = "opening", OpenInv, step = "offered" PROVE E!OfferSound
    BY DEF OfferSound, E!OfferSound, E!OfferHeld, E!OfferRepeats
  <2>1. dealt \in Hand /\ lose \in Suit /\ offer \in E!OutDiscard(dealt, lose)
    BY DEF OpenInv
  <2>2. /\ SumLen(dealt[lose]) >= Give - 1 => E!Held(dealt, offer)
        /\ Repeated(dealt, lose, offer)
    BY <2>1, OfferFacts
  <2>3. E!OfferHeld
    BY <2>2, OpeningSums DEF E!OfferHeld
  <2>4. E!OfferRepeats
    BY <2>2, OpeningSets DEF E!OfferRepeats, Repeated, E!ToSet, ToSet, Copies
  <2>5. QED
    BY <2>3, <2>4 DEF E!OfferSound
<1>2. QED
  BY <1>1, OpenInvariant, PTL

-----------------------------------------------------------------------------
(* The game: the blocks of all suits are made once, by number.             *)

\* The number of a suit is that of its digits to the base 5.
LEMMA NumberDef ==
  ASSUME NEW no
  PROVE  \E k : /\ k[0] = 0 /\ Number(no) = k[Ranks]
                /\ \A n \in Rank : k[n + 1] = 5 * k[n] + no[n]
<1> DEFINE Eq(u, m) == u = [n \in 0 .. m |-> IF n = 0 THEN 0 ELSE 5 * u[n - 1] + no[n - 1]]
           S == {m \in Nat : \E u : Eq(u, m)}
<1>1. 0 \in S
  <2> DEFINE u == [n \in 0 .. 0 |-> 0]
  <2>1. u = [n \in 0 .. 0 |-> IF n = 0 THEN 0 ELSE 5 * u[n - 1] + no[n - 1]]
    OBVIOUS
  <2>2. QED
    BY <2>1
<1>2. ASSUME NEW m \in Nat, m \in S PROVE m + 1 \in S
  <2>1. PICK u : Eq(u, m)
    BY <1>2
  <2> DEFINE v == [n \in 0 .. m + 1 |-> IF n \in 0 .. m THEN u[n] ELSE 5 * u[m] + no[m]]
  <2>2. ASSUME NEW n \in 0 .. m + 1 PROVE v[n] = IF n = 0 THEN 0 ELSE 5 * v[n - 1] + no[n - 1]
    <3>1. CASE n = 0
      BY <2>1, <3>1
    <3>2. CASE n # 0 /\ n <= m
      <4>1. v[n] = u[n] /\ v[n - 1] = u[n - 1]
        BY <3>2
      <4>2. u[n] = 5 * u[n - 1] + no[n - 1]
        BY <2>1, <3>2
      <4>3. QED
        BY <4>1, <4>2, <3>2
    <3>3. CASE n = m + 1
      BY <3>3
    <3>4. QED
      BY <3>1, <3>2, <3>3
  <2>3. Eq(v, m + 1)
    BY <2>2
  <2> HIDE DEF Eq, v
  <2>4. m + 1 \in Nat /\ \E w : Eq(w, m + 1)
    BY <2>3
  <2>5. QED
    BY <2>4
<1>3. Ranks \in S
  BY <1>1, <1>2, Induct, RanksAssumption
<1>4. \E u : Eq(u, Ranks)
  BY <1>3
<1> HIDE DEF Eq
<1> DEFINE k == CHOOSE u : Eq(u, Ranks)
<1>5. Eq(k, Ranks)
  BY <1>4, Zenon
<1>6. Number(no) = k[Ranks]
  BY DEF Number, Eq
<1> HIDE DEF k
<1>7. k[0] = 0
  BY <1>5, RanksAssumption DEF Eq
<1>8. \A n \in Rank : k[n + 1] = 5 * k[n] + no[n]
  BY <1>5, RanksAssumption DEF Eq, Rank
<1>9. QED
  BY <1>6, <1>7, <1>8

LEMMA NumberInjective ==
  ASSUME NEW a \in SuitHand, NEW b \in SuitHand, Number(a) = Number(b)
  PROVE  a = b
<1>1. PICK x : x[0] = 0 /\ Number(a) = x[Ranks] /\ \A n \in Rank : x[n + 1] = 5 * x[n] + a[n]
  BY NumberDef
<1>2. PICK y : y[0] = 0 /\ Number(b) = y[Ranks] /\ \A n \in Rank : y[n + 1] = 5 * y[n] + b[n]
  BY NumberDef
<1> DEFINE S == {n \in Nat : x[n] \in Nat /\ y[n] \in Nat
                             /\ (x[n] = y[n] => \A r \in 0 .. n - 1 : a[r] = b[r])}
<1>3. 0 \in S
  BY <1>1, <1>2
<1>4. ASSUME NEW n \in 0 .. Ranks - 1, n \in S PROVE n + 1 \in S
  <2>1. n \in Rank /\ n + 1 \in Nat
    BY RanksAssumption DEF Rank
  <2>2. a[n] \in 0 .. 4 /\ b[n] \in 0 .. 4
    BY <2>1 DEF SuitHand
  <2>3. x[n + 1] = 5 * x[n] + a[n] /\ y[n + 1] = 5 * y[n] + b[n]
    BY <1>1, <1>2, <2>1
  <2>4. x[n] \in Nat /\ y[n] \in Nat /\ (x[n] = y[n] => \A r \in 0 .. n - 1 : a[r] = b[r])
    BY <1>4
  <2>5. x[n + 1] \in Nat /\ y[n + 1] \in Nat
    BY <2>2, <2>3, <2>4
  <2>6. x[n + 1] = y[n + 1] => x[n] = y[n] /\ a[n] = b[n]
    BY <2>2, <2>3, <2>4
  <2>7. x[n + 1] = y[n + 1] => \A r \in 0 .. (n + 1) - 1 : a[r] = b[r]
    BY <2>1, <2>4, <2>6
  <2>8. QED
    BY <2>1, <2>5, <2>7
<1> HIDE DEF S
<1>5. Ranks \in S
  <2>1. Ranks \in Nat /\ Ranks \in 0 .. Ranks
    BY RanksAssumption
  <2>2. 0 .. Ranks \subseteq S
    BY <1>3, <1>4, <2>1, InductUpto, Zenon
  <2>3. QED
    BY <2>1, <2>2, Zenon
<1>6. \A r \in Rank : a[r] = b[r]
  BY <1>1, <1>2, <1>5 DEF S, Rank
<1>7. QED
  BY <1>6 DEF SuitHand

\* So the block and the shape of a suit are those of its tiles.
With(no, n) == Cardinality({r \in Rank : no[r] = n})

LEMMA BlockIs ==
  ASSUME NEW no \in SuitHand
  PROVE  /\ Block(no).len = SumLen(no) /\ Block(no).w = SetWeight(no).w /\ Block(no).o = SetWeight(no).o
         /\ Block(no).four = With(no, 4) /\ Block(no).two = With(no, 2) /\ Block(no).one = With(no, 1)
         /\ Shape(no).melds = IsMelds(no) /\ Shape(no).complete = IsComplete(no)
<1>1. Number(no) \in Numbers
  BY DEF Numbers
<1>2. Numbered(Number(no)) = no
  <2>1. \E a \in SuitHand : Number(a) = Number(no)
    OBVIOUS
  <2>2. Numbered(Number(no)) \in SuitHand /\ Number(Numbered(Number(no))) = Number(no)
    BY <2>1, Zenon DEF Numbered
  <2>3. QED
    BY <2>2, NumberInjective
<1>3. Block(no) = [len |-> SumLen(no), w |-> SetWeight(no).w, o |-> SetWeight(no).o,
                   four |-> With(no, 4), two |-> With(no, 2), one |-> With(no, 1)]
  BY <1>1, <1>2, Zenon DEF Block, Blocks, With
<1>4. Shape(no) = [melds |-> IsMelds(no), complete |-> IsComplete(no)]
  BY <1>1, <1>2, Zenon DEF Shape, Shapes
<1>5. QED
  BY <1>3, <1>4

-----------------------------------------------------------------------------
(* What checkFull counts.                                                  *)

\* A set of ranks is counted by a sum.
LEMMA CountRanks ==
  ASSUME NEW S \in SUBSET Rank
  PROVE  LET f == [r \in Rank |-> IF r \in S THEN 1 ELSE 0]
         IN  f \in [Rank -> Nat] /\ IsFiniteSet(S) /\ Cardinality(S) \in Nat /\ Cardinality(S) = Total(f)
<1> DEFINE f == [r \in Rank |-> IF r \in S THEN 1 ELSE 0]
           B(n) == {r \in S : r < n}
           C == {n \in Nat : Cardinality(B(n)) = Upto(f)[n]}
<1>0. \A r \in S : r \in Nat /\ r < Ranks
  BY RanksAssumption DEF Rank
<1>1. f \in [Rank -> Nat] /\ f \in [Rank -> Int]
  OBVIOUS
<1>2. IsFiniteSet(S)
  <2>1. IsFiniteSet(Rank)
    BY FS_Interval, RanksAssumption DEF Rank
  <2>2. QED
    BY <2>1, FS_Subset
<1>3. /\ Upto(f)[0] = 0 /\ Total(f) = Upto(f)[Ranks]
      /\ \A n \in Rank : Upto(f)[n + 1] = Upto(f)[n] + f[n]
  <2> HIDE DEF f
  <2>1. QED
    BY <1>1, UptoSteps
<1>4. \A n : IsFiniteSet(B(n)) /\ Cardinality(B(n)) \in Nat
  <2> TAKE n
  <2>1. B(n) \in SUBSET S
    OBVIOUS
  <2>2. QED
    BY <1>2, <2>1, FS_Subset, FS_CardinalityType
<1>5. 0 \in C
  <2>1. B(0) = {}
    BY <1>0
  <2>2. QED
    BY <1>3, <2>1, FS_EmptySet
<1>6. ASSUME NEW n \in 0 .. Ranks - 1, n \in C PROVE n + 1 \in C
  <2>1. n \in Rank /\ n \in Nat /\ n + 1 \in Nat
    BY RanksAssumption DEF Rank
  <2>2. Upto(f)[n + 1] = Cardinality(B(n)) + IF n \in S THEN 1 ELSE 0
    BY <1>3, <1>6, <2>1
  <2>3. \A r \in S : (r < n + 1 <=> (r < n \/ r = n)) /\ ~ (n < n)
    BY <1>0, <2>1
  <2>4. CASE n \in S
    <3>1. B(n + 1) = B(n) \cup {n} /\ n \notin B(n)
      BY <2>3, <2>4, Zenon
    <3>2. Cardinality(B(n + 1)) = Cardinality(B(n)) + 1
      BY <1>4, <3>1, FS_AddElement
    <3>3. QED
      BY <2>1, <2>2, <2>4, <3>2
  <2>5. CASE n \notin S
    <3>1. B(n + 1) = B(n)
      BY <2>3, <2>5, Zenon
    <3>2. Cardinality(B(n + 1)) = Cardinality(B(n)) + 0
      BY <1>4, <3>1
    <3>3. QED
      BY <2>1, <2>2, <2>5, <3>2
  <2>6. QED
    BY <2>4, <2>5
<1>7. B(Ranks) = S
  BY <1>0
<1> HIDE DEF f, C
<1>8. Ranks \in C
  <2>1. Ranks \in Nat /\ Ranks \in 0 .. Ranks
    BY RanksAssumption
  <2>2. 0 .. Ranks \subseteq C
    BY <1>5, <1>6, <2>1, InductUpto, Zenon
  <2>3. QED
    BY <2>1, <2>2, Zenon
<1>9. Cardinality(S) = Total(f)
  BY <1>3, <1>7, <1>8 DEF C
<1>10. Cardinality(S) \in Nat
  BY <1>2, FS_CardinalityType
<1>11. QED
  BY <1>1, <1>2, <1>9, <1>10 DEF f

\* Sums are compared rank by rank.
LEMMA TotalAtMost ==
  ASSUME NEW f \in [Rank -> Nat], NEW g \in [Rank -> Nat], \A r \in Rank : f[r] <= g[r]
  PROVE  /\ Total(f) \in Nat /\ Total(g) \in Nat
         /\ Total(f) <= Total(g)
         /\ Total(f) = Total(g) => \A r \in Rank : f[r] = g[r]
<1> DEFINE d == [r \in Rank |-> g[r] - f[r]]
<1>1. d \in [Rank -> Nat] /\ d \in [Rank -> Int] /\ \A r \in Rank : g[r] = f[r] + d[r]
  OBVIOUS
<1> HIDE DEF d
<1>2. Total(g) = Total(f) + Total(d)
  BY <1>1, TotalAdd
<1>3. /\ Total(f) \in Nat /\ Total(g) \in Nat /\ Total(d) \in Nat
      /\ \A r \in Rank : d[r] <= Total(d)
  BY <1>1, TotalNat
<1>4. ASSUME Total(f) = Total(g), NEW r \in Rank PROVE f[r] = g[r]
  <2>1. d[r] <= 0
    BY <1>2, <1>3, <1>4
  <2>2. QED
    BY <1>1, <2>1
<1>5. QED
  BY <1>2, <1>3, <1>4

\* Pairs and fours take two and four tiles each.
LEMMA PairsFit ==
  ASSUME NEW no \in SuitHand
  PROVE  /\ With(no, 2) \in Nat /\ With(no, 4) \in Nat /\ SumLen(no) \in Nat
         /\ 2 * With(no, 2) + 4 * With(no, 4) <= SumLen(no)
         /\ 2 * With(no, 2) + 4 * With(no, 4) = SumLen(no) <=> \A r \in Rank : no[r] \in {0, 2, 4}
<1> DEFINE Is(n) == {r \in Rank : no[r] = n}
           f(n, k) == [r \in Rank |-> IF r \in Is(n) THEN k ELSE 0]
           g == [r \in Rank |-> f(2, 2)[r] + f(4, 4)[r]]
<1>1. \A n : \A k \in Nat : f(n, k) \in [Rank -> Nat] /\ f(n, k) \in [Rank -> Int]
  OBVIOUS
<1>2. \A n : With(no, n) \in Nat /\ With(no, n) = Total(f(n, 1))
  <2> TAKE n
  <2>1. Is(n) \in SUBSET Rank
    OBVIOUS
  <2>2. QED
    BY <2>1, CountRanks DEF With
<1>3. \A n : \A k \in Nat : Total(f(n, k + k)) = Total(f(n, k)) + Total(f(n, k))
  <2> TAKE n
  <2> TAKE k \in Nat
  <2>1. \A r \in Rank : f(n, k + k)[r] = f(n, k)[r] + f(n, k)[r]
    OBVIOUS
  <2>2. f(n, k) \in [Rank -> Int] /\ f(n, k + k) \in [Rank -> Int]
    BY <1>1
  <2> HIDE DEF f
  <2>3. QED
    BY <2>1, <2>2, TotalAdd
<1>4. Total(f(2, 2)) = 2 * With(no, 2) /\ Total(f(4, 4)) = 4 * With(no, 4)
  <2> HIDE DEF f
  <2>1. Total(f(2, 1 + 1)) = Total(f(2, 1)) + Total(f(2, 1))
    BY <1>3
  <2>2. Total(f(4, 1 + 1)) = Total(f(4, 1)) + Total(f(4, 1))
    BY <1>3
  <2>3. Total(f(4, 2 + 2)) = Total(f(4, 2)) + Total(f(4, 2))
    BY <1>3
  <2>4. 1 + 1 = 2 /\ 2 + 2 = 4
    OBVIOUS
  <2>5. QED
    BY <1>2, <2>1, <2>2, <2>3, <2>4
<1>5. g \in [Rank -> Nat] /\ g \in [Rank -> Int] /\ \A r \in Rank : g[r] = f(2, 2)[r] + f(4, 4)[r]
  OBVIOUS
<1>6. no \in [Rank -> Nat] /\ \A r \in Rank : g[r] <= no[r] /\ (g[r] = no[r] <=> no[r] \in {0, 2, 4})
  BY DEF SuitHand
<1> HIDE DEF f, g
<1>7. Total(g) = Total(f(2, 2)) + Total(f(4, 4))
  <2>1. f(2, 2) \in [Rank -> Int] /\ f(4, 4) \in [Rank -> Int]
    BY <1>1
  <2>2. QED
    BY <1>5, <2>1, TotalAdd
<1>8. /\ Total(no) \in Nat /\ Total(g) <= Total(no)
      /\ Total(g) = Total(no) => \A r \in Rank : g[r] = no[r]
  BY <1>5, <1>6, TotalAtMost
<1>9. (\A r \in Rank : g[r] = no[r]) => g = no
  BY <1>5, <1>6
<1>10. QED
  BY <1>2, <1>4, <1>6, <1>7, <1>8, <1>9 DEF SumLen

\* The blocks of a hand added up.
LEMMA SumsOfHand ==
  ASSUME NEW h \in Hand
  PROVE  /\ Sums(h).len = Size(h) /\ Size(h) \in Nat
         /\ \A i \in Suit : SetWeight(h[i]).w \in Nat
         /\ Sums(h).w = SetWeight(h[0]).w + SetWeight(h[1]).w + SetWeight(h[2]).w
         /\ Sums(h).w \in Nat
         /\ Sums(h).four = With(h[0], 4) + With(h[1], 4) + With(h[2], 4)
         /\ Sums(h).two = With(h[0], 2) + With(h[1], 2) + With(h[2], 2)
         /\ Sums(h).four \in Nat /\ Sums(h).two \in Nat
         /\ 2 * Sums(h).two + 4 * Sums(h).four <= Size(h)
         /\ NoFours(h) => (Sums(h).w + Size(h)) % 3 = 0
<1>0. 0 \in Suit /\ 1 \in Suit /\ 2 \in Suit
  BY DEF Suit
<1>1. \A i \in Suit : h[i] \in SuitHand /\ h[i] \in [Rank -> Nat] /\ SumLen(h[i]) \in Nat
  BY SuitOfHand
<1>2. \A i \in Suit : /\ Block(h[i]).len = SumLen(h[i]) /\ Block(h[i]).w = SetWeight(h[i]).w
                      /\ Block(h[i]).four = With(h[i], 4) /\ Block(h[i]).two = With(h[i], 2)
  BY <1>1, BlockIs
<1>3. ASSUME NEW i \in Suit PROVE SetWeight(h[i]).w \in Nat
  <2>1. SetWeight(h[i]) \in Weights
    BY <1>1, SuitWeight
  <2>2. QED
    BY <2>1 DEF Weights
<1>4. \A i \in Suit : /\ With(h[i], 2) \in Nat /\ With(h[i], 4) \in Nat
                      /\ 2 * With(h[i], 2) + 4 * With(h[i], 4) <= SumLen(h[i])
  BY <1>1, PairsFit
<1>5. /\ Sums(h).len = Block(h[0]).len + Block(h[1]).len + Block(h[2]).len
      /\ Sums(h).w = Block(h[0]).w + Block(h[1]).w + Block(h[2]).w
      /\ Sums(h).four = Block(h[0]).four + Block(h[1]).four + Block(h[2]).four
      /\ Sums(h).two = Block(h[0]).two + Block(h[1]).two + Block(h[2]).two
  BY DEF Sums
<1>6. /\ Sums(h).len = SumLen(h[0]) + SumLen(h[1]) + SumLen(h[2])
      /\ Sums(h).w = SetWeight(h[0]).w + SetWeight(h[1]).w + SetWeight(h[2]).w
      /\ Sums(h).four = With(h[0], 4) + With(h[1], 4) + With(h[2], 4)
      /\ Sums(h).two = With(h[0], 2) + With(h[1], 2) + With(h[2], 2)
  BY <1>0, <1>2, <1>5
<1>7. ASSUME NoFours(h), NEW i \in Suit PROVE (SetWeight(h[i]).w + SumLen(h[i])) % 3 = 0
  BY <1>1, <1>7, SuitThree DEF NoFours
<1>8. NoFours(h) => (Sums(h).w + Size(h)) % 3 = 0
  <2>1. \A a, b, c, x, y, z \in Nat :
          (a + x) % 3 = 0 /\ (b + y) % 3 = 0 /\ (c + z) % 3 = 0
            => ((a + b + c) + (x + y + z)) % 3 = 0
    OBVIOUS
  <2>2. QED
    BY <1>0, <1>1, <1>3, <1>6, <1>7, <2>1 DEF Size
<1>9. 2 * Sums(h).two + 4 * Sums(h).four <= Size(h)
  BY <1>0, <1>1, <1>4, <1>6 DEF Size
<1>10. Size(h) \in Nat /\ Sums(h).w \in Nat /\ Sums(h).four \in Nat /\ Sums(h).two \in Nat
  BY <1>0, <1>1, <1>3, <1>4, <1>6 DEF Size
<1>11. QED
  BY <1>3, <1>6, <1>8, <1>9, <1>10 DEF Size

\* What checkFull takes for full.
Fulfils(h) == Sums(h).w = 1 \/ Sums(h).two + 2 * Sums(h).four = Pairs

LEMMA FullMeans ==
  ASSUME NEW h, NEW p, NEW max
  PROVE  /\ checkFull(h, p, max) # 0 => Empty(h, p.inv) /\ Fulfils(h)
         /\ \A isf : Enough(checkFull(h, p, max), isf) => Fulfils(h)
<1>1. checkFull(h, p, max) # 0 => Empty(h, p.inv) /\ Fulfils(h)
  BY DEF checkFull, Worth, Complete, Fulfils
<1>2. \A isf : Enough(checkFull(h, p, max), isf) => checkFull(h, p, max) # 0
  BY DEF Enough
<1>3. QED
  BY <1>1, <1>2

\* A hand of two tiles waits for no tile.
LEMMA TwoTiles ==
  ASSUME NEW h \in Hand, Size(h) = 2, NEW p, NEW isf
  PROVE  CheckJiao(h, p, isf) = {}
<1>1. SUFFICES ASSUME NEW t \in CheckJiao(h, p, isf) PROVE FALSE
  OBVIOUS
<1> DEFINE x == Put(h, t, 1)
<1>2. t \in Tile /\ Copies(h, t) # 4 /\ Enough(checkFull(x, p, TRUE), isf)
  BY <1>1 DEF CheckJiao
<1>3. h \in Counts /\ Copies(h, t) \in 0 .. 4
  BY <1>2, HandDef
<1>4. x \in Hand /\ Size(x) = 3
  <2>1. x \in Hand
    BY <1>2, <1>3, PutHand
  <2>2. Size(x) = 2 + 1
    BY <1>2, <1>3, PutCounts
  <2>3. QED
    BY <2>1, <2>2
<1> HIDE DEF x
<1>5. Fulfils(x)
  BY <1>2, FullMeans
<1>6. NoFours(x)
  <2>1. ASSUME NEW i \in Suit, NEW r \in Rank PROVE x[i][r] < 4
    <3>1. x[i] \in [Rank -> Nat]
      BY <1>4, SuitOfHand
    <3>2. x[i][r] <= SumLen(x[i]) /\ x[i][r] \in Nat
      BY <3>1, TotalNat DEF SumLen
    <3>3. \A k \in Suit : SumLen(x[k]) \in Nat
      BY <1>4, SuitOfHand
    <3>4. SumLen(x[i]) <= 3
      BY <1>4, <3>3 DEF Size, Suit
    <3>5. QED
      BY <3>2, <3>3, <3>4
  <2>2. QED
    BY <2>1 DEF NoFours, NoFour
<1>7. /\ Sums(x).w \in Nat /\ (Sums(x).w + 3) % 3 = 0
      /\ Sums(x).two \in Nat /\ Sums(x).four \in Nat
      /\ 2 * Sums(x).two + 4 * Sums(x).four <= 3
  BY <1>4, <1>6, SumsOfHand
<1>8. Pairs \in Nat /\ Pairs >= 2
  BY PlayAssumption
<1>9. Sums(x).w # 1
  BY <1>7
<1>10. QED
  BY <1>5, <1>7, <1>8, <1>9 DEF Fulfils

-----------------------------------------------------------------------------
(* What the player answers on its own turn.                                *)

\* What the client holds and has laid down: four of each tile at most.
Holds(h) ==
  /\ h \in Hand
  /\ melds \in [Kind -> {0, 3, 4}]
  /\ \A t \in Tile : Copies(h, t) > 0 => t \in Kind
  /\ \A t \in Kind : Copies(h, t) + melds[t] <= 4

\* A mark stands for a meld on the table.
Marks(d) == d \in Counts /\ \A t \in Tile : Copies(d, t) # 0 => t \in Kind /\ melds[t] # 0

Players == [inv : Suit, down : Counts]

LEMMA KindTiles == Kind \in SUBSET Tile
<1>1. \A k \in Kinds : k \in 0 .. 3 * Ranks - 1
  BY PlayAssumption
<1>2. QED
  BY <1>1, CodeOfTile DEF Kind

\* What SelfSee has after it looked at the first k tiles.
Looked(h, p, cOut, s, k) ==
  /\ s \in [out : Int, now : Hand, p : Players]
  /\ s.p.inv = p.inv
  /\ Marks(s.p.down)
  /\ s.out = cOut \/ (s.out = Kong /\ CanKong(h) # {})
  /\ Size(s.now) >= 2
  /\ \A t \in Tile : /\ Copies(s.now, t) <= Copies(h, t)
                     /\ Code(t) >= k => Copies(s.now, t) = Copies(h, t)

LEMMA LookStep ==
  ASSUME NEW h, Holds(h), NEW p, NEW cOut, NEW isf, NEW s,
         NEW k \in 0 .. 3 * Ranks - 1, Looked(h, p, cOut, s, k)
  PROVE  Looked(h, p, cOut, Look(h, isf, s, TileOf(k)), k + 1)
<1> DEFINE t == TileOf(k)  n == Copies(h, t)  l == Look(h, isf, s, t)
<1>1. t \in Tile /\ Code(t) = k /\ \A u \in Tile : Code(u) \in Int
  BY CodeOfTile
<1>2. /\ s \in [out : Int, now : Hand, p : Players] /\ s.p \in Players /\ s.now \in Hand
      /\ s.p.down \in Counts /\ Size(s.now) >= 2
      /\ \A u \in Tile : Copies(s.now, u) <= Copies(h, u)
      /\ \A u \in Tile : Code(u) >= k => Copies(s.now, u) = Copies(h, u)
  BY DEF Looked, Players
<1> HIDE DEF t
<1>3. n \in 0 .. 4 /\ Copies(s.now, t) = n
  BY <1>1, <1>2, HandDef DEF Holds
<1>4. l = IF s.out = Kong \/ t[1] = s.p.inv \/ n = 0 THEN s
          ELSE IF n = 4 THEN [s EXCEPT !.out = Kong]
          ELSE IF Copies(s.p.down, t) = 0 THEN s
          ELSE IF n > 1 THEN [s EXCEPT !.p.down = Put(@, t, -Copies(@, t))]
          ELSE IF CheckJiao(s.now, s.p, isf) = {} THEN [s EXCEPT !.out = Kong]
          ELSE [s EXCEPT !.now = Put(s.now, t, -1),
                         !.out = IF CheckJiao(Put(s.now, t, -1), s.p, isf) # {} THEN Kong ELSE @]
  BY DEF Look
<1> HIDE DEF l
<1>5. Looked(h, p, cOut, s, k + 1)
  <2>1. \A u \in Tile : Code(u) >= k + 1 => Code(u) >= k
    BY <1>1
  <2>2. QED
    BY <2>1 DEF Looked
<1>6. ASSUME CanKong(h) # {} PROVE Looked(h, p, cOut, [s EXCEPT !.out = Kong], k + 1)
  <2> DEFINE x == [s EXCEPT !.out = Kong]
  <2>1. x \in [out : Int, now : Hand, p : Players] /\ x.p = s.p /\ x.now = s.now /\ x.out = Kong
    BY <1>2 DEF Kong
  <2> HIDE DEF x
  <2>2. QED
    BY <1>5, <1>6, <2>1 DEF Looked, x
<1>7. n = 4 => t \in CanKong(h)
  <2>1. n = 4 => t \in Kind
    BY <1>1 DEF Holds
  <2>2. QED
    BY <2>1 DEF CanKong
<1>8. ASSUME Copies(s.p.down, t) # 0, n # 0 PROVE n = 1 /\ t \in CanKong(h)
  <2>1. t \in Kind /\ melds[t] # 0
    BY <1>1, <1>8 DEF Looked, Marks
  <2>2. melds[t] \in {0, 3, 4} /\ n + melds[t] <= 4
    BY <2>1 DEF Holds
  <2>3. n = 1 /\ melds[t] = 3
    BY <1>3, <1>8, <2>1, <2>2
  <2>4. QED
    BY <2>1, <2>3 DEF CanKong
<1> HIDE DEF n
<1>9. ASSUME NEW o \in {s.out, Kong}, n = 1, CanKong(h) # {}, CheckJiao(s.now, s.p, isf) # {}
      PROVE  Looked(h, p, cOut, [s EXCEPT !.now = Put(s.now, t, -1), !.out = o], k + 1)
  <2> DEFINE less == Put(s.now, t, -1)  x == [s EXCEPT !.now = less, !.out = o]
  <2>1. s.now \in Counts
    BY <1>2, HandDef
  <2>2. /\ Copies(less, t) = Copies(s.now, t) + (-1)
        /\ \A u \in Tile : u # t => Copies(less, u) = Copies(s.now, u)
        /\ Size(less) = Size(s.now) + (-1) /\ Size(s.now) \in Int
    <3>1. -1 \in Int
      OBVIOUS
    <3>2. QED
      BY <1>1, <2>1, <3>1, PutCounts, Zenon
  <2>3. less \in Hand
    BY <1>1, <1>2, <1>3, <1>9, PutHand
  <2>4. Size(s.now) # 2
    BY <1>2, <1>9, TwoTiles
  <2>5. Size(less) >= 2
    BY <1>2, <2>2, <2>4
  <2>6. s.out \in Int /\ Kong \in Int
    BY <1>2 DEF Kong
  <2> HIDE DEF less
  <2>7. x \in [out : Int, now : Hand, p : Players] /\ x.p = s.p /\ x.now = less /\ x.out = o
    BY <1>2, <1>9, <2>3, <2>6
  <2>8. ASSUME NEW u \in Tile
        PROVE  Copies(less, u) <= Copies(h, u) /\ (Code(u) >= k + 1 => Copies(less, u) = Copies(h, u))
    <3>1. CASE u = t
      BY <1>1, <1>3, <2>2, <3>1 DEF n
    <3>2. CASE u # t
      BY <1>1, <1>2, <2>2, <3>2
    <3>3. QED
      BY <3>1, <3>2
  <2> HIDE DEF x
  <2>9. QED
    BY <1>9, <2>5, <2>7, <2>8 DEF Looked, less, x
<1>10. CASE s.out = Kong \/ t[1] = s.p.inv \/ n = 0
  BY <1>4, <1>5, <1>10 DEF t, l
<1>11. CASE ~ (s.out = Kong \/ t[1] = s.p.inv \/ n = 0) /\ n = 4
  BY <1>4, <1>6, <1>7, <1>11 DEF t, l
<1>12. CASE ~ (s.out = Kong \/ t[1] = s.p.inv \/ n = 0) /\ n # 4
  <2>1. CASE Copies(s.p.down, t) = 0
    BY <1>4, <1>5, <1>12, <2>1 DEF t, l
  <2>2. CASE Copies(s.p.down, t) # 0
    <3>1. n = 1 /\ CanKong(h) # {}
      BY <1>8, <1>12, <2>2
    <3>2. CASE CheckJiao(s.now, s.p, isf) = {}
      <4>1. l = [s EXCEPT !.out = Kong]
        BY <1>4, <1>12, <2>2, <3>1, <3>2
      <4>2. QED
        BY <1>6, <3>1, <4>1 DEF t, l
    <3>3. CASE CheckJiao(s.now, s.p, isf) # {}
      <4> DEFINE o == IF CheckJiao(Put(s.now, t, -1), s.p, isf) # {} THEN Kong ELSE s.out
      <4>1. l = [s EXCEPT !.now = Put(s.now, t, -1), !.out = o]
        BY <1>4, <1>12, <2>2, <3>1, <3>3
      <4>2. o \in {s.out, Kong}
        OBVIOUS
      <4> HIDE DEF o
      <4>3. Looked(h, p, cOut, l, k + 1)
        BY <1>9, <3>1, <3>3, <4>1, <4>2
      <4>4. QED
        BY <4>3 DEF t, l
    <3>4. QED
      BY <3>2, <3>3
  <2>3. QED
    BY <2>1, <2>2
<1>13. QED
  BY <1>10, <1>11, <1>12

\* SelfSee calls the win, or has looked at all tiles.
LEMMA SelfSeeEnds ==
  ASSUME NEW h, Holds(h), Size(h) >= 2, NEW p \in Players, Marks(p.down),
         NEW isf, NEW cOut \in Int
  PROVE  \/ Looked(h, p, cOut, SelfSee(h, p, isf, cOut), 3 * Ranks)
         \/ /\ cOut = None /\ checkFull(h, p, TRUE) > 0
            /\ SelfSee(h, p, isf, cOut) = [out |-> Full, now |-> h, p |-> p]
<1> DEFINE start == [out |-> cOut, now |-> h, p |-> p]
           N == 3 * Ranks
           Go(s, t) == Look(h, isf, s, t)
           Eq(f, m) == f = [k \in 0 .. m |-> IF k = 0 THEN start ELSE Go(f[k - 1], TileOf(k - 1))]
           S == {m \in Nat : \E f : Eq(f, m)}
<1> HIDE DEF start, Go
<1>0. N \in Nat
  BY RanksAssumption
<1> HIDE DEF N
<1>1. 0 \in S
  <2> DEFINE f == [k \in 0 .. 0 |-> start]
  <2>1. f = [k \in 0 .. 0 |-> IF k = 0 THEN start ELSE Go(f[k - 1], TileOf(k - 1))]
    OBVIOUS
  <2>2. QED
    BY <2>1
<1>2. ASSUME NEW m \in Nat, m \in S PROVE m + 1 \in S
  <2>1. PICK f : Eq(f, m)
    BY <1>2
  <2> DEFINE g == [k \in 0 .. m + 1 |-> IF k \in 0 .. m THEN f[k] ELSE Go(f[m], TileOf(m))]
  <2>2. ASSUME NEW k \in 0 .. m + 1 PROVE g[k] = IF k = 0 THEN start ELSE Go(g[k - 1], TileOf(k - 1))
    <3>1. CASE k = 0
      BY <2>1, <3>1
    <3>2. CASE k # 0 /\ k <= m
      <4>1. g[k] = f[k] /\ g[k - 1] = f[k - 1]
        BY <3>2
      <4>2. k \in 0 .. m
        BY <3>2
      <4>3. f[k] = IF k = 0 THEN start ELSE Go(f[k - 1], TileOf(k - 1))
        BY <2>1, <4>2, Zenon
      <4>4. QED
        BY <4>1, <4>3, <3>2
    <3>3. CASE k = m + 1
      BY <3>3
    <3>4. QED
      BY <3>1, <3>2, <3>3
  <2>3. Eq(g, m + 1)
    BY <2>2
  <2> HIDE DEF Eq, g
  <2>4. QED
    BY <2>3
<1>3. N \in S
  BY <1>0, <1>1, <1>2, Induct
<1>4. \E f : Eq(f, N)
  BY <1>3
<1> HIDE DEF Eq, S
<1> DEFINE seen == CHOOSE f : Eq(f, N)
<1>5. Eq(seen, N)
  BY <1>4, Zenon
<1>6. SelfSee(h, p, isf, cOut) =
        IF cOut = None /\ checkFull(h, p, TRUE) > 0 THEN [start EXCEPT !.out = Full] ELSE seen[N]
  BY DEF SelfSee, Eq, Go, start, N
<1> HIDE DEF seen
<1> DEFINE L == {k \in Nat : Looked(h, p, cOut, seen[k], k)}
<1>7. 0 \in L
  <2>1. 0 \in 0 .. N
    BY <1>0
  <2>2. seen[0] = start
    BY <1>5, <2>1, Zenon DEF Eq
  <2>3. h \in Hand /\ \A t \in Tile : Copies(h, t) \in 0 .. 4
    BY HandDef DEF Holds
  <2>4. Looked(h, p, cOut, start, 0)
    BY <2>3 DEF Looked, start
  <2>5. QED
    BY <2>2, <2>4
<1>8. ASSUME NEW k \in 0 .. N - 1, k \in L PROVE k + 1 \in L
  <2>1. k + 1 \in 0 .. N /\ k + 1 \in Nat /\ k + 1 # 0 /\ (k + 1) - 1 = k /\ k \in 0 .. 3 * Ranks - 1
    BY <1>0 DEF N
  <2>2. seen[k + 1] = IF k + 1 = 0 THEN start ELSE Go(seen[(k + 1) - 1], TileOf((k + 1) - 1))
    BY <1>5, <2>1, Zenon DEF Eq
  <2>3. seen[k + 1] = Look(h, isf, seen[k], TileOf(k))
    BY <2>1, <2>2 DEF Go
  <2>4. Looked(h, p, cOut, seen[k], k)
    BY <1>8
  <2>5. Looked(h, p, cOut, seen[k + 1], k + 1)
    BY <2>1, <2>3, <2>4, LookStep, Zenon
  <2>6. QED
    BY <2>1, <2>5
<1> HIDE DEF L
<1>9. N \in L
  <2>1. 0 .. N \subseteq L
    BY <1>0, <1>7, <1>8, InductUpto, Zenon
  <2>2. QED
    BY <1>0, <2>1
<1>10. Looked(h, p, cOut, seen[N], N)
  BY <1>9 DEF L
<1>11. [start EXCEPT !.out = Full] = [out |-> Full, now |-> h, p |-> p]
  BY DEF start
<1>12. CASE cOut = None /\ checkFull(h, p, TRUE) > 0
  BY <1>6, <1>11, <1>12
<1>13. CASE ~ (cOut = None /\ checkFull(h, p, TRUE) > 0)
  BY <1>6, <1>10, <1>13 DEF N
<1>14. QED
  BY <1>12, <1>13

\* The first tile of a suit that has some is held.
LEMMA FirstHeld ==
  ASSUME NEW h \in Hand, NEW i \in Suit, ~ Empty(h, i)
  PROVE  First(h, i) \in HeldTiles(h) /\ First(h, i)[1] = i
<1> DEFINE S == {r \in Rank : h[i][r] > 0}
<1>1. h[i] \in [Rank -> Nat] /\ h[i] # NoTile
  BY SuitOfHand DEF Empty
<1>2. S # {} /\ S \in SUBSET Nat /\ S \in SUBSET Rank
  <2>1. S \in SUBSET Rank /\ Rank \in SUBSET Nat
    BY RanksAssumption DEF Rank
  <2>2. ASSUME S = {} PROVE h[i] = NoTile
    <3>1. \A r \in Rank : h[i][r] = 0
      BY <1>1, <2>2
    <3>2. QED
      BY <1>1, <3>1 DEF NoTile
  <2>3. QED
    BY <1>1, <2>1, <2>2
<1>3. \E x \in S : \A y \in S : x <= y
  BY <1>2, LeastMember
<1> HIDE DEF S
<1>4. Min(S) \in S
  BY <1>3, Zenon DEF Min
<1>5. First(h, i) = <<i, Min(S)>>
  BY DEF First, S
<1>6. Min(S) \in Rank /\ h[i][Min(S)] > 0
  BY <1>4 DEF S
<1>7. QED
  BY <1>5, <1>6, HandDef DEF HeldTiles, Copies

\* All tiles Outs chooses from are held.
LEMMA PickHeld ==
  ASSUME NEW sent, NEW h \in Hand, NEW p, NEW isf
  PROVE  Pick(sent, h, p, isf) \subseteq HeldTiles(h)
<1>1. CheckAllJiao(h, p, isf) \subseteq HeldTiles(h)
  BY DEF CheckAllJiao
<1>2. ShortSuit(sent, h, p) \subseteq HeldTiles(h)
  <2>1. SUFFICES ASSUME NEW t \in ShortSuit(sent, h, p) PROVE t \in HeldTiles(h)
    OBVIOUS
  <2>2. PICK i \in Suit : ~ Empty(h, i) /\ t = First(h, i)
    BY DEF ShortSuit
  <2>3. QED
    BY <2>2, FirstHeld
<1>3. EasyOuts(h, h) \subseteq HeldTiles(h)
  BY DEF EasyOuts, Shown, HeldTiles, Copies
<1>4. Grains(h) \subseteq HeldTiles(h)
  <2>1. SUFFICES ASSUME NEW t \in Grains(h) PROVE t \in HeldTiles(h)
    OBVIOUS
  <2>2. PICK i \in Suit : \E g \in Block(h[i]).o : t = <<i, g[1]>>
    BY DEF Grains
  <2>3. PICK g \in Block(h[i]).o : t = <<i, g[1]>>
    BY <2>2
  <2>4. h[i] \in SuitHand /\ h[i] \in [Rank -> Nat]
    BY SuitOfHand
  <2>5. g \in SetWeight(h[i]).o
    BY <2>3, <2>4, BlockIs
  <2>6. g \in Rank \X Nat /\ h[i][g[1]] > 0
    BY <2>4, <2>5, SuitWeight
  <2>7. g[1] \in Rank
    BY <2>6
  <2>8. QED
    BY <2>3, <2>6, <2>7, HandDef DEF HeldTiles, Copies
<1>5. QED
  BY <1>1, <1>2, <1>3, <1>4 DEF Pick

\* Outs answers a win of a hand checkFull takes for full, a fourth tile the
\* client can lay down, or a tile the client holds.
Answers(h, p, s) ==
  \/ s.out = Full /\ Empty(h, p.inv) /\ checkFull(h, p, TRUE) > 0
  \/ s.out = Kong /\ CanKong(h) # {}
  \/ \E t \in HeldTiles(h) : s.out = Code(t) /\ (~ Empty(h, p.inv) => t[1] = p.inv)

LEMMA OutsAnswers ==
  ASSUME NEW h, Holds(h), Size(h) >= 2, NEW p \in Players, Marks(p.down),
         NEW isf, NEW no30, NEW s \in Outs(h, p, isf, no30)
  PROVE  /\ s.p.inv = p.inv /\ Marks(s.p.down) /\ s.now \in Hand
         /\ Answers(h, p, s)
<1> DEFINE first == IF ~ Empty(h, p.inv) THEN Code(First(h, p.inv)) ELSE None
           x == IF no30 THEN SelfSee(h, p, isf, first) ELSE [out |-> first, now |-> h, p |-> p]
<1>0. h \in Hand /\ p.inv \in Suit /\ \A t \in Tile : Copies(h, t) \in 0 .. 4
  BY HandDef DEF Holds, Players
<1>1. s \in IF x.out # None THEN {x} ELSE {[x EXCEPT !.out = k] : k \in Choose(h, x.now, x.p, isf)}
  BY DEF Outs
<1>2. first \in Int /\ (first = None <=> Empty(h, p.inv))
  <2>1. CASE Empty(h, p.inv)
    BY <2>1 DEF None
  <2>2. CASE ~ Empty(h, p.inv)
    <3>1. First(h, p.inv) \in Tile
      BY <1>0, <2>2, FirstHeld DEF HeldTiles
    <3>2. Code(First(h, p.inv)) \in 0 .. 3 * Ranks - 1
      BY <3>1, CodeOfTile
    <3>3. QED
      BY <2>2, <3>2, RanksAssumption DEF None
  <2>3. QED
    BY <2>1, <2>2
<1>3. first # None =>
        \E t \in HeldTiles(h) : first = Code(t) /\ (~ Empty(h, p.inv) => t[1] = p.inv)
  BY <1>0, <1>2, FirstHeld
<1> HIDE DEF first
<1>4. \/ Looked(h, p, first, x, 3 * Ranks)
      \/ /\ first = None /\ checkFull(h, p, TRUE) > 0
         /\ x = [out |-> Full, now |-> h, p |-> p]
  <2>1. CASE no30
    BY <1>2, <2>1, SelfSeeEnds
  <2>2. CASE ~ no30
    <3> DEFINE y == [out |-> first, now |-> h, p |-> p]
    <3>1. Looked(h, p, first, y, 3 * Ranks)
      BY <1>0, <1>2 DEF Looked
    <3>2. QED
      BY <2>2, <3>1
  <2>3. QED
    BY <2>1, <2>2
<1> HIDE DEF x
<1>5. CASE first = None /\ checkFull(h, p, TRUE) > 0 /\ x = [out |-> Full, now |-> h, p |-> p]
  <2>1. x.out = Full /\ x.now = h /\ x.p = p
    BY <1>5
  <2>2. s = x
    BY <1>1, <2>1 DEF Full, None
  <2>3. QED
    BY <1>0, <1>2, <1>5, <2>1, <2>2 DEF Answers
<1>6. CASE Looked(h, p, first, x, 3 * Ranks)
  <2>1. /\ x \in [out : Int, now : Hand, p : Players] /\ x.now \in Hand
        /\ x.p.inv = p.inv /\ Marks(x.p.down) /\ Size(x.now) >= 2
        /\ x.out = first \/ (x.out = Kong /\ CanKong(h) # {})
        /\ \A t \in Tile : Copies(x.now, t) <= Copies(h, t)
    BY <1>6 DEF Looked
  <2>2. CASE x.out # None
    <3>1. s = x
      BY <1>1, <2>2
    <3>2. QED
      BY <1>3, <2>1, <2>2, <3>1 DEF Answers
  <2>3. CASE x.out = None
    <3>1. first = None /\ Empty(h, p.inv)
      BY <1>2, <2>1, <2>3 DEF Kong, None
    <3>2. PICK k \in Choose(h, x.now, x.p, isf) : s = [x EXCEPT !.out = k]
      BY <1>1, <2>3
    <3>3. s.p = x.p /\ s.now = x.now /\ s.out = k
      BY <2>1, <3>2
    <3>4. HeldTiles(x.now) # {}
      BY <2>1, EmptyHand
    <3>5. PICK t \in Pick(h, x.now, x.p, isf) : k = Code(t)
      BY <3>2, <3>4 DEF Choose
    <3>6. t \in HeldTiles(x.now)
      BY <2>1, <3>5, PickHeld
    <3>7. t \in HeldTiles(h)
      <4>1. t \in Tile /\ Copies(x.now, t) > 0
        BY <3>6 DEF HeldTiles
      <4>2. Copies(x.now, t) \in 0 .. 4 /\ Copies(h, t) \in 0 .. 4 /\ Copies(x.now, t) <= Copies(h, t)
        BY <1>0, <2>1, <4>1, HandDef
      <4>3. QED
        BY <4>1, <4>2 DEF HeldTiles
    <3>8. QED
      BY <2>1, <3>1, <3>3, <3>5, <3>7 DEF Answers
  <2>4. QED
    BY <2>2, <2>3
<1>7. QED
  BY <1>4, <1>5, <1>6

-----------------------------------------------------------------------------
(* Wins.                                                                   *)

\* What checkFull takes for full is full, if no tile is held four times.
LEMMA FulfilsFull ==
  ASSUME NEW h \in Hand, NoFours(h), Size(h) <= HandSize, Fulfils(h), Empty(h, lack)
  PROVE  FullHand(h)
<1>0. 0 \in Suit /\ 1 \in Suit /\ 2 \in Suit
  BY DEF Suit
<1>1. /\ Sums(h).len = Size(h) /\ Size(h) \in Nat
      /\ \A i \in Suit : SetWeight(h[i]).w \in Nat
      /\ Sums(h).w = SetWeight(h[0]).w + SetWeight(h[1]).w + SetWeight(h[2]).w
      /\ Sums(h).four = With(h[0], 4) + With(h[1], 4) + With(h[2], 4)
      /\ Sums(h).two = With(h[0], 2) + With(h[1], 2) + With(h[2], 2)
  BY SumsOfHand
<1>2. \A i \in Suit : h[i] \in SuitHand /\ h[i] \in [Rank -> Nat] /\ NoFour(h[i])
  BY SuitOfHand DEF NoFours
<1>3. \A i \in Suit : Shape(h[i]).melds = IsMelds(h[i]) /\ Shape(h[i]).complete = IsComplete(h[i])
  BY <1>2, BlockIs
<1>4. CASE Sums(h).w = 1
  <2> DEFINE w(i) == SetWeight(h[i]).w
  <2>1. \E i \in Suit : w(i) = 1 /\ \A k \in Suit \ {i} : w(k) = 0
    <3> HIDE DEF w
    <3>1. w(0) \in Nat /\ w(1) \in Nat /\ w(2) \in Nat /\ w(0) + w(1) + w(2) = 1
      BY <1>0, <1>1, <1>4 DEF w
    <3>2. \/ w(0) = 1 /\ w(1) = 0 /\ w(2) = 0
          \/ w(1) = 1 /\ w(0) = 0 /\ w(2) = 0
          \/ w(2) = 1 /\ w(0) = 0 /\ w(1) = 0
      BY <3>1
    <3>3. \A k \in Suit : k = 0 \/ k = 1 \/ k = 2
      BY DEF Suit
    <3>4. QED
      BY <1>0, <3>2, <3>3
  <2>2. PICK i \in Suit : w(i) = 1 /\ \A k \in Suit \ {i} : w(k) = 0
    BY <2>1
  <2>3. Shape(h[i]).complete
    BY <1>2, <1>3, <2>2, SuitComplete
  <2>4. \A k \in Suit \ {i} : Shape(h[k]).melds
    BY <1>2, <1>3, <2>2, SuitMelds
  <2>5. QED
    BY <2>3, <2>4 DEF FullHand
<1>5. CASE Sums(h).two + 2 * Sums(h).four = Pairs
  <2>1. Pairs \in Nat /\ HandSize = 2 * Pairs
    BY PlayAssumption
  <2> DEFINE p(i) == 2 * With(h[i], 2) + 4 * With(h[i], 4)  l(i) == SumLen(h[i])
  <2>2. ASSUME NEW i \in Suit
        PROVE  /\ With(h[i], 2) \in Nat /\ With(h[i], 4) \in Nat
               /\ p(i) \in Nat /\ l(i) \in Nat /\ p(i) <= l(i)
               /\ p(i) = l(i) => \A r \in Rank : h[i][r] \in {0, 2, 4}
    BY <1>2, PairsFit
  <2>3. p(0) + p(1) + p(2) = 2 * Pairs
    BY <1>0, <1>1, <1>5, <2>1, <2>2
  <2>4. Size(h) = l(0) + l(1) + l(2)
    BY DEF Size
  <2> HIDE DEF p, l
  <2>5. p(0) = l(0) /\ p(1) = l(1) /\ p(2) = l(2) /\ Size(h) = 2 * Pairs
    <3>1. /\ p(0) \in Nat /\ p(1) \in Nat /\ p(2) \in Nat
          /\ l(0) \in Nat /\ l(1) \in Nat /\ l(2) \in Nat
          /\ p(0) <= l(0) /\ p(1) <= l(1) /\ p(2) <= l(2)
      BY <1>0, <2>2
    <3>2. l(0) + l(1) + l(2) <= p(0) + p(1) + p(2)
      BY <2>1, <2>3, <2>4
    <3>3. p(0) = l(0) /\ p(1) = l(1) /\ p(2) = l(2)
      BY <3>1, <3>2
    <3>4. QED
      BY <2>3, <2>4, <3>3
  <2>6. \A i \in Suit : p(i) = l(i)
    BY <2>5 DEF Suit
  <2>7. ASSUME NEW t \in HeldTiles(h) PROVE Copies(h, t) \in {2, 4}
    <3>1. t \in Tile /\ Copies(h, t) > 0 /\ t[1] \in Suit /\ t[2] \in Rank
      BY HandDef DEF HeldTiles
    <3>2. h[t[1]][t[2]] \in {0, 2, 4}
      BY <2>2, <2>6, <3>1
    <3>3. QED
      BY <3>1, <3>2 DEF Copies
  <2>8. QED
    BY <1>1, <2>5, <2>7 DEF FullHand
<1>6. QED
  BY <1>4, <1>5 DEF Fulfils

\* Tiles are counted suit by suit.
LEMMA TileCount ==
  ASSUME NEW T \in SUBSET Tile
  PROVE  LET of(i) == {r \in Rank : <<i, r>> \in T}
         IN  /\ IsFiniteSet(T) /\ Cardinality(T) \in Nat
             /\ Cardinality(T) = Cardinality(of(0)) + Cardinality(of(1)) + Cardinality(of(2))
<1> DEFINE of(i) == {r \in Rank : <<i, r>> \in T}
           in(i) == {t \in T : t[1] = i}
<1>1. ASSUME NEW i \in Suit
      PROVE  /\ IsFiniteSet(in(i)) /\ Cardinality(in(i)) = Cardinality(of(i))
             /\ Cardinality(in(i)) \in Nat
  <2>1. IsFiniteSet(of(i))
    <3>1. of(i) \in SUBSET Rank
      OBVIOUS
    <3>2. QED
      BY <3>1, CountRanks
  <2> DEFINE f == [r \in of(i) |-> <<i, r>>]
  <2>2. f \in [of(i) -> in(i)]
    OBVIOUS
  <2>3. \A q, r \in of(i) : f[q] = f[r] => q = r
    OBVIOUS
  <2>4. ASSUME NEW t \in in(i) PROVE \E r \in of(i) : f[r] = t
    <3>1. t = <<i, t[2]>> /\ t[2] \in Rank /\ <<i, t[2]>> \in T
      BY <2>4, HandDef
    <3>2. t[2] \in of(i)
      BY <3>1
    <3>3. QED
      BY <3>1, <3>2
  <2>5. f \in Bijection(of(i), in(i))
    BY <2>2, <2>3, <2>4 DEF Bijection, Injection, Surjection, IsInjective
  <2>6. ExistsBijection(of(i), in(i))
    BY <2>5 DEF ExistsBijection
  <2> HIDE DEF of, in
  <2>7. QED
    BY <2>1, <2>6, FS_Bijection, FS_CardinalityType
<1>2. /\ T = (in(0) \cup in(1)) \cup in(2)
      /\ in(0) \cap in(1) = {} /\ (in(0) \cup in(1)) \cap in(2) = {}
  <2>1. \A t \in T : t[1] = 0 \/ t[1] = 1 \/ t[1] = 2
    BY HandDef DEF Suit
  <2>2. QED
    BY <2>1
<1>3. 0 \in Suit /\ 1 \in Suit /\ 2 \in Suit
  BY DEF Suit
<1> HIDE DEF of, in
<1>4. /\ IsFiniteSet(in(0) \cup in(1))
      /\ Cardinality(in(0) \cup in(1)) = Cardinality(in(0)) + Cardinality(in(1)) - 0
  <2>1. Cardinality(in(0) \cap in(1)) = 0
    BY <1>2, FS_EmptySet
  <2>2. IsFiniteSet(in(0)) /\ IsFiniteSet(in(1))
    BY <1>1, <1>3
  <2>3. /\ IsFiniteSet(in(0) \cup in(1))
        /\ Cardinality(in(0) \cup in(1)) =
             Cardinality(in(0)) + Cardinality(in(1)) - Cardinality(in(0) \cap in(1))
    BY <2>2, FS_Union, Zenon
  <2>4. QED
    BY <2>1, <2>3, Zenon
<1>5. /\ IsFiniteSet(T)
      /\ Cardinality(T) = Cardinality(in(0) \cup in(1)) + Cardinality(in(2)) - 0
  <2>1. Cardinality((in(0) \cup in(1)) \cap in(2)) = 0
    BY <1>2, FS_EmptySet
  <2>2. /\ IsFiniteSet((in(0) \cup in(1)) \cup in(2))
        /\ Cardinality((in(0) \cup in(1)) \cup in(2)) =
             Cardinality(in(0) \cup in(1)) + Cardinality(in(2)) - 0
    <3>1. IsFiniteSet(in(2))
      BY <1>1, <1>3
    <3> DEFINE A == in(0) \cup in(1)
    <3>2. IsFiniteSet(A) /\ Cardinality(A \cap in(2)) = 0
      BY <1>4, <2>1
    <3> HIDE DEF A
    <3>3. /\ IsFiniteSet(A \cup in(2))
          /\ Cardinality(A \cup in(2)) = Cardinality(A) + Cardinality(in(2)) - Cardinality(A \cap in(2))
      BY <3>1, <3>2, FS_Union, Zenon
    <3>4. QED
      BY <3>2, <3>3, Zenon DEF A
  <2>3. QED
    BY <1>2, <2>2, Zenon
<1>6. /\ Cardinality(in(0)) \in Nat /\ Cardinality(in(1)) \in Nat /\ Cardinality(in(2)) \in Nat
      /\ Cardinality(in(0)) = Cardinality(of(0)) /\ Cardinality(in(1)) = Cardinality(of(1))
      /\ Cardinality(in(2)) = Cardinality(of(2))
  BY <1>1, <1>3
<1>7. Cardinality(T) = Cardinality(of(0)) + Cardinality(of(1)) + Cardinality(of(2))
  BY <1>4, <1>5, <1>6
<1>8. Cardinality(T) \in Nat
  BY <1>4, <1>5, <1>6
<1>9. QED
  BY <1>5, <1>7, <1>8 DEF of

\* A hand that is no full one with the tile that is offered, because of its
\* size and its pairs, is not taken for one.
LEMMA OfferNotFull ==
  ASSUME NEW h \in Hand, NEW t \in Tile, Size(h) % 3 # 1,
         \A u \in Tile : Copies(h, u) < 3,
         Cardinality({u \in Tile : Copies(h, u) = 2}) < Pairs - 1
  PROVE  ~ Fulfils(Put(h, t, 1))
<1> DEFINE x == Put(h, t, 1)
<1>1. h \in Counts /\ \A u \in Tile : Copies(h, u) \in 0 .. 4
  BY HandDef
<1>2. /\ Copies(x, t) = Copies(h, t) + 1
      /\ \A u \in Tile : u # t => Copies(x, u) = Copies(h, u)
      /\ Size(x) = Size(h) + 1
  BY <1>1, PutCounts
<1>3. x \in Hand
  BY <1>1, PutHand
<1>4. Size(h) \in Nat
  BY EmptyHand
<1> HIDE DEF x
<1>5. \A u \in Tile : Copies(x, u) \in 0 .. 3
  BY <1>1, <1>2
<1>6. ASSUME NEW i \in Suit, NEW r \in Rank PROVE x[i][r] < 4 /\ x[i][r] # 4
  <2>1. <<i, r>> \in Tile
    BY HandDef
  <2>2. Copies(x, <<i, r>>) \in 0 .. 3
    BY <1>5, <2>1
  <2>3. QED
    BY <2>2 DEF Copies
<1>7. NoFours(x)
  BY <1>6 DEF NoFours, NoFour
<1>8. /\ Sums(x).w \in Nat /\ (Sums(x).w + Size(x)) % 3 = 0
      /\ Sums(x).four = With(x[0], 4) + With(x[1], 4) + With(x[2], 4)
      /\ Sums(x).two = With(x[0], 2) + With(x[1], 2) + With(x[2], 2)
  BY <1>3, <1>7, SumsOfHand
<1>9. Sums(x).w # 1
  <2>1. \A n \in Nat : (1 + (n + 1)) % 3 = 0 => n % 3 = 1
    OBVIOUS
  <2>2. QED
    BY <1>2, <1>4, <1>8, <2>1
<1>10. Sums(x).four = 0
  <2>1. ASSUME NEW i \in Suit PROVE With(x[i], 4) = 0
    <3>1. {r \in Rank : x[i][r] = 4} = {}
      BY <1>6
    <3>2. QED
      BY <3>1, FS_EmptySet DEF With
  <2>2. QED
    BY <1>8, <2>1 DEF Suit
<1> DEFINE two(g) == {u \in Tile : Copies(g, u) = 2}
<1>11. Sums(x).two = Cardinality(two(x))
  <2>1. ASSUME NEW i \in Suit PROVE {r \in Rank : <<i, r>> \in two(x)} = {r \in Rank : x[i][r] = 2}
    BY HandDef DEF Copies
  <2>2. two(x) \in SUBSET Tile
    OBVIOUS
  <2> HIDE DEF two
  <2>3. Cardinality(two(x)) = Cardinality({r \in Rank : <<0, r>> \in two(x)})
          + Cardinality({r \in Rank : <<1, r>> \in two(x)})
          + Cardinality({r \in Rank : <<2, r>> \in two(x)})
    BY <2>2, TileCount
  <2>4. 0 \in Suit /\ 1 \in Suit /\ 2 \in Suit
    BY DEF Suit
  <2>5. QED
    BY <1>8, <2>1, <2>3, <2>4, Zenon DEF With
<1>12. Cardinality(two(x)) <= Cardinality(two(h)) + 1 /\ Cardinality(two(x)) \in Nat
       /\ Cardinality(two(h)) \in Nat
  <2>1. two(x) \in SUBSET (two(h) \cup {t})
    BY <1>2
  <2>2. two(h) \in SUBSET Tile /\ two(x) \in SUBSET Tile
    OBVIOUS
  <2> HIDE DEF two
  <2>3. IsFiniteSet(two(h)) /\ Cardinality(two(h)) \in Nat /\ Cardinality(two(x)) \in Nat
    BY <2>2, TileCount
  <2>4. IsFiniteSet(two(h) \cup {t}) /\ Cardinality(two(h) \cup {t}) <= Cardinality(two(h)) + 1
        /\ Cardinality(two(h) \cup {t}) \in Nat
    <3>1. /\ IsFiniteSet(two(h) \cup {t})
          /\ Cardinality(two(h) \cup {t}) =
               IF t \in two(h) THEN Cardinality(two(h)) ELSE Cardinality(two(h)) + 1
      BY <2>3, FS_AddElement, Zenon
    <3>2. QED
      BY <2>3, <3>1
  <2>5. Cardinality(two(x)) <= Cardinality(two(h) \cup {t})
    BY <2>1, <2>4, FS_Subset
  <2>6. QED
    BY <2>3, <2>4, <2>5
<1>13. Pairs \in Nat
  BY PlayAssumption
<1>14. Sums(x).two + 2 * Sums(x).four # Pairs
  BY <1>10, <1>11, <1>12, <1>13
<1>15. QED
  BY <1>9, <1>14 DEF Fulfils, x

\* The other way round, a full hand passes for one, if no suit has its pair in
\* the middle.
LEMMA FullFulfils ==
  ASSUME NEW h \in Hand, NoFours(h), FullHand(h), \A i \in Suit : ~ PairInTheMiddle(h[i])
  PROVE  Fulfils(h)
<1>0. 0 \in Suit /\ 1 \in Suit /\ 2 \in Suit /\ \A k \in Suit : k = 0 \/ k = 1 \/ k = 2
  BY DEF Suit
<1>1. /\ Sums(h).len = Size(h)
      /\ Sums(h).w = SetWeight(h[0]).w + SetWeight(h[1]).w + SetWeight(h[2]).w
      /\ Sums(h).four = With(h[0], 4) + With(h[1], 4) + With(h[2], 4)
      /\ Sums(h).two = With(h[0], 2) + With(h[1], 2) + With(h[2], 2)
  BY SumsOfHand
<1>2. \A i \in Suit : h[i] \in SuitHand /\ h[i] \in [Rank -> Nat] /\ NoFour(h[i])
  BY SuitOfHand DEF NoFours
<1>3. \A i \in Suit : Shape(h[i]).melds = IsMelds(h[i]) /\ Shape(h[i]).complete = IsComplete(h[i])
  BY <1>2, BlockIs
<1>4. CASE \E i \in Suit : Shape(h[i]).complete /\ \A k \in Suit \ {i} : Shape(h[k]).melds
  <2>1. PICK i \in Suit : Shape(h[i]).complete /\ \A k \in Suit \ {i} : Shape(h[k]).melds
    BY <1>4
  <2>2. SetWeight(h[i]).w = 1
    <3>1. IsComplete(h[i])
      BY <1>3, <2>1
    <3>2. QED
      BY <1>2, <3>1, CompleteWeighs
  <2>3. ASSUME NEW k \in Suit \ {i} PROVE SetWeight(h[k]).w = 0
    <3>1. IsMelds(h[k])
      BY <1>3, <2>1
    <3>2. QED
      BY <1>2, <3>1, MeldsWeigh
  <2> DEFINE w(k) == SetWeight(h[k]).w
  <2>4. w(i) = 1 /\ \A k \in Suit \ {i} : w(k) = 0
    BY <2>2, <2>3
  <2>5. Sums(h).w = w(0) + w(1) + w(2)
    BY <1>1
  <2> HIDE DEF w
  <2>6. Sums(h).w = 1
    BY <1>0, <2>4, <2>5
  <2>7. QED
    BY <2>6 DEF Fulfils
<1>5. CASE Sums(h).len = 2 * Pairs /\ \A t \in HeldTiles(h) : Copies(h, t) \in {2, 4}
  <2>1. ASSUME NEW i \in Suit, NEW r \in Rank PROVE h[i][r] \in {0, 2, 4}
    <3>1. <<i, r>> \in Tile /\ Copies(h, <<i, r>>) = h[i][r] /\ h[i][r] \in Nat
      BY <1>2, HandDef DEF Copies
    <3>2. h[i][r] > 0 => <<i, r>> \in HeldTiles(h)
      BY <3>1 DEF HeldTiles
    <3>3. QED
      BY <1>5, <3>1, <3>2
  <2> DEFINE p(i) == 2 * With(h[i], 2) + 4 * With(h[i], 4)  l(i) == SumLen(h[i])
  <2>2. \A i \in Suit : /\ With(h[i], 2) \in Nat /\ With(h[i], 4) \in Nat /\ l(i) \in Nat
                        /\ p(i) = l(i)
    BY <1>2, <2>1, PairsFit
  <2>3. p(0) + p(1) + p(2) = 2 * Pairs
    BY <1>0, <1>1, <1>5, <2>2 DEF Size
  <2>4. Pairs \in Nat
    BY PlayAssumption
  <2>5. QED
    BY <1>0, <1>1, <2>2, <2>3, <2>4 DEF Fulfils
<1>6. QED
  BY <1>4, <1>5 DEF FullHand

\* What passes for a full hand is worth something.
LEMMA FulfilsPays ==
  ASSUME NEW h \in Hand, NEW p, Empty(h, p.inv), Fulfils(h)
  PROVE  checkFull(h, p, TRUE) > 0
<1> DEFINE s == Sums(h)
           dui == s.two + 2 * s.four
           qing == Cardinality({i \in Suit : ~ Empty(h, i) \/ ~ Empty(p.down, i)})
           f == IF qing = 1 \/ dui = Pairs THEN 4 ELSE 1 + s.four
           T == {t \in Tile : Copies(p.down, t) > 2 \/ (Copies(p.down, t) = 2 /\ Copies(h, t) > 0)}
           extra == Cardinality(T)
           v == (IF s.one = 0 /\ dui = 1 THEN 2 * f ELSE f) + extra + 1
<1>1. checkFull(h, p, TRUE) = v
  BY DEF checkFull, Worth, Complete, Fulfils
<1>2. extra \in Nat
  <2>1. T \in SUBSET Tile
    OBVIOUS
  <2> HIDE DEF T
  <2>2. QED
    BY <2>1, TileCount
<1>3. s.four \in Nat
  BY SumsOfHand
<1>4. f \in Nat
  <2> HIDE DEF s, dui, qing
  <2>1. QED
    BY <1>3
<1>5. v > 0
  <2> HIDE DEF f, extra, s, dui
  <2>1. QED
    BY <1>2, <1>4
<1> HIDE DEF v
<1>6. QED
  BY <1>1, <1>5

\* SelfSee looks for the win before anything else.
LEMMA OutsWins ==
  ASSUME NEW h, NEW p, Empty(h, p.inv), checkFull(h, p, TRUE) > 0,
         NEW isf, NEW no30, no30, NEW s \in Outs(h, p, isf, no30)
  PROVE  s.out = Full
<1> DEFINE x == [out |-> Full, now |-> h, p |-> p]
<1>1. SelfSee(h, p, isf, None) = x
  BY DEF SelfSee
<1>2. x.out = Full /\ Full # None
  BY DEF Full, None
<1>3. s \in IF x.out # None THEN {x} ELSE {[x EXCEPT !.out = k] : k \in Choose(h, x.now, x.p, isf)}
  BY <1>1 DEF Outs
<1>4. QED
  BY <1>2, <1>3

-----------------------------------------------------------------------------
(* The game, step by step.                                                 *)

\* Of each tile the client holds and has laid down four at most, and every
\* mark and every tile that is gone stands for a meld.  With the melds, the
\* hand keeps its size: one tile more than a number of triplets, two more when
\* a tile has to go.
PlayInv ==
  /\ Holds(hand) /\ Marks(down) /\ gone \subseteq {t \in Kind : melds[t] # 0}
  /\ lack \in Suit /\ inv \in Suit \cup {None} /\ now \in Hand
  /\ phase \in {"draw", "table", "offered", "claimed", "over"}
  /\ phase # "over" => Size(hand) < HandSize
  /\ phase \in {"draw", "table", "offered"} => Size(hand) % 3 = 1
  /\ phase = "claimed" => Size(hand) % 3 = 2
  /\ phase = "offered" /\ heard # Unseen =>
       heard \in Kind /\ Copies(hand, heard) + melds[heard] < 4 /\ Copies(now, heard) < 4
  /\ AnswerDoable /\ WinRight

\* Some tiles of a kind less.
LEMMA HoldsLess ==
  ASSUME NEW h, Holds(h), NEW t \in Tile, NEW n \in 0 .. Copies(h, t)
  PROVE  LET x == Put(h, t, -n)
         IN  /\ x \in Hand /\ Size(x) = Size(h) - n /\ Size(h) \in Nat /\ Size(x) \in Nat
             /\ Copies(x, t) = Copies(h, t) - n
             /\ \A u \in Tile : u # t => Copies(x, u) = Copies(h, u)
             /\ \A u \in Tile : Copies(x, u) <= Copies(h, u) /\ Copies(x, u) \in 0 .. 4
             /\ \A u \in Tile : Copies(x, u) > 0 => u \in Kind
<1> DEFINE x == Put(h, t, -n)
<1>1. h \in Hand /\ h \in Counts /\ \A u \in Tile : Copies(h, u) \in 0 .. 4
  BY HandDef DEF Holds
<1>2. n \in Int /\ -n \in Int /\ n <= Copies(h, t) /\ n >= 0
  BY <1>1
<1>3. /\ Copies(x, t) = Copies(h, t) + (-n)
      /\ \A u \in Tile : u # t => Copies(x, u) = Copies(h, u)
      /\ Size(x) = Size(h) + (-n)
  BY <1>1, <1>2, PutCounts
<1>4. x \in Hand
  BY <1>1, <1>2, PutHand
<1>5. Size(h) \in Nat /\ Size(x) \in Nat
  BY <1>1, <1>4, EmptyHand
<1> HIDE DEF x
<1>6. ASSUME NEW u \in Tile PROVE Copies(x, u) <= Copies(h, u) /\ Copies(x, u) \in 0 .. 4
  <2>1. CASE u = t
    BY <1>1, <1>2, <1>3, <2>1
  <2>2. CASE u # t
    BY <1>1, <1>3, <2>2
  <2>3. QED
    BY <2>1, <2>2
<1>7. \A u \in Tile : Copies(x, u) > 0 => u \in Kind
  BY <1>1, <1>6 DEF Holds
<1>8. Copies(x, t) = Copies(h, t) - n /\ Size(x) = Size(h) - n
  BY <1>1, <1>2, <1>3, <1>5
<1>9. QED
  BY <1>3, <1>4, <1>5, <1>6, <1>7, <1>8 DEF x

\* The client does what it is told, or gives up.
LEMMA ObeyStep ==
  ASSUME NEW h, Holds(h), Size(h) % 3 = 2, Size(h) <= HandSize, NEW out, Obey(h, out)
  PROVE  /\ Holds(hand)'
         /\ \A t \in Kind : melds[t] # 0 => melds'[t] # 0
         /\ gone' \subseteq {t \in Kind : melds'[t] # 0}
         /\ phase' \in {"draw", "table", "over"}
         /\ phase' # "over" => Size(hand') % 3 = 1 /\ Size(hand') < HandSize
         /\ phase' = "over" => /\ out \notin {Code(t) : t \in HeldTiles(h)}
                               /\ out = Kong => CanKong(h) = {}
<1>0. /\ h \in Hand /\ melds \in [Kind -> {0, 3, 4}]
      /\ \A t \in Tile : Copies(h, t) \in 0 .. 4
      /\ \A t \in Kind : t \in Tile /\ Copies(h, t) + melds[t] <= 4 /\ melds[t] \in {0, 3, 4}
  BY HandDef, KindTiles DEF Holds
<1>1. HandSize \in Nat /\ Size(h) \in Nat
  BY <1>0, EmptyHand, PlayAssumption
<1>2. CASE /\ out \in {Code(t) : t \in HeldTiles(h)} /\ hand' = Put(h, TileOf(out), -1)
           /\ phase' = "table" /\ gone' = {} /\ UNCHANGED melds
  <2>1. PICK t \in HeldTiles(h) : out = Code(t)
    BY <1>2
  <2>2. t \in Tile /\ Copies(h, t) > 0 /\ TileOf(out) = t
    BY <2>1, CodeOfTile DEF HeldTiles
  <2>3. 1 \in 0 .. Copies(h, t)
    BY <1>0, <2>2
  <2>4. /\ hand' \in Hand /\ Size(hand') = Size(h) - 1
        /\ \A u \in Tile : Copies(hand', u) <= Copies(h, u) /\ Copies(hand', u) \in 0 .. 4
        /\ \A u \in Tile : Copies(hand', u) > 0 => u \in Kind
    BY <1>2, <2>2, <2>3, HoldsLess
  <2>5. \A u \in Kind : Copies(hand', u) + melds[u] <= 4
    BY <1>0, <2>4
  <2>6. Holds(hand)'
    BY <1>0, <1>2, <2>4, <2>5 DEF Holds
  <2>7. Size(hand') % 3 = 1 /\ Size(hand') < HandSize
    BY <1>1, <2>4
  <2>8. QED
    BY <1>2, <2>6, <2>7
<1>3. CASE /\ out = Kong /\ phase' = "draw"
           /\ \E t \in CanKong(h) : /\ hand' = Put(h, t, -Copies(h, t))
                                   /\ melds' = [melds EXCEPT ![t] = 4]
                                   /\ gone' = {t}
  <2>1. PICK t \in CanKong(h) : /\ hand' = Put(h, t, -Copies(h, t))
                               /\ melds' = [melds EXCEPT ![t] = 4]
                               /\ gone' = {t}
    BY <1>3
  <2>2. t \in Kind /\ t \in Tile /\ Copies(h, t) \in {1, 4}
    BY <1>0 DEF CanKong
  <2>3. Copies(h, t) \in 0 .. Copies(h, t)
    BY <2>2
  <2>4. /\ hand' \in Hand /\ Size(hand') = Size(h) - Copies(h, t) /\ Size(hand') \in Nat
        /\ Copies(hand', t) = Copies(h, t) - Copies(h, t)
        /\ \A u \in Tile : Copies(hand', u) <= Copies(h, u) /\ Copies(hand', u) \in 0 .. 4
        /\ \A u \in Tile : Copies(hand', u) > 0 => u \in Kind
    BY <2>1, <2>2, <2>3, HoldsLess
  <2>5. /\ melds' \in [Kind -> {0, 3, 4}] /\ melds'[t] = 4
        /\ \A u \in Kind : u # t => melds'[u] = melds[u]
    BY <1>0, <2>1, <2>2
  <2>6. ASSUME NEW u \in Kind PROVE Copies(hand', u) + melds'[u] <= 4
    <3>1. CASE u = t
      BY <2>2, <2>4, <2>5, <3>1
    <3>2. CASE u # t
      BY <1>0, <2>4, <2>5, <3>2
    <3>3. QED
      BY <3>1, <3>2
  <2>7. Holds(hand)'
    BY <2>4, <2>5, <2>6 DEF Holds
  <2>8. Size(hand') % 3 = 1 /\ Size(hand') < HandSize
    <3>1. CASE Copies(h, t) = 1
      BY <1>1, <2>4, <3>1
    <3>2. CASE Copies(h, t) = 4
      BY <1>1, <2>4, <3>2
    <3>3. QED
      BY <2>2, <3>1, <3>2
  <2>9. \A u \in Kind : melds[u] # 0 => melds'[u] # 0
    BY <2>5
  <2>10. QED
    BY <1>3, <2>1, <2>2, <2>5, <2>7, <2>8, <2>9
<1>4. CASE /\ out \notin {Code(t) : t \in HeldTiles(h)} /\ (out = Kong => CanKong(h) = {})
           /\ hand' = h /\ phase' = "over" /\ gone' = {} /\ UNCHANGED melds
  <2>1. Holds(hand)'
    BY <1>4 DEF Holds
  <2>2. QED
    BY <1>4, <2>1
<1>5. QED
  BY <1>2, <1>3, <1>4 DEF Obey

\* Functions 3, 4 and 6.
LEMMA AskStep ==
  ASSUME PlayInv, NEW fn \in {3, 4, 6}, NEW h, Holds(h), Size(h) % 3 = 2, Size(h) <= HandSize,
         NEW isf, Ask(fn, h, isf), UNCHANGED lack
  PROVE  PlayInv'
<1> DEFINE d == IF fn # 3 THEN down
                ELSE [i \in Suit |-> [r \in Rank |-> IF <<i, r>> \in gone THEN 1 ELSE down[i][r]]]
           p == [inv |-> InitNow(h), down |-> d]
<1>0. h \in Hand
  BY DEF Holds
<1>1. PICK s \in Outs(h, p, isf, fn # 6) :
        /\ now' = s.now /\ inv' = s.p.inv /\ down' = s.p.down
        /\ ans' = [fn |-> fn, sent |-> h, keys |-> {}, out |-> s.out]
        /\ Obey(h, s.out)
  BY Zenon DEF Ask
<1>2. InitNow(h) \in Suit
  <2>1. <<0, 1, 2>> \in Orders
    <3> DEFINE o == <<0, 1, 2>>
    <3>1. o \in [1 .. 3 -> Suit] /\ o[1] # o[2] /\ o[1] # o[3] /\ o[2] # o[3]
      BY DEF Suit
    <3> HIDE DEF o
    <3>2. QED
      BY <3>1, OrdersDef DEF o
  <2>2. GetDiscard(h, SortNewBlock(h, <<0, 1, 2>>)) \in Suit
    BY <1>0, <2>1, BestSuit
  <2>3. QED
    BY <2>2 DEF InitNow, PlayInv
<1>3. Marks(d)
  <2>1. Marks(down) /\ \A t \in gone : t \in Kind /\ melds[t] # 0
    BY DEF PlayInv
  <2>2. CASE fn # 3
    BY <2>1, <2>2
  <2>3. CASE fn = 3
    <3>1. d = [i \in Suit |-> [r \in Rank |-> IF <<i, r>> \in gone THEN 1 ELSE down[i][r]]]
      BY <2>3
    <3>2. d \in Counts
      BY <2>1, <3>1 DEF Marks, Counts
    <3>3. ASSUME NEW t \in Tile, Copies(d, t) # 0 PROVE t \in Kind /\ melds[t] # 0
      <4>1. t = <<t[1], t[2]>> /\ t[1] \in Suit /\ t[2] \in Rank
        BY HandDef
      <4>2. Copies(d, t) = IF t \in gone THEN 1 ELSE Copies(down, t)
        BY <3>1, <4>1 DEF Copies
      <4>3. QED
        BY <2>1, <3>3, <4>2 DEF Marks
    <3>4. QED
      BY <3>2, <3>3 DEF Marks
  <2>4. QED
    BY <2>2, <2>3
<1> HIDE DEF d
<1>4. p \in Players /\ p.inv \in Suit /\ p.down = d
  BY <1>2, <1>3 DEF Players, Marks
<1> HIDE DEF p
<1>5. Size(h) >= 2
  <2>1. Size(h) \in Nat
    BY <1>0, EmptyHand
  <2>2. QED
    BY <2>1
<1>6. s.p.inv = p.inv /\ Marks(s.p.down) /\ s.now \in Hand /\ Answers(h, p, s)
  BY <1>1, <1>3, <1>4, <1>5, OutsAnswers
<1>7. /\ Holds(hand)'
      /\ \A t \in Kind : melds[t] # 0 => melds'[t] # 0
      /\ gone' \subseteq {t \in Kind : melds'[t] # 0}
      /\ phase' \in {"draw", "table", "over"}
      /\ phase' # "over" => Size(hand') % 3 = 1 /\ Size(hand') < HandSize
      /\ phase' = "over" => /\ s.out \notin {Code(t) : t \in HeldTiles(h)}
                            /\ s.out = Kong => CanKong(h) = {}
  BY <1>1, ObeyStep
<1>8. Marks(down)'
  BY <1>1, <1>6, <1>7 DEF Marks
<1>9. /\ ans'.fn = fn /\ ans'.sent = h /\ ans'.out = s.out /\ inv' = p.inv
  BY <1>1, <1>6
<1>10. AnswerDoable'
  <2>1. DiscardHeld'
    <3>1. SUFFICES ASSUME s.out \notin {Kong, Full}
                   PROVE  \E t \in HeldTiles(h) : s.out = Code(t) /\ (~ Empty(h, p.inv) => t[1] = p.inv)
      BY <1>9 DEF DiscardHeld
    <3>2. QED
      BY <1>6, <3>1 DEF Answers
  <2>2. KongReal'
    <3>1. SUFFICES ASSUME s.out = Kong, phase' = "over" PROVE FALSE
      BY <1>9 DEF KongReal
    <3>2. QED
      BY <1>6, <1>7, <3>1 DEF Answers, Full, Kong
  <2>3. QED
    BY <2>1, <2>2 DEF AnswerDoable
<1>11. WinReal'
  <2>1. SUFFICES ASSUME s.out = Full, NoFours(h), p.inv = lack PROVE FullHand(h)
    BY <1>9 DEF WinReal, FullHand
  <2>2. \A t \in HeldTiles(h) : Code(t) # Full
    <3>1. \A t \in HeldTiles(h) : Code(t) \in 0 .. 3 * Ranks - 1
      BY CodeOfTile DEF HeldTiles
    <3>2. QED
      BY <3>1, PlayAssumption, RanksAssumption DEF Full
  <2>3. Empty(h, p.inv) /\ checkFull(h, p, TRUE) > 0
    <3>1. Full # Kong
      BY DEF Full, Kong
    <3>2. CASE s.out = Kong /\ CanKong(h) # {}
      BY <2>1, <3>1, <3>2
    <3>3. CASE \E t \in HeldTiles(h) : s.out = Code(t) /\ (~ Empty(h, p.inv) => t[1] = p.inv)
      <4>1. PICK t \in HeldTiles(h) : s.out = Code(t)
        BY <3>3
      <4>2. QED
        BY <2>1, <2>2, <4>1
    <3>4. \/ Empty(h, p.inv) /\ checkFull(h, p, TRUE) > 0
          \/ s.out = Kong /\ CanKong(h) # {}
          \/ \E t \in HeldTiles(h) : s.out = Code(t) /\ (~ Empty(h, p.inv) => t[1] = p.inv)
      BY <1>6, Zenon DEF Answers
    <3>5. QED
      BY <3>2, <3>3, <3>4
  <2>4. Fulfils(h)
    <3>0. \A f : f > 0 => f # 0
      OBVIOUS
    <3>1. checkFull(h, p, TRUE) # 0
      BY <2>3, <3>0, Zenon
    <3>2. QED
      BY <3>1, FullMeans, Zenon
  <2>5. QED
    BY <1>0, <2>1, <2>3, <2>4, FulfilsFull
<1>12. WinTaken'
  <2>1. SUFFICES ASSUME fn \in {3, 4}, NoFours(h), FullHand(h), p.inv = lack,
                        \A i \in Suit : ~ PairInTheMiddle(h[i])
                 PROVE  s.out = Full
    BY <1>9 DEF WinTaken, FullHand
  <2>2. Empty(h, p.inv)
    BY <2>1 DEF FullHand
  <2>3. checkFull(h, p, TRUE) > 0
    BY <1>0, <2>1, <2>2, FullFulfils, FulfilsPays
  <2>4. fn # 6
    BY <2>1
  <2>5. QED
    BY <1>1, <2>2, <2>3, <2>4, OutsWins
<1>13. OfferedWinTaken'
  BY <1>9 DEF OfferedWinTaken
<1>14. QED
  BY <1>1, <1>4, <1>6, <1>7, <1>8, <1>9, <1>10, <1>11, <1>12, <1>13 DEF PlayInv, WinRight

\* Function 5: what SeeOuts answers, and the hand it leaves in `now'.
LEMMA SeeOutsFacts ==
  ASSUME now \in Hand, NEW t \in Tile, Copies(now, t) < 4, NEW keys, NEW isf
  PROVE  LET s == SeeOuts(t, keys, isf)
         IN  /\ s.now \in Hand
             /\ s.out \in 0 .. 3
             /\ s.out = 1 => 1 \in keys
             /\ s.out = 2 => 2 \in keys
             /\ 3 \in keys /\ s.out # 3 => checkFull(Put(now, t, 1), Player, FALSE) # 0
<1> DEFINE more == IF 3 \in keys THEN Put(now, t, 1) ELSE now
           none == Put(more, t, -Copies(more, t))
           f == checkFull(more, Player, FALSE)
           s == SeeOuts(t, keys, isf)
<1>1. more \in Hand
  <2>1. Copies(now, t) \in 0 .. 4
    BY HandDef
  <2>2. Copies(now, t) + 1 \in 0 .. 4
    BY <2>1
  <2>3. QED
    BY <2>2, PutHand
<1>2. 3 \in keys => more = Put(now, t, 1)
  OBVIOUS
<1> HIDE DEF more
<1>3. none \in Hand
  <2>1. Copies(more, t) \in 0 .. 4
    BY <1>1, HandDef
  <2>2. -Copies(more, t) \in Int /\ Copies(more, t) + (-Copies(more, t)) \in 0 .. 4
    BY <2>1
  <2>3. QED
    BY <1>1, <2>2, PutHand
<1>4. s = IF 3 \in keys /\ (f = 0 \/ f >= isf) THEN [out |-> 3, now |-> more]
          ELSE IF 2 \in keys THEN [out |-> 2, now |-> more]
          ELSE IF 1 \notin keys THEN [out |-> 0, now |-> more]
          ELSE IF Copies(more, t) < 2 \/ CheckJiao(more, Player, isf) = {} THEN [out |-> 1, now |-> more]
          ELSE IF CheckAllJiao(none, Player, isf) # {} THEN [out |-> 1, now |-> none]
          ELSE [out |-> 0, now |-> none]
  BY Zenon DEF SeeOuts, more
<1> HIDE DEF none, f, s
<1>5. \/ s = [out |-> 3, now |-> more]
      \/ s = [out |-> 2, now |-> more] /\ 2 \in keys /\ ~ (3 \in keys /\ f = 0)
      \/ s = [out |-> 0, now |-> more] /\ ~ (3 \in keys /\ f = 0)
      \/ s = [out |-> 1, now |-> more] /\ 1 \in keys /\ ~ (3 \in keys /\ f = 0)
      \/ s = [out |-> 1, now |-> none] /\ 1 \in keys /\ ~ (3 \in keys /\ f = 0)
      \/ s = [out |-> 0, now |-> none] /\ ~ (3 \in keys /\ f = 0)
  BY <1>4, Zenon
<1>6. /\ s.now \in Hand /\ s.out \in 0 .. 3
      /\ s.out = 1 => 1 \in keys
      /\ s.out = 2 => 2 \in keys
      /\ 3 \in keys /\ s.out # 3 => f # 0
  BY <1>1, <1>3, <1>5
<1>7. 3 \in keys => f = checkFull(Put(now, t, 1), Player, FALSE)
  BY <1>2, Zenon DEF f
<1>8. QED
  BY <1>6, <1>7 DEF s

LEMMA OfferStep ==
  ASSUME PlayInv, Offer
  PROVE  PlayInv'
<1>1. phase = "offered" /\ heard # Unseen /\ heard' = Unseen /\ UNCHANGED <<lack, inv, down>>
  BY DEF Offer
<1>2. PICK isf \in Isf :
        LET s == SeeOuts(heard, Keys(heard), isf)
        IN  /\ now' = s.now
            /\ ans' = [fn |-> 5, sent |-> now, keys |-> Keys(heard), out |-> s.out]
            /\ hand' = IF s.out \in {1, 2} THEN Put(hand, heard, -1 - s.out) ELSE hand
            /\ melds' = IF s.out \in {1, 2} THEN [melds EXCEPT ![heard] = 2 + s.out] ELSE melds
            /\ gone' = {t \in HeldTiles(hand) : Copies(hand', t) = 0}
            /\ \/ s.out = 0 /\ phase' \in {"table", "draw"}
               \/ s.out = 1 /\ phase' = "claimed"
               \/ s.out = 2 /\ phase' = "draw"
               \/ s.out = 3 /\ phase' = "over"
  BY DEF Offer
<1> DEFINE s == SeeOuts(heard, Keys(heard), isf)
<1>3. /\ now' = s.now
      /\ ans' = [fn |-> 5, sent |-> now, keys |-> Keys(heard), out |-> s.out]
      /\ hand' = IF s.out \in {1, 2} THEN Put(hand, heard, -1 - s.out) ELSE hand
      /\ melds' = IF s.out \in {1, 2} THEN [melds EXCEPT ![heard] = 2 + s.out] ELSE melds
      /\ gone' = {t \in HeldTiles(hand) : Copies(hand', t) = 0}
      /\ \/ s.out = 0 /\ phase' \in {"table", "draw"}
         \/ s.out = 1 /\ phase' = "claimed"
         \/ s.out = 2 /\ phase' = "draw"
         \/ s.out = 3 /\ phase' = "over"
  BY <1>2
<1>4. /\ Holds(hand) /\ Marks(down) /\ now \in Hand /\ lack \in Suit /\ inv \in Suit \cup {None}
      /\ heard \in Kind /\ heard \in Tile /\ Copies(hand, heard) + melds[heard] < 4
      /\ Copies(now, heard) < 4 /\ Size(hand) % 3 = 1 /\ Size(hand) < HandSize
  BY <1>1, KindTiles DEF PlayInv
<1>5. /\ s.now \in Hand /\ s.out \in 0 .. 3
      /\ s.out = 1 => 1 \in Keys(heard)
      /\ s.out = 2 => 2 \in Keys(heard)
      /\ 3 \in Keys(heard) /\ s.out # 3 => checkFull(Put(now, heard, 1), Player, FALSE) # 0
  BY <1>4, SeeOutsFacts
<1> HIDE DEF s
<1>6. /\ hand \in Hand /\ melds \in [Kind -> {0, 3, 4}]
      /\ \A t \in Tile : Copies(hand, t) \in 0 .. 4
      /\ \A t \in Kind : t \in Tile /\ Copies(hand, t) + melds[t] <= 4 /\ melds[t] \in {0, 3, 4}
      /\ Size(hand) \in Nat /\ HandSize \in Nat
  BY <1>4, HandDef, KindTiles, EmptyHand, PlayAssumption DEF Holds
<1>7. /\ Holds(hand)'
      /\ \A t \in Kind : melds[t] # 0 => melds'[t] # 0
      /\ gone' \subseteq {t \in Kind : melds'[t] # 0}
      /\ phase' # "over" => Size(hand') < HandSize
      /\ phase' \in {"draw", "table", "offered"} => Size(hand') % 3 = 1
      /\ phase' = "claimed" => Size(hand') % 3 = 2
  <2>1. CASE s.out \notin {1, 2}
    <3>1. hand' = hand /\ melds' = melds
      BY <1>3, <2>1
    <3>2. Holds(hand)'
      BY <1>4, <3>1 DEF Holds
    <3>3. gone' = {}
      BY <1>3, <1>6, <3>1 DEF HeldTiles
    <3>4. phase' # "claimed"
      BY <1>3, <2>1
    <3>5. QED
      BY <1>4, <3>1, <3>2, <3>3, <3>4
  <2>2. CASE s.out \in {1, 2}
    <3> DEFINE n == 1 + s.out
    <3>1. /\ hand' = Put(hand, heard, -n) /\ melds' = [melds EXCEPT ![heard] = 2 + s.out]
          /\ s.out = 1 => phase' = "claimed"
          /\ s.out = 2 => phase' = "draw"
      <4>1. -1 - s.out = -n
        BY <2>2
      <4>2. QED
        BY <1>3, <2>2, <4>1
    <3>2. Copies(hand, heard) >= n /\ (s.out = 2 => Copies(hand, heard) = 3)
      BY <1>5, <1>6, <2>2 DEF Keys
    <3>3. melds[heard] = 0 /\ Copies(hand, heard) \in 2 .. 3
      BY <1>4, <1>6, <2>2, <3>2
    <3>4. n \in 0 .. Copies(hand, heard)
      BY <2>2, <3>2, <3>3
    <3>5. /\ hand' \in Hand /\ Size(hand') = Size(hand) - n /\ Size(hand') \in Nat
          /\ Copies(hand', heard) = Copies(hand, heard) - n
          /\ \A u \in Tile : u # heard => Copies(hand', u) = Copies(hand, u)
          /\ \A u \in Tile : Copies(hand', u) <= Copies(hand, u) /\ Copies(hand', u) \in 0 .. 4
          /\ \A u \in Tile : Copies(hand', u) > 0 => u \in Kind
      <4> HIDE DEF n
      <4>1. QED
        BY <1>4, <3>1, <3>4, HoldsLess
    <3>6. /\ melds' \in [Kind -> {0, 3, 4}] /\ melds'[heard] = 2 + s.out
          /\ \A u \in Kind : u # heard => melds'[u] = melds[u]
      BY <1>4, <1>6, <2>2, <3>1
    <3>7. ASSUME NEW u \in Kind PROVE Copies(hand', u) + melds'[u] <= 4
      <4>1. CASE u = heard
        BY <2>2, <3>2, <3>3, <3>5, <3>6, <4>1
      <4>2. CASE u # heard
        BY <1>6, <3>5, <3>6, <4>2
      <4>3. QED
        BY <4>1, <4>2
    <3>8. Holds(hand)'
      BY <3>5, <3>6, <3>7 DEF Holds
    <3>9. ASSUME NEW u \in gone' PROVE u \in Kind /\ melds'[u] # 0
      <4>1. u \in HeldTiles(hand) /\ Copies(hand', u) = 0
        BY <1>3, <3>9
      <4>2. u = heard
        BY <3>5, <4>1 DEF HeldTiles
      <4>3. QED
        BY <1>4, <2>2, <3>6, <4>2
    <3>10. CASE s.out = 1
      <4>1. Size(hand') = Size(hand) - 2 /\ phase' = "claimed"
        BY <3>1, <3>5, <3>10
      <4>2. Size(hand') % 3 = 2 /\ Size(hand') < HandSize
        BY <1>4, <1>6, <3>5, <4>1
      <4>3. \A t \in Kind : melds[t] # 0 => melds'[t] # 0
        BY <3>3, <3>6
      <4>4. QED
        BY <3>8, <3>9, <4>1, <4>2, <4>3
    <3>11. CASE s.out = 2
      <4>1. Size(hand') = Size(hand) - 3 /\ phase' = "draw"
        BY <3>1, <3>5, <3>11
      <4>2. Size(hand') % 3 = 1 /\ Size(hand') < HandSize
        BY <1>4, <1>6, <3>5, <4>1
      <4>3. \A t \in Kind : melds[t] # 0 => melds'[t] # 0
        BY <3>3, <3>6
      <4>4. QED
        BY <3>8, <3>9, <4>1, <4>2, <4>3
    <3>12. QED
      BY <2>2, <3>10, <3>11
  <2>3. QED
    BY <2>1, <2>2
<1>8. Marks(down)'
  BY <1>1, <1>4, <1>7 DEF Marks
<1>9. ans'.fn = 5 /\ ans'.sent = now /\ ans'.keys = Keys(heard) /\ ans'.out = s.out
  BY <1>3
<1>10. AnswerDoable' /\ WinReal' /\ WinTaken'
  BY <1>9 DEF AnswerDoable, DiscardHeld, KongReal, WinReal, WinTaken, Asked
<1>11. OfferedWinTaken'
  <2>1. SUFFICES ASSUME 3 \in Keys(heard), Sums(now).len % 3 # 1,
                        \A t \in Tile : Copies(now, t) < 3,
                        Cardinality({t \in Tile : Copies(now, t) = 2}) < Pairs - 1
                 PROVE  s.out = 3
    BY <1>9 DEF OfferedWinTaken
  <2>2. Size(now) % 3 # 1
    BY <1>4, <2>1, SumsOfHand
  <2>3. ~ Fulfils(Put(now, heard, 1))
    BY <1>4, <2>1, <2>2, OfferNotFull
  <2>4. checkFull(Put(now, heard, 1), Player, FALSE) = 0
    BY <2>3, FullMeans, Zenon
  <2>5. QED
    BY <1>5, <2>1, <2>4
<1>12. phase' \in {"draw", "table", "claimed", "over"} /\ phase' # "offered"
  BY <1>3
<1>13. now' \in Hand
  BY <1>3, <1>5
<1>14. QED
  BY <1>1, <1>4, <1>7, <1>8, <1>10, <1>11, <1>12, <1>13 DEF PlayInv, WinRight

LEMMA PlayFirst == Init => PlayInv
<1> SUFFICES ASSUME Init PROVE PlayInv
  OBVIOUS
<1>1. HandSize - 1 \in Nat /\ HandSize \in Nat /\ (HandSize - 1) % 3 = 1
  BY PlayAssumption
<1>2. /\ hand \in Hand /\ Size(hand) = HandSize - 1
      /\ \A t \in Tile : Copies(hand, t) > 0 => t \in Kind
  <2>1. hand \in Deals(HandSize - 1, Kind)
    BY DEF Init
  <2>2. QED
    BY <1>1, <2>1, KindTiles, DealsDef
<1>3. melds \in [Kind -> {0, 3, 4}] /\ \A t \in Kind : melds[t] = 0
  BY DEF Init
<1>4. \A t \in Kind : Copies(hand, t) + melds[t] <= 4
  <2>1. \A t \in Kind : t \in Tile /\ Copies(hand, t) \in 0 .. 4
    BY <1>2, KindTiles, HandDef
  <2>2. QED
    BY <1>3, <2>1
<1>5. Holds(hand)
  BY <1>2, <1>3, <1>4 DEF Holds
<1>6. Marks(down)
  <2>1. down = NoTiles
    BY DEF Init
  <2>2. NoTiles \in Counts /\ \A t \in Tile : Copies(NoTiles, t) = 0
    BY EmptyHand, HandDef
  <2>3. QED
    BY <2>1, <2>2 DEF Marks
<1>7. lack \in Suit
  <2>1. PICK o \in Orders : lack = GetDiscard(hand, SortNewBlock(hand, o))
    BY DEF Init
  <2>2. QED
    BY <1>2, <2>1, BestSuit
<1>8. /\ inv = lack /\ now = hand /\ gone = {} /\ phase \in {"draw", "table"} /\ ans.fn = 2
  BY DEF Init
<1>9. AnswerDoable /\ WinRight
  BY <1>8 DEF AnswerDoable, DiscardHeld, KongReal, WinRight, WinReal, WinTaken, OfferedWinTaken, Asked
<1>10. Size(hand) < HandSize /\ Size(hand) % 3 = 1
  BY <1>1, <1>2
<1>11. QED
  BY <1>2, <1>5, <1>6, <1>7, <1>8, <1>9, <1>10 DEF PlayInv

\* A tile of the game joins the hand.
LEMMA HoldsMore ==
  ASSUME NEW h, Holds(h), NEW t \in Kind, Left(h, t) > 0
  PROVE  /\ Holds(Put(h, t, 1)) /\ Size(Put(h, t, 1)) = Size(h) + 1 /\ Size(h) \in Nat
<1> DEFINE x == Put(h, t, 1)
<1>1. /\ h \in Hand /\ h \in Counts /\ t \in Tile /\ melds \in [Kind -> {0, 3, 4}]
      /\ \A u \in Tile : Copies(h, u) \in 0 .. 4
      /\ \A u \in Kind : u \in Tile /\ Copies(h, u) + melds[u] <= 4 /\ melds[u] \in {0, 3, 4}
      /\ \A u \in Tile : Copies(h, u) > 0 => u \in Kind
  BY HandDef, KindTiles DEF Holds
<1>2. Copies(h, t) + melds[t] < 4 /\ Copies(h, t) + 1 \in 0 .. 4
  <2>1. Copies(h, t) \in 0 .. 4 /\ melds[t] \in {0, 3, 4} /\ 4 - Copies(h, t) - melds[t] > 0
    BY <1>1 DEF Left
  <2>2. QED
    BY <2>1
<1>3. x \in Hand
  BY <1>1, <1>2, PutHand
<1>4. /\ Copies(x, t) = Copies(h, t) + 1 /\ Size(x) = Size(h) + 1
      /\ \A u \in Tile : u # t => Copies(x, u) = Copies(h, u)
  BY <1>1, PutCounts
<1>5. Size(h) \in Nat
  BY <1>1, EmptyHand
<1> HIDE DEF x
<1>6. ASSUME NEW u \in Kind PROVE Copies(x, u) + melds[u] <= 4
  <2>1. CASE u = t
    BY <1>1, <1>2, <1>4, <2>1
  <2>2. CASE u # t
    BY <1>1, <1>4, <2>2
  <2>3. QED
    BY <2>1, <2>2
<1>7. \A u \in Tile : Copies(x, u) > 0 => u \in Kind
  BY <1>1, <1>4
<1>8. Holds(x)
  BY <1>1, <1>3, <1>6, <1>7 DEF Holds
<1>9. QED
  BY <1>4, <1>5, <1>8 DEF x

LEMMA PlayStep == PlayInv /\ [Next]_vars => PlayInv'
<1> SUFFICES ASSUME PlayInv, [Next]_vars PROVE PlayInv'
  OBVIOUS
<1>1. Turns \subseteq {3, 4, 6}
  BY DEF Turns
<1>2. Holds(hand) /\ HandSize \in Nat /\ Size(hand) \in Nat
  <2>1. hand \in Hand
    BY DEF PlayInv, Holds
  <2>2. QED
    BY <2>1, EmptyHand, PlayAssumption DEF PlayInv
<1>3. CASE Draw
  <2>1. Size(hand) < HandSize /\ Size(hand) % 3 = 1 /\ UNCHANGED lack
    BY <1>3 DEF Draw, PlayInv
  <2>2. PICK t \in Kind, fn \in Turns, isf \in Isf :
          Left(hand, t) > 0 /\ Ask(fn, Put(hand, t, 1), isf)
    BY <1>3 DEF Draw
  <2>3. Holds(Put(hand, t, 1)) /\ Size(Put(hand, t, 1)) = Size(hand) + 1
    BY <1>2, <2>2, HoldsMore
  <2>4. Size(Put(hand, t, 1)) % 3 = 2 /\ Size(Put(hand, t, 1)) <= HandSize
    BY <1>2, <2>1, <2>3
  <2>5. fn \in {3, 4, 6}
    BY <1>1
  <2>6. QED
    BY <2>1, <2>2, <2>3, <2>4, <2>5, AskStep
<1>4. CASE Claimed
  <2>1. Size(hand) < HandSize /\ Size(hand) % 3 = 2 /\ UNCHANGED lack
    BY <1>4 DEF Claimed, PlayInv
  <2>2. PICK fn \in Turns, isf \in Isf : Ask(fn, hand, isf)
    BY <1>4 DEF Claimed
  <2>3. fn \in {3, 4, 6} /\ Size(hand) <= HandSize
    BY <1>1, <1>2, <2>1
  <2>4. QED
    BY <1>2, <2>1, <2>2, <2>3, AskStep
<1>5. CASE See
  <2>1. /\ phase = "table" /\ phase' = "offered" /\ ans' = Nil
        /\ heard' \in {t \in Kind : Left(hand, t) > 0 /\ Copies(now, t) < 4}
        /\ UNCHANGED <<hand, melds, lack, inv, now, down, gone>>
    BY <1>5 DEF See
  <2>2. heard' \in Kind /\ Left(hand, heard') > 0 /\ Copies(now, heard') < 4
    BY <2>1
  <2>3. Copies(hand, heard') + melds[heard'] < 4
    <3>1. /\ Copies(hand, heard') \in 0 .. 4 /\ melds[heard'] \in {0, 3, 4}
          /\ 4 - Copies(hand, heard') - melds[heard'] > 0
      BY <1>2, <2>2, HandDef, KindTiles DEF Holds, Left
    <3>2. QED
      BY <3>1
  <2>4. Holds(hand)' /\ Marks(down)'
    BY <2>1 DEF PlayInv, Holds, Marks
  <2>5. AnswerDoable' /\ WinRight'
    BY <2>1 DEF AnswerDoable, DiscardHeld, KongReal, WinRight, WinReal, WinTaken, OfferedWinTaken, Asked, Nil
  <2>6. QED
    BY <2>1, <2>2, <2>3, <2>4, <2>5 DEF PlayInv
<1>6. CASE Pass
  <2>1. /\ phase = "offered" /\ phase' \in {"table", "draw"} /\ heard' = Unseen
        /\ UNCHANGED <<hand, melds, lack, inv, now, down, gone, ans>>
    BY <1>6 DEF Pass
  <2>2. Holds(hand)' /\ Marks(down)'
    BY <2>1 DEF PlayInv, Holds, Marks
  <2>3. DiscardHeld' /\ WinRight'
    BY <2>1 DEF PlayInv, AnswerDoable, DiscardHeld, WinRight, WinReal, WinTaken, OfferedWinTaken, Asked, FullHand
  <2>4. KongReal'
    BY <2>1 DEF KongReal
  <2>5. QED
    BY <2>1, <2>2, <2>3, <2>4 DEF PlayInv, AnswerDoable
<1>7. CASE Offer
  BY <1>7, OfferStep
<1>8. CASE OfferPanics
  <2>1. phase' = "over" /\ ans' = Nil /\ UNCHANGED <<hand, melds, lack, inv, now, down, gone, heard>>
    BY <1>8 DEF OfferPanics
  <2>2. Holds(hand)' /\ Marks(down)'
    BY <2>1 DEF PlayInv, Holds, Marks
  <2>3. AnswerDoable' /\ WinRight'
    BY <2>1 DEF AnswerDoable, DiscardHeld, KongReal, WinRight, WinReal, WinTaken, OfferedWinTaken, Asked, Nil
  <2>4. QED
    BY <2>1, <2>2, <2>3 DEF PlayInv
<1>9. CASE Replaced
  <2>1. /\ inv' = None /\ now' = NoTiles /\ down' = NoTiles /\ heard' = Unseen /\ ans' = Nil
        /\ UNCHANGED <<hand, melds, lack, gone, phase>>
    BY <1>9 DEF Replaced
  <2>2. NoTiles \in Hand /\ NoTiles \in Counts /\ \A t \in Tile : Copies(NoTiles, t) = 0
    BY EmptyHand, HandDef
  <2>3. Marks(down)'
    BY <2>1, <2>2 DEF Marks
  <2>4. Holds(hand)'
    BY <2>1 DEF PlayInv, Holds
  <2>5. AnswerDoable' /\ WinRight'
    BY <2>1 DEF AnswerDoable, DiscardHeld, KongReal, WinRight, WinReal, WinTaken, OfferedWinTaken, Asked, Nil
  <2>6. QED
    BY <2>1, <2>2, <2>3, <2>4, <2>5 DEF PlayInv
<1>10. CASE UNCHANGED vars
  <2>1. UNCHANGED <<hand, melds, lack, inv, now, down, gone, heard, ans, phase>>
    BY <1>10 DEF vars
  <2>2. Holds(hand)' /\ Marks(down)'
    BY <2>1 DEF PlayInv, Holds, Marks
  <2>3. DiscardHeld' /\ KongReal' /\ WinRight'
    BY <2>1 DEF PlayInv, AnswerDoable, DiscardHeld, KongReal, WinRight, WinReal, WinTaken, OfferedWinTaken, Asked, FullHand
  <2>4. QED
    BY <2>1, <2>2, <2>3 DEF PlayInv, AnswerDoable
<1>11. QED
  BY <1>3, <1>4, <1>5, <1>6, <1>7, <1>8, <1>9, <1>10 DEF Next

\* A game after its opening, any number of ranks, tiles and turns, sessions
\* that are replaced and trials that are not undone included: the hand with
\* the tiles laid down has at most four of a kind, the marks in `down' and
\* the tiles sent as gone stand for melds on the table, and the hand has the
\* size its phase asks for (ScmjFuncLib, SetPublicDown, Outs, SeeOuts).
THEOREM PlayInvariant == Spec => []PlayInv
<1>1. Init => PlayInv
  BY PlayFirst
<1>2. PlayInv /\ [Next]_vars => PlayInv'
  BY PlayStep
<1>3. QED
  BY <1>1, <1>2, PTL DEF Spec

\* What the player answers on its own turn can be done: a tile of the hand,
\* of the suit to lose while there is one, or a fourth tile that the hand or
\* a triplet on the table really has (Outs, SelfSee and EasyOuts).
THEOREM AnswerDoableHolds == Spec => []AnswerDoable
<1>1. PlayInv => AnswerDoable
  BY DEF PlayInv
<1>2. QED
  BY <1>1, PlayInvariant, PTL

\* Wins are called when there are some and only then.  A win that Outs calls
\* (checkFull after SetWeight) is one by the rules, of hands without four equal
\* tiles and with the suit the client plays without; of such hands, functions 3
\* and 4 call every full one but the shape the readings miss; and SeeOuts takes
\* an offered win whenever `now' cannot be valued as a full hand with the tile,
\* whatever the win has to be worth.
THEOREM WinRightHolds == Spec => []WinRight
<1>1. PlayInv => WinRight
  BY DEF PlayInv
<1>2. QED
  BY <1>1, PlayInvariant, PTL
=============================================================================
