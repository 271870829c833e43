------------------------- MODULE MahjongBlockProofs -------------------------
(***************************************************************************)
(* What the operators of MahjongBlock compute, for any number of ranks:    *)
(* sums over the ranks, the blocks of a suit and their weight.  Inductions *)
(* are over sets of numbers: a set that has 0 and with a number the next   *)
(* one has all of them.                                                    *)
(***************************************************************************)
EXTENDS MahjongBlock, FiniteSetTheorems, SequenceTheorems, WellFoundedInduction, TLAPS

-----------------------------------------------------------------------------
\* A set of numbers that is not empty has a least member.
LEMMA LeastMember ==
  ASSUME NEW S \in SUBSET Nat, S # {}
  PROVE  \E x \in S : \A y \in S : x <= y
<1>1. PICK x \in S : \A y \in S : ~(<<y, x>> \in OpToRel(<, Nat))
  BY NatLessThanWellFounded, WFMin
<1>2. \A y \in S : x <= y
  <2> SUFFICES ASSUME NEW y \in S, y < x PROVE FALSE
    OBVIOUS
  <2>1. <<y, x>> \in {ss \in Nat \X Nat : ss[1] < ss[2]}
    OBVIOUS
  <2>2. QED
    BY <1>1, <2>1, Zenon DEF OpToRel
<1>3. QED
  BY <1>2

\* Induction: over all numbers, and over the numbers up to n.
LEMMA Induct ==
  ASSUME NEW S, 0 \in S, \A n \in Nat : n \in S => n + 1 \in S
  PROVE  Nat \subseteq S
<1> SUFFICES ASSUME Nat \ S # {} PROVE FALSE
  OBVIOUS
<1>1. PICK x \in Nat \ S : \A y \in Nat \ S : x <= y
  BY LeastMember
<1>2. x # 0 /\ x - 1 \in Nat
  BY <1>1
<1>3. x - 1 \notin Nat \ S
  BY <1>1, <1>2
<1>4. (x - 1) + 1 \in S
  BY <1>2, <1>3
<1>5. QED
  BY <1>1, <1>4

LEMMA InductUpto ==
  ASSUME NEW m \in Nat, NEW S, 0 \in S, \A n \in 0 .. m - 1 : n \in S => n + 1 \in S
  PROVE  0 .. m \subseteq S
<1> DEFINE T == {n \in Nat : n <= m => n \in S}
<1>1. 0 \in T
  OBVIOUS
<1>2. ASSUME NEW n \in Nat, n \in T PROVE n + 1 \in T
  BY <1>2
<1>3. Nat \subseteq T
  BY <1>1, <1>2, Induct
<1>4. QED
  BY <1>3

-----------------------------------------------------------------------------
(* Sums over the ranks.                                                    *)

\* The equation of Upto.
LEMMA UptoDef ==
  ASSUME NEW f
  PROVE  Upto(f) = [n \in 0 .. Ranks |-> IF n = 0 THEN 0 ELSE Upto(f)[n - 1] + f[n - 1]]
<1> DEFINE Eq(u, m) == u = [n \in 0 .. m |-> IF n = 0 THEN 0 ELSE u[n - 1] + f[n - 1]]
           S == {m \in Nat : \E u : Eq(u, m)}
<1>1. 0 \in S
  <2> DEFINE u == [n \in 0 .. 0 |-> 0]
  <2>1. u = [n \in 0 .. 0 |-> IF n = 0 THEN 0 ELSE u[n - 1] + f[n - 1]]
    OBVIOUS
  <2>2. QED
    BY <2>1
<1>2. ASSUME NEW m \in Nat, m \in S PROVE m + 1 \in S
  <2>1. PICK u : Eq(u, m)
    BY <1>2
  <2> DEFINE v == [n \in 0 .. m + 1 |-> IF n \in 0 .. m THEN u[n] ELSE u[m] + f[m]]
  <2>2. ASSUME NEW n \in 0 .. m + 1 PROVE v[n] = IF n = 0 THEN 0 ELSE v[n - 1] + f[n - 1]
    <3>1. CASE n = 0
      BY <2>1, <3>1
    <3>2. CASE n # 0 /\ n <= m
      <4>1. v[n] = u[n] /\ v[n - 1] = u[n - 1]
        BY <3>2
      <4>2. u[n] = u[n - 1] + f[n - 1]
        BY <2>1, <3>2
      <4>3. QED
        BY <4>1, <4>2, <3>2
    <3>3. CASE n = m + 1
      BY <3>3
    <3>4. QED
      BY <3>1, <3>2, <3>3
  <2>3. Eq(v, m + 1)
    BY <2>2
  <2> HIDE DEF Eq, v
  <2>4. m + 1 \in Nat /\ \E w : Eq(w, m + 1)
    BY <2>3
  <2>5. QED
    BY <2>4
<1>3. Ranks \in S
  BY <1>1, <1>2, Induct, RanksAssumption
<1>4. \E u : Eq(u, Ranks)
  BY <1>3
<1> HIDE DEF Eq
<1>5. Eq(CHOOSE u : Eq(u, Ranks), Ranks)
  BY <1>4, Zenon
<1>6. Upto(f) = CHOOSE u : Eq(u, Ranks)
  BY DEF Upto, Eq
<1>7. QED
  BY <1>5, <1>6 DEF Eq

\* What follows from it: the steps of the sums.
LEMMA UptoSteps ==
  ASSUME NEW f \in [Rank -> Int]
  PROVE  /\ Upto(f)[0] = 0
         /\ \A n \in Rank : Upto(f)[n + 1] = Upto(f)[n] + f[n]
         /\ \A n \in 0 .. Ranks : Upto(f)[n] \in Int
         /\ Total(f) \in Int /\ Total(f) = Upto(f)[Ranks]
<1> DEFINE U == Upto(f)
<1>1. U = [n \in 0 .. Ranks |-> IF n = 0 THEN 0 ELSE U[n - 1] + f[n - 1]]
  BY UptoDef
<1> HIDE DEF U
<1>2. U[0] = 0
  BY <1>1, RanksAssumption
<1>3. ASSUME NEW n \in Rank PROVE U[n + 1] = U[n] + f[n]
  BY <1>1, RanksAssumption DEF Rank
<1> DEFINE S == {n \in Nat : U[n] \in Int}
<1>4. 0 .. Ranks \subseteq S
  <2>1. ASSUME NEW n \in 0 .. Ranks - 1, n \in S PROVE n + 1 \in S
    BY <1>3, <2>1, RanksAssumption DEF Rank
  <2>2. 0 \in S
    BY <1>2
  <2> HIDE DEF S
  <2>3. QED
    BY <2>1, <2>2, InductUpto, RanksAssumption
<1>5. \A n \in 0 .. Ranks : U[n] \in Int
  BY <1>4
<1>6. Ranks \in 0 .. Ranks
  BY RanksAssumption
<1>7. QED
  BY <1>2, <1>3, <1>5, <1>6 DEF Total, U

\* Sums are added rank by rank.
LEMMA TotalAdd ==
  ASSUME NEW f \in [Rank -> Int], NEW g \in [Rank -> Int], NEW h \in [Rank -> Int],
         \A r \in Rank : h[r] = f[r] + g[r]
  PROVE  Total(h) = Total(f) + Total(g)
<1> DEFINE S == {n \in Nat : Upto(h)[n] = Upto(f)[n] + Upto(g)[n]}
<1>1. 0 \in S
  BY UptoSteps
<1>2. ASSUME NEW n \in 0 .. Ranks - 1, n \in S PROVE n + 1 \in S
  <2>1. n \in Rank /\ n \in 0 .. Ranks /\ n + 1 \in Nat
    BY RanksAssumption DEF Rank
  <2>2. /\ Upto(f)[n + 1] = Upto(f)[n] + f[n] /\ Upto(f)[n] \in Int
        /\ Upto(g)[n + 1] = Upto(g)[n] + g[n] /\ Upto(g)[n] \in Int
        /\ Upto(h)[n + 1] = Upto(h)[n] + h[n] /\ Upto(h)[n] \in Int
    BY <2>1, UptoSteps
  <2>3. f[n] \in Int /\ g[n] \in Int /\ h[n] = f[n] + g[n]
    BY <2>1
  <2>4. Upto(h)[n] = Upto(f)[n] + Upto(g)[n]
    BY <1>2
  <2>5. Upto(h)[n + 1] = Upto(f)[n + 1] + Upto(g)[n + 1]
    BY <2>2, <2>3, <2>4
  <2>6. QED
    BY <2>1, <2>5
<1> HIDE DEF S
<1>3. Ranks \in S
  <2>1. Ranks \in Nat /\ Ranks \in 0 .. Ranks
    BY RanksAssumption
  <2>2. 0 .. Ranks \subseteq S
    BY <1>1, <1>2, <2>1, InductUpto, Zenon
  <2>3. QED
    BY <2>1, <2>2, Zenon
<1>4. QED
  BY <1>3, UptoSteps DEF S

\* The sums of natural numbers grow.
LEMMA UptoGrows ==
  ASSUME NEW f \in [Rank -> Nat]
  PROVE  /\ \A n \in 0 .. Ranks : Upto(f)[n] \in Nat
         /\ \A m, n \in 0 .. Ranks : m <= n => Upto(f)[m] <= Upto(f)[n]
<1>0. f \in [Rank -> Int]
  OBVIOUS
<1> DEFINE U == Upto(f)
<1>1. U[0] = 0 /\ (\A n \in Rank : U[n + 1] = U[n] + f[n]) /\ \A n \in 0 .. Ranks : U[n] \in Int
  BY <1>0, UptoSteps
<1> HIDE DEF U
<1> DEFINE S == {n \in Nat : U[n] \in Nat /\ \A m \in 0 .. n : U[m] <= U[n]}
<1>2. 0 \in S
  BY <1>1
<1>3. ASSUME NEW n \in 0 .. Ranks - 1, n \in S PROVE n + 1 \in S
  <2>1. n \in Rank /\ n + 1 \in Nat
    BY RanksAssumption DEF Rank
  <2>2. U[n] \in Nat /\ \A m \in 0 .. n : U[m] <= U[n]
    BY <1>3
  <2>3. U[n + 1] = U[n] + f[n] /\ f[n] \in Nat
    BY <1>1, <2>1
  <2>4. U[n + 1] \in Nat /\ U[n] <= U[n + 1]
    BY <2>2, <2>3
  <2>5. ASSUME NEW m \in 0 .. n + 1 PROVE U[m] <= U[n + 1]
    <3>1. CASE m = n + 1
      BY <3>1, <2>4
    <3>2. CASE m \in 0 .. n
      <4>1. U[m] <= U[n] /\ U[m] \in Int
        BY <3>2, <2>2, <1>1, RanksAssumption
      <4>2. QED
        BY <4>1, <2>2, <2>4
    <3>3. QED
      BY <3>1, <3>2, RanksAssumption
  <2>6. QED
    BY <2>1, <2>4, <2>5
<1> HIDE DEF S
<1>4. 0 .. Ranks \subseteq S
  BY <1>2, <1>3, InductUpto, RanksAssumption
<1>5. QED
  BY <1>4 DEF S, U

\* A sum of natural numbers is at least each of them.
LEMMA TotalNat ==
  ASSUME NEW f \in [Rank -> Nat]
  PROVE  /\ Total(f) \in Nat
         /\ \A r \in Rank : f[r] <= Total(f)
         /\ (\A r \in Rank : f[r] = 0) => Total(f) = 0
<1>0. f \in [Rank -> Int]
  OBVIOUS
<1>1. Total(f) = Upto(f)[Ranks] /\ Ranks \in 0 .. Ranks
  BY <1>0, UptoSteps, RanksAssumption
<1>2. Total(f) \in Nat
  BY <1>1, UptoGrows
<1>3. ASSUME NEW r \in Rank PROVE f[r] <= Total(f)
  <2>1. r \in 0 .. Ranks /\ r + 1 \in 0 .. Ranks /\ r + 1 <= Ranks
    BY RanksAssumption DEF Rank
  <2>2. Upto(f)[r + 1] = Upto(f)[r] + f[r]
    BY <1>0, UptoSteps
  <2>3. Upto(f)[r] \in Nat /\ Upto(f)[r + 1] <= Upto(f)[Ranks]
    BY <2>1, <1>1, UptoGrows
  <2>4. QED
    BY <1>1, <1>2, <2>2, <2>3
<1>4. ASSUME \A r \in Rank : f[r] = 0 PROVE Total(f) = 0
  <2>1. \A r \in Rank : f[r] = f[r] + f[r]
    BY <1>4
  <2>2. Total(f) = Total(f) + Total(f)
    BY <1>0, <2>1, TotalAdd
  <2>3. \A x \in Nat : x = x + x => x = 0
    OBVIOUS
  <2>4. QED
    BY <1>2, <2>2, <2>3, Zenon
<1>5. QED
  BY <1>2, <1>3, <1>4

\* A number at one rank only is the sum.
LEMMA TotalSingle ==
  ASSUME NEW f \in [Rank -> Int], NEW r \in Rank, \A q \in Rank \ {r} : f[q] = 0
  PROVE  Total(f) = f[r]
<1> DEFINE S == {n \in Nat : Upto(f)[n] = IF n > r THEN f[r] ELSE 0}
<1>1. 0 \in S
  BY UptoSteps, RanksAssumption DEF Rank
<1>2. ASSUME NEW n \in 0 .. Ranks - 1, n \in S PROVE n + 1 \in S
  <2>1. n \in Rank /\ n + 1 \in Nat /\ r \in Nat /\ f[r] \in Int
    BY RanksAssumption DEF Rank
  <2>2. Upto(f)[n + 1] = Upto(f)[n] + f[n]
    BY <2>1, UptoSteps
  <2>3. Upto(f)[n] = IF n > r THEN f[r] ELSE 0
    BY <1>2
  <2>4. CASE n = r
    BY <2>1, <2>2, <2>3, <2>4
  <2>5. CASE n # r
    <3>1. f[n] = 0
      BY <2>1, <2>5
    <3>2. n + 1 > r <=> n > r
      BY <2>1, <2>5
    <3>3. Upto(f)[n + 1] = IF n + 1 > r THEN f[r] ELSE 0
      BY <2>1, <2>2, <2>3, <3>1, <3>2
    <3>4. QED
      BY <2>1, <3>3
  <2>6. QED
    BY <2>4, <2>5, Zenon
<1> HIDE DEF S
<1>3. Ranks \in S
  <2>1. Ranks \in Nat /\ Ranks \in 0 .. Ranks
    BY RanksAssumption
  <2>2. 0 .. Ranks \subseteq S
    BY <1>1, <1>2, <2>1, InductUpto, Zenon
  <2>3. QED
    BY <2>1, <2>2, Zenon
<1>4. Ranks > r
  BY RanksAssumption DEF Rank
<1>5. QED
  BY <1>3, <1>4, UptoSteps DEF S

\* One number is changed.
LEMMA TotalChange ==
  ASSUME NEW f \in [Rank -> Int], NEW r \in Rank, NEW d \in Int
  PROVE  Total([f EXCEPT ![r] = @ + d]) = Total(f) + d
<1> DEFINE g == [q \in Rank |-> IF q = r THEN d ELSE 0]
           h == [f EXCEPT ![r] = @ + d]
<1>1. g \in [Rank -> Int] /\ h \in [Rank -> Int] /\ \A q \in Rank : h[q] = f[q] + g[q]
  OBVIOUS
<1>2. g[r] = d /\ \A q \in Rank \ {r} : g[q] = 0
  OBVIOUS
<1> HIDE DEF g, h
<1>3. Total(g) = d
  BY <1>1, <1>2, TotalSingle
<1>4. Total(h) = Total(f) + Total(g)
  BY <1>1, TotalAdd
<1>5. QED
  BY <1>3, <1>4 DEF h

\* A sum of multiples of three is one.
LEMMA TotalThree ==
  ASSUME NEW f \in [Rank -> Nat], \A r \in Rank : f[r] % 3 = 0
  PROVE  Total(f) % 3 = 0
<1>0. f \in [Rank -> Int]
  OBVIOUS
<1> DEFINE S == {n \in Nat : Upto(f)[n] % 3 = 0}
<1>1. 0 \in S
  BY <1>0, UptoSteps
<1>2. ASSUME NEW n \in 0 .. Ranks - 1, n \in S PROVE n + 1 \in S
  <2>1. n \in Rank /\ n + 1 \in Nat /\ n \in 0 .. Ranks
    BY RanksAssumption DEF Rank
  <2>2. Upto(f)[n + 1] = Upto(f)[n] + f[n] /\ Upto(f)[n] \in Nat
    BY <1>0, <2>1, UptoSteps, UptoGrows
  <2>3. Upto(f)[n] % 3 = 0 /\ f[n] % 3 = 0 /\ f[n] \in Nat
    BY <1>2, <2>1
  <2>4. Upto(f)[n + 1] % 3 = 0
    BY <2>2, <2>3
  <2>5. QED
    BY <2>1, <2>4
<1> HIDE DEF S
<1>3. Ranks \in S
  <2>1. Ranks \in Nat /\ Ranks \in 0 .. Ranks
    BY RanksAssumption
  <2>2. 0 .. Ranks \subseteq S
    BY <1>1, <1>2, <2>1, InductUpto, Zenon
  <2>3. QED
    BY <2>1, <2>2, Zenon
<1>4. QED
  BY <1>0, <1>3, UptoSteps DEF S

-----------------------------------------------------------------------------
(* Readings of a block.                                                    *)

\* A function can be defined by recursion over what a measure makes smaller.
Recursive(S, W, m, G) ==
  /\ W # {} /\ m \in [S -> Nat] /\ G \in [S \X [S -> W] -> W]
  /\ \A x \in S, f, g \in [S -> W] :
       (\A y \in S : m[y] < m[x] => f[y] = g[y]) => G[<<x, f>>] = G[<<x, g>>]

LEMMA Recursion ==
  ASSUME NEW S, NEW W, NEW m, NEW G, Recursive(S, W, m, G)
  PROVE  \E f \in [S -> W] : \A x \in S : f[x] = G[<<x, f>>]
<1> USE DEF Recursive
<1> DEFINE App(k) == {f \in [S -> W] : \A x \in S : m[x] < k => f[x] = G[<<x, f>>]}
<1>1. ASSUME NEW k \in Nat, NEW l \in Nat, k <= l PROVE App(l) \subseteq App(k)
  <2>1. ASSUME NEW x \in S, m[x] < k PROVE m[x] < l
    BY <1>1, <2>1
  <2>2. QED
    BY <2>1, Zenon
<1>2. \A k \in Nat : App(k) # {}
  <2> DEFINE K == {k \in Nat : App(k) # {}}
  <2>1. 0 \in K
    <3>1. PICK w \in W : TRUE
      OBVIOUS
    <3>2. [x \in S |-> w] \in App(0)
      OBVIOUS
    <3>3. QED
      BY <3>2
  <2>2. ASSUME NEW k \in Nat, k \in K PROVE k + 1 \in K
    <3>1. PICK f \in [S -> W] : \A x \in S : m[x] < k => f[x] = G[<<x, f>>]
      BY <2>2
    <3> DEFINE g == [x \in S |-> G[<<x, f>>]]
    <3>2. g \in [S -> W]
      OBVIOUS
    <3>3. ASSUME NEW x \in S, m[x] < k + 1 PROVE g[x] = G[<<x, g>>]
      <4>1. ASSUME NEW y \in S, m[y] < m[x] PROVE f[y] = g[y]
        <5>1. m[y] < k
          BY <3>3, <4>1
        <5>2. QED
          BY <3>1, <5>1
      <4>2. G[<<x, f>>] = G[<<x, g>>]
        BY <3>2, <4>1
      <4>3. QED
        BY <4>2
    <3>4. g \in App(k + 1)
      BY <3>2, <3>3
    <3> HIDE DEF App
    <3>5. k + 1 \in Nat /\ App(k + 1) # {}
      BY <3>4
    <3>6. QED
      BY <3>5
  <2> HIDE DEF K
  <2>3. Nat \subseteq K
    BY <2>1, <2>2, Induct
  <2>4. QED
    BY <2>3 DEF K
<1>3. \A k \in Nat : \A f, g \in App(k) : \A x \in S : m[x] < k => f[x] = g[x]
  <2> DEFINE U == {k \in Nat : \A f, g \in App(k) : \A x \in S : m[x] < k => f[x] = g[x]}
  <2>1. 0 \in U
    OBVIOUS
  <2>2. ASSUME NEW k \in Nat, k \in U PROVE k + 1 \in U
    <3>1. ASSUME NEW f \in App(k + 1), NEW g \in App(k + 1), NEW x \in S, m[x] < k + 1
          PROVE  f[x] = g[x]
      <4>1. f \in App(k) /\ g \in App(k)
        BY <1>1
      <4>2. \A y \in S : m[y] < m[x] => f[y] = g[y]
        <5>1. ASSUME NEW y \in S, m[y] < m[x] PROVE m[y] < k
          BY <3>1, <5>1
        <5>2. QED
          BY <2>2, <4>1, <5>1
      <4>3. f \in [S -> W] /\ g \in [S -> W]
        OBVIOUS
      <4>4. G[<<x, f>>] = G[<<x, g>>]
        BY <4>2, <4>3
      <4>5. f[x] = G[<<x, f>>] /\ g[x] = G[<<x, g>>]
        BY <3>1
      <4>6. QED
        BY <4>4, <4>5
    <3> HIDE DEF App
    <3>2. k + 1 \in Nat
      OBVIOUS
    <3>3. QED
      BY <3>1, <3>2, Zenon
  <2> HIDE DEF U
  <2>3. Nat \subseteq U
    BY <2>1, <2>2, Induct
  <2>4. QED
    BY <2>3 DEF U
<1> DEFINE a(k) == CHOOSE f : f \in App(k)
           h == [x \in S |-> a(m[x] + 1)[x]]
<1>4. \A k \in Nat : a(k) \in App(k)
  BY <1>2, Zenon
<1>5. \A x \in S : m[x] + 1 \in Nat /\ m[x] < m[x] + 1
  OBVIOUS
<1> HIDE DEF a
<1>6. h \in [S -> W]
  BY <1>4, <1>5
<1>7. ASSUME NEW x \in S PROVE h[x] = G[<<x, h>>]
  <2> DEFINE f == a(m[x] + 1)
  <2>1. f \in [S -> W] /\ f \in App(m[x] + 1)
    BY <1>4, <1>5
  <2>2. f[x] = G[<<x, f>>]
    BY <2>1, <1>5
  <2>3. ASSUME NEW y \in S, m[y] < m[x] PROVE f[y] = h[y]
    <3>1. m[y] + 1 \in Nat /\ m[y] + 1 <= m[x] + 1 /\ m[y] < m[y] + 1 /\ m[x] + 1 \in Nat
      BY <2>3
    <3>2. f \in App(m[y] + 1)
      BY <1>1, <2>1, <3>1
    <3>3. a(m[y] + 1) \in App(m[y] + 1)
      BY <1>4, <3>1
    <3> HIDE DEF App, f
    <3>4. f[y] = a(m[y] + 1)[y]
      BY <1>3, <3>1, <3>2, <3>3, Zenon
    <3>5. QED
      BY <3>4
  <2>4. G[<<x, f>>] = G[<<x, h>>]
    BY <1>6, <2>1, <2>3
  <2>5. QED
    BY <2>2, <2>4
<1>8. QED
  BY <1>6, <1>7

\* What a reading is.
LEMMA ReadingDef ==
  ASSUME NEW n, NEW b
  PROVE  <<n, b>> \in Readings <=>
           /\ n \in [Rank -> Nat] /\ b \in Seq(Rank) /\ Adjacent(b)
           /\ \A k \in 1 .. Len(b) : n[b[k]] > 0
<1>1. b \in Seq(Rank) => DOMAIN b = 1 .. Len(b)
  OBVIOUS
<1>2. QED
  BY <1>1 DEF Readings

\* The ranks of a block differ.
LEMMA AdjacentDiffer ==
  ASSUME NEW b \in Seq(Rank), Adjacent(b)
  PROVE  \A i, j \in 1 .. Len(b) : b[i] = b[j] => i = j
<1> SUFFICES ASSUME NEW i \in 1 .. Len(b), NEW j \in 1 .. Len(b), b[i] = b[j] PROVE i = j
  OBVIOUS
<1>1. DOMAIN b = 1 .. Len(b) /\ Len(b) \in Nat /\ 1 \in 1 .. Len(b)
  OBVIOUS
<1>2. b[1] \in Int /\ b[i] \in Int /\ b[j] \in Int
  BY <1>1, RanksAssumption DEF Rank
<1>3. CASE \A k \in DOMAIN b : b[k] = b[1] + (k - 1)
  <2>1. b[1] + (i - 1) = b[1] + (j - 1)
    BY <1>1, <1>3
  <2>2. \A x, y, z \in Int : x + (y - 1) = x + (z - 1) => y = z
    OBVIOUS
  <2>3. i \in Int /\ j \in Int
    OBVIOUS
  <2>4. QED
    BY <1>2, <2>1, <2>2, <2>3, Zenon
<1>4. CASE \A k \in DOMAIN b : b[k] = b[1] - (k - 1)
  <2>1. b[1] - (i - 1) = b[1] - (j - 1)
    BY <1>1, <1>4
  <2>2. \A x, y, z \in Int : x - (y - 1) = x - (z - 1) => y = z
    OBVIOUS
  <2>3. i \in Int /\ j \in Int
    OBVIOUS
  <2>4. QED
    BY <1>2, <2>1, <2>2, <2>3, Zenon
<1>5. QED
  BY <1>3, <1>4 DEF Adjacent

\* Ranks of a block and of what is left of it.
LEMMA ShiftedUp ==
  \A u, k, x, y, z \in Int :
    x = z + ((u + k) - 1) /\ y = z + ((u + 1) - 1) => x = y + (k - 1)
  OBVIOUS

LEMMA ShiftedDown ==
  \A u, k, x, y, z \in Int :
    x = z - ((u + k) - 1) /\ y = z - ((u + 1) - 1) => x = y - (k - 1)
  OBVIOUS

\* What is left of a block without its first ranks is a block.
LEMMA AdjacentRest ==
  ASSUME NEW b \in Seq(Rank), Adjacent(b), NEW u \in 0 .. Len(b)
  PROVE  LET c == SubSeq(b, u + 1, Len(b))
         IN  /\ c \in Seq(Rank) /\ Adjacent(c) /\ Len(c) = Len(b) - u
             /\ \A k \in 1 .. Len(b) - u : c[k] = b[u + k]
<1> DEFINE c == SubSeq(b, u + 1, Len(b))
<1>1. DOMAIN b = 1 .. Len(b) /\ Len(b) \in Nat
  OBVIOUS
<1>2. c \in Seq(Rank) /\ Len(c) = Len(b) - u /\ \A k \in 1 .. Len(b) - u : c[k] = b[u + k]
  <2>1. u + 1 \in Int /\ Len(b) \in Int /\ u \in Nat /\ u <= Len(b)
    BY <1>1
  <2>2. ASSUME NEW k \in u + 1 .. Len(b) PROVE b[k] \in Rank
    <3>1. k \in 1 .. Len(b)
      BY <2>1
    <3>2. QED
      BY <3>1
  <2>3. /\ c \in Seq(Rank) /\ Len(c) = IF u + 1 <= Len(b) THEN Len(b) - (u + 1) + 1 ELSE 0
        /\ \A k \in 1 .. Len(b) - (u + 1) + 1 : c[k] = b[(u + 1) + k - 1]
    BY <2>1, <2>2, SubSeqProperties
  <2>4. Len(b) - (u + 1) + 1 = Len(b) - u /\ (~(u + 1 <= Len(b)) => Len(b) - u = 0)
    BY <2>1
  <2>5. \A k \in Int : (u + 1) + k - 1 = u + k
    BY <2>1
  <2> HIDE DEF c
  <2>6. Len(c) = Len(b) - u
    BY <2>3, <2>4, Zenon
  <2>7. ASSUME NEW k \in 1 .. Len(b) - u PROVE c[k] = b[u + k]
    <3>1. c[k] = b[(u + 1) + k - 1]
      BY <2>3, <2>4, Zenon
    <3>2. k \in Int
      OBVIOUS
    <3>3. QED
      BY <2>5, <3>1, <3>2, Zenon
  <2>8. QED
    BY <2>3, <2>6, <2>7
<1> HIDE DEF c
<1>3. DOMAIN c = 1 .. Len(b) - u
  BY <1>2
<1>4. \A k \in 1 .. Len(b) : b[k] \in Int
  BY RanksAssumption DEF Rank
<1>7. Adjacent(c)
  <2>1. CASE \A k \in DOMAIN b : b[k] = b[1] + (k - 1)
    <3>1. ASSUME NEW k \in DOMAIN c PROVE c[k] = c[1] + (k - 1)
      <4>1. u + k \in 1 .. Len(b) /\ u + 1 \in 1 .. Len(b) /\ 1 \in 1 .. Len(b) /\ k \in Int
        BY <1>1, <1>3
      <4>2. c[k] = b[u + k] /\ c[1] = b[u + 1]
        BY <1>2, <1>3, <4>1
      <4>3. b[u + k] = b[1] + ((u + k) - 1) /\ b[u + 1] = b[1] + ((u + 1) - 1)
        BY <1>1, <2>1, <4>1, Zenon
      <4>4. b[u + k] \in Int /\ b[u + 1] \in Int /\ b[1] \in Int /\ u \in Int
        BY <1>4, <4>1
      <4>5. \A x, y, z \in Int : x = z + ((u + k) - 1) /\ y = z + ((u + 1) - 1) => x = y + (k - 1)
        BY <4>1, <4>4, ShiftedUp, Zenon
      <4>6. b[u + k] = b[u + 1] + (k - 1)
        BY <4>3, <4>4, <4>5
      <4>7. QED
        BY <4>2, <4>6, Zenon
    <3>2. QED
      BY <3>1 DEF Adjacent
  <2>2. CASE \A k \in DOMAIN b : b[k] = b[1] - (k - 1)
    <3>1. ASSUME NEW k \in DOMAIN c PROVE c[k] = c[1] - (k - 1)
      <4>1. u + k \in 1 .. Len(b) /\ u + 1 \in 1 .. Len(b) /\ 1 \in 1 .. Len(b) /\ k \in Int
        BY <1>1, <1>3
      <4>2. c[k] = b[u + k] /\ c[1] = b[u + 1]
        BY <1>2, <1>3, <4>1
      <4>3. b[u + k] = b[1] - ((u + k) - 1) /\ b[u + 1] = b[1] - ((u + 1) - 1)
        BY <1>1, <2>2, <4>1, Zenon
      <4>4. b[u + k] \in Int /\ b[u + 1] \in Int /\ b[1] \in Int /\ u \in Int
        BY <1>4, <4>1
      <4>5. \A x, y, z \in Int : x = z - ((u + k) - 1) /\ y = z - ((u + 1) - 1) => x = y - (k - 1)
        BY <4>1, <4>4, ShiftedDown, Zenon
      <4>6. b[u + k] = b[u + 1] - (k - 1)
        BY <4>3, <4>4, <4>5
      <4>7. QED
        BY <4>2, <4>6, Zenon
    <3>2. QED
      BY <3>1 DEF Adjacent
  <2>3. QED
    BY <2>1, <2>2 DEF Adjacent
<1>8. QED
  BY <1>2, <1>7 DEF c

\* A block read from its other end is a block.
LEMMA AdjacentReverse ==
  ASSUME NEW b \in Seq(Rank), Adjacent(b)
  PROVE  /\ Reverse(b) \in Seq(Rank) /\ Adjacent(Reverse(b)) /\ Len(Reverse(b)) = Len(b)
         /\ \A k \in 1 .. Len(b) : Reverse(b)[k] = b[Len(b) - k + 1]
         /\ ToSet(Reverse(b)) = ToSet(b)
<1> DEFINE c == Reverse(b)
<1>1. DOMAIN b = 1 .. Len(b) /\ Len(b) \in Nat
  OBVIOUS
<1>2. c = [k \in 1 .. Len(b) |-> b[(Len(b) - k) + 1]]
  BY DEF Reverse
<1> HIDE DEF c
<1>3. \A k \in 1 .. Len(b) : Len(b) - k + 1 \in 1 .. Len(b) /\ Len(b) - (Len(b) - k + 1) + 1 = k
  BY <1>1
<1>4. c \in Seq(Rank) /\ Len(c) = Len(b) /\ DOMAIN c = 1 .. Len(b)
  BY <1>1, <1>2, <1>3
<1>5. \A k \in 1 .. Len(b) : c[k] = b[Len(b) - k + 1]
  BY <1>2
<1>6. ToSet(c) = ToSet(b)
  <2>1. \A k \in 1 .. Len(b) : b[k] = c[Len(b) - k + 1]
    BY <1>3, <1>5
  <2>2. \A k \in 1 .. Len(b) : c[k] \in ToSet(b) /\ b[k] \in ToSet(c)
    BY <1>1, <1>3, <1>4, <1>5, <2>1 DEF ToSet
  <2>3. QED
    BY <1>1, <1>4, <2>2 DEF ToSet
<1>7. \A k \in 1 .. Len(b) : b[k] \in Int
  BY RanksAssumption DEF Rank
<1>10. Adjacent(c)
  <2>1. CASE \A k \in DOMAIN b : b[k] = b[1] + (k - 1)
    <3>1. ASSUME NEW k \in DOMAIN c PROVE c[k] = c[1] - (k - 1)
      <4>1. k \in 1 .. Len(b) /\ Len(b) - k + 1 \in 1 .. Len(b) /\ 1 \in 1 .. Len(b) /\ k \in Int
            /\ Len(b) \in 1 .. Len(b) /\ Len(b) - 1 + 1 = Len(b)
        BY <1>1, <1>4, <1>3
      <4>2. c[k] = b[Len(b) - k + 1] /\ c[1] = b[Len(b)]
        BY <1>5, <4>1
      <4>3. b[Len(b) - k + 1] = b[1] + (Len(b) - k + 1 - 1) /\ b[Len(b)] = b[1] + (Len(b) - 1)
        BY <1>1, <2>1, <4>1
      <4>4. QED
        BY <1>1, <1>7, <4>1, <4>2, <4>3
    <3>2. QED
      BY <3>1 DEF Adjacent
  <2>2. CASE \A k \in DOMAIN b : b[k] = b[1] - (k - 1)
    <3>1. ASSUME NEW k \in DOMAIN c PROVE c[k] = c[1] + (k - 1)
      <4>1. k \in 1 .. Len(b) /\ Len(b) - k + 1 \in 1 .. Len(b) /\ 1 \in 1 .. Len(b) /\ k \in Int
            /\ Len(b) \in 1 .. Len(b) /\ Len(b) - 1 + 1 = Len(b)
        BY <1>1, <1>4, <1>3
      <4>2. c[k] = b[Len(b) - k + 1] /\ c[1] = b[Len(b)]
        BY <1>5, <4>1
      <4>3. b[Len(b) - k + 1] = b[1] - (Len(b) - k + 1 - 1) /\ b[Len(b)] = b[1] - (Len(b) - 1)
        BY <1>1, <2>2, <4>1
      <4>4. QED
        BY <1>1, <1>7, <4>1, <4>2, <4>3
    <3>2. QED
      BY <3>1 DEF Adjacent
  <2>3. QED
    BY <2>1, <2>2 DEF Adjacent
<1>11. QED
  BY <1>4, <1>5, <1>6, <1>10 DEF c

\* A sequence takes a tile of each of the three first ranks.
LEMMA LessFacts ==
  ASSUME NEW n, NEW b, <<n, b>> \in Readings, Len(b) >= 3
  PROVE  /\ Less(n, b) \in [Rank -> Nat]
         /\ \A i \in 1 .. 3 : b[i] \in Rank /\ Less(n, b)[b[i]] = n[b[i]] - 1
         /\ \A i \in 1 .. Len(b) : i > 3 => Less(n, b)[b[i]] = n[b[i]]
         /\ \A r \in Rank : Less(n, b)[r] <= n[r]
         /\ Total(Less(n, b)) = Total(n) - 3
<1> DEFINE l == Less(n, b)
           a1 == [n EXCEPT ![b[1]] = @ + (-1)]
           a2 == [a1 EXCEPT ![b[2]] = @ + (-1)]
           a3 == [a2 EXCEPT ![b[3]] = @ + (-1)]
<1>1. n \in [Rank -> Nat] /\ b \in Seq(Rank) /\ Adjacent(b) /\ Len(b) \in Nat
      /\ \A k \in 1 .. Len(b) : n[b[k]] > 0
  BY ReadingDef
<1>2. \A i, j \in 1 .. Len(b) : b[i] = b[j] => i = j
  BY <1>1, AdjacentDiffer
<1>3. 1 \in 1 .. Len(b) /\ 2 \in 1 .. Len(b) /\ 3 \in 1 .. Len(b)
  BY <1>1
<1>4. b[1] \in Rank /\ b[2] \in Rank /\ b[3] \in Rank
  BY <1>1, <1>3
<1>5. b[1] # b[2] /\ b[1] # b[3] /\ b[2] # b[3]
  BY <1>2, <1>3
<1>6. n[b[1]] > 0 /\ n[b[2]] > 0 /\ n[b[3]] > 0
  BY <1>1, <1>3
<1>7. l = [r \in Rank |-> IF r \in {b[1], b[2], b[3]} THEN n[r] - 1 ELSE n[r]]
  BY DEF Less
<1>8. ASSUME NEW i \in 1 .. Len(b), i > 3 PROVE l[b[i]] = n[b[i]]
  <2>1. b[i] # b[1] /\ b[i] # b[2] /\ b[i] # b[3]
    BY <1>2, <1>3, <1>8
  <2>2. b[i] \in Rank
    BY <1>1
  <2>3. QED
    BY <1>7, <2>1, <2>2
<1>9. l \in [Rank -> Nat] /\ \A r \in Rank : l[r] <= n[r]
  <2>1. ASSUME NEW r \in Rank PROVE l[r] \in Nat /\ l[r] <= n[r]
    <3>1. n[r] \in Nat
      BY <1>1
    <3>2. CASE r \in {b[1], b[2], b[3]}
      <4>1. l[r] = n[r] - 1 /\ n[r] > 0
        BY <1>6, <1>7, <3>2
      <4>2. QED
        BY <3>1, <4>1
    <3>3. CASE r \notin {b[1], b[2], b[3]}
      BY <1>7, <3>1, <3>3
    <3>4. QED
      BY <3>2, <3>3
  <2>2. QED
    BY <1>7, <2>1
<1>10. l[b[1]] = n[b[1]] - 1 /\ l[b[2]] = n[b[2]] - 1 /\ l[b[3]] = n[b[3]] - 1
  BY <1>4, <1>7
<1>11. Total(l) = Total(n) - 3
  <2>1. n \in [Rank -> Int] /\ -1 \in Int
    BY <1>1
  <2>2. a1 \in [Rank -> Int] /\ a2 \in [Rank -> Int] /\ a3 \in [Rank -> Int]
    <3>1. \A f \in [Rank -> Int], r \in Rank : [f EXCEPT ![r] = @ + (-1)] \in [Rank -> Int]
      OBVIOUS
    <3>2. a1 \in [Rank -> Int]
      BY <1>4, <2>1, <3>1, Zenon
    <3> HIDE DEF a1
    <3>3. a2 \in [Rank -> Int]
      BY <1>4, <3>2, <3>1, Zenon
    <3> HIDE DEF a2
    <3>4. a3 \in [Rank -> Int]
      BY <1>4, <3>3, <3>1, Zenon
    <3>5. QED
      BY <3>2, <3>3, <3>4
  <2>3. a3 = l
    <3>1. ASSUME NEW r \in Rank PROVE a3[r] = l[r]
      <4>1. n[r] \in Int /\ n[r] + (-1) = n[r] - 1
        BY <2>1
      <4>2. l[r] = IF r \in {b[1], b[2], b[3]} THEN n[r] + (-1) ELSE n[r]
        BY <1>7, <4>1, Zenon
      <4>3. a3[r] = IF r = b[3] THEN a2[r] + (-1) ELSE a2[r]
        BY <1>4, <2>2
      <4>4. a2[r] = IF r = b[2] THEN a1[r] + (-1) ELSE a1[r]
        BY <1>4, <2>2
      <4>5. a1[r] = IF r = b[1] THEN n[r] + (-1) ELSE n[r]
        BY <1>4, <2>1
      <4> HIDE DEF a1, a2, a3, l
      <4>6. QED
        BY <1>5, <4>2, <4>3, <4>4, <4>5, Zenon
    <3>2. l \in [Rank -> Int]
      BY <1>9
    <3> HIDE DEF a1, a2, a3, l
    <3>3. QED
      BY <2>2, <3>1, <3>2
  <2>4. Total(a1) = Total(n) + (-1)
    BY <1>4, <2>1, TotalChange
  <2> HIDE DEF a1
  <2>5. Total(a2) = Total(a1) + (-1)
    BY <1>4, <2>1, <2>2, TotalChange
  <2> HIDE DEF a2
  <2>6. Total(a3) = Total(a2) + (-1)
    BY <1>4, <2>1, <2>2, TotalChange
  <2>7. Total(n) \in Int
    BY <2>1, UptoSteps
  <2> HIDE DEF a3, l
  <2>8. QED
    BY <2>3, <2>4, <2>5, <2>6, <2>7
<1> HIDE DEF l
<1>12. \A i \in 1 .. 3 : b[i] \in Rank /\ l[b[i]] = n[b[i]] - 1
  <2>1. \A i \in 1 .. 3 : i = 1 \/ i = 2 \/ i = 3
    OBVIOUS
  <2>2. QED
    BY <1>4, <1>10, <2>1
<1>13. QED
  BY <1>8, <1>9, <1>11, <1>12 DEF l

\* UsedUp is the last of the three ranks that the sequence uses up, or 0.
LEMMA UsedUpFacts ==
  ASSUME NEW n, NEW b, <<n, b>> \in Readings, Len(b) >= 3
  PROVE  /\ UsedUp(n, b) \in 0 .. 3
         /\ \A k \in 1 .. 3 : k > UsedUp(n, b) => Less(n, b)[b[k]] # 0
         /\ UsedUp(n, b) > 0 => Less(n, b)[b[UsedUp(n, b)]] = 0
<1> DEFINE Z(k) == Less(n, b)[b[k]] = 0
           D == {i \in 1 .. 3 : \E k \in i .. 3 : Z(k)}
<1>1. UsedUp(n, b) = Cardinality(D)
  BY DEF UsedUp
<1> SUFFICES \E u \in 0 .. 3 : /\ Cardinality(D) = u
                               /\ \A k \in 1 .. 3 : k > u => ~ Z(k)
                               /\ u > 0 => Z(u)
  BY <1>1
<1> HIDE DEF Z
<1>2. ASSUME NEW u \in 0 .. 3 PROVE Cardinality(1 .. u) = u
  <2>1. u \in Int /\ 1 \in Int /\ u - 1 + 1 = u /\ (1 > u => u = 0)
    OBVIOUS
  <2>2. Cardinality(1 .. u) = IF 1 > u THEN 0 ELSE u - 1 + 1
    BY <2>1, FS_Interval
  <2>3. QED
    BY <2>1, <2>2, Zenon
<1>0. Cardinality(1 .. 0) = 0 /\ Cardinality(1 .. 1) = 1 /\ Cardinality(1 .. 2) = 2 /\ Cardinality(1 .. 3) = 3
  <2>1. 0 \in 0 .. 3 /\ 1 \in 0 .. 3 /\ 2 \in 0 .. 3 /\ 3 \in 0 .. 3
    OBVIOUS
  <2>2. QED
    BY <1>2, <2>1, Zenon
<1>3. CASE Z(3)
  <2>1. D = 1 .. 3
    BY <1>3
  <2>2. Cardinality(D) = 3
    BY <1>0, <2>1, Zenon
  <2> HIDE DEF D
  <2>3. 3 \in 0 .. 3 /\ \A k \in 1 .. 3 : ~(k > 3)
    OBVIOUS
  <2>4. QED
    BY <1>3, <2>2, <2>3, Zenon
<1>4. CASE ~ Z(3) /\ Z(2)
  <2>1. D = 1 .. 2
    <3>1. 1 \in D /\ 2 \in D
      BY <1>4
    <3>2. 3 \notin D
      BY <1>4
    <3>3. D \subseteq 1 .. 3 /\ \A i \in 1 .. 3 : i = 3 \/ i \in 1 .. 2
      OBVIOUS
    <3>4. 1 .. 2 \subseteq D
      <4>1. \A i \in 1 .. 2 : i = 1 \/ i = 2
        OBVIOUS
      <4>2. QED
        BY <3>1, <4>1
    <3> HIDE DEF D
    <3>5. QED
      BY <3>2, <3>3, <3>4
  <2>2. Cardinality(D) = 2
    BY <1>0, <2>1, Zenon
  <2> HIDE DEF D
  <2>3. 2 \in 0 .. 3 /\ \A k \in 1 .. 3 : k > 2 => k = 3
    OBVIOUS
  <2>4. QED
    BY <1>4, <2>2, <2>3, Zenon
<1>5. CASE ~ Z(3) /\ ~ Z(2) /\ Z(1)
  <2>1. D = 1 .. 1
    <3>1. 1 \in D
      BY <1>5
    <3>2. 3 \notin D /\ 2 \notin D
      <4>1. \A k \in 2 .. 3 : k = 2 \/ k = 3
        OBVIOUS
      <4>2. QED
        BY <1>5, <4>1
    <3>3. D \subseteq 1 .. 3 /\ (\A i \in 1 .. 3 : i = 3 \/ i = 2 \/ i = 1) /\ 1 .. 1 = {1}
      OBVIOUS
    <3> HIDE DEF D
    <3>4. QED
      BY <3>1, <3>2, <3>3
  <2>2. Cardinality(D) = 1
    BY <1>0, <2>1, Zenon
  <2> HIDE DEF D
  <2>3. 1 \in 0 .. 3 /\ \A k \in 1 .. 3 : k > 1 => k = 3 \/ k = 2
    OBVIOUS
  <2>4. QED
    BY <1>5, <2>2, <2>3, Zenon
<1>6. CASE ~ Z(3) /\ ~ Z(2) /\ ~ Z(1)
  <2>0. \A k \in 1 .. 3 : k = 3 \/ k = 2 \/ k = 1
    OBVIOUS
  <2>1. \A k \in 1 .. 3 : ~ Z(k)
    BY <1>6, <2>0
  <2>2. D = 1 .. 0
    BY <2>1
  <2>3. Cardinality(D) = 0
    BY <1>0, <2>2, Zenon
  <2> HIDE DEF D
  <2>4. 0 \in 0 .. 3 /\ ~(0 > 0)
    OBVIOUS
  <2>5. QED
    BY <2>1, <2>3, <2>4, Zenon
<1>7. QED
  BY <1>3, <1>4, <1>5, <1>6


\* What is read after a triplet, and after a sequence.
LEMMA TailReading ==
  ASSUME NEW n, NEW b, <<n, b>> \in Readings, Len(b) >= 3
  PROVE  /\ <<n, Tail(b)>> \in Readings /\ Len(Tail(b)) = Len(b) - 1
         /\ \A k \in 1 .. Len(b) - 1 : Tail(b)[k] = b[k + 1]
<1>1. n \in [Rank -> Nat] /\ b \in Seq(Rank) /\ Adjacent(b) /\ Len(b) \in Nat
      /\ \A k \in 1 .. Len(b) : n[b[k]] > 0
  BY ReadingDef
<1>2. b # <<>> /\ 1 \in 0 .. Len(b)
  BY <1>1
<1> DEFINE c == SubSeq(b, 1 + 1, Len(b))
<1>3. Tail(b) = SubSeq(b, 2, Len(b)) /\ 1 + 1 = 2
  BY <1>1, <1>2, TailIsSubSeq
<1>4. Tail(b) = c
  BY <1>3, Zenon
<1>5. c \in Seq(Rank) /\ Adjacent(c) /\ Len(c) = Len(b) - 1 /\ \A k \in 1 .. Len(b) - 1 : c[k] = b[1 + k]
  BY <1>1, <1>2, AdjacentRest, Zenon
<1> HIDE DEF c
<1>6. ASSUME NEW k \in 1 .. Len(b) - 1 PROVE c[k] = b[k + 1] /\ n[c[k]] > 0
  <2>1. k + 1 \in 1 .. Len(b) /\ 1 + k = k + 1
    BY <1>1
  <2>2. QED
    BY <1>1, <1>5, <2>1
<1>7. <<n, c>> \in Readings
  BY <1>1, <1>5, <1>6, ReadingDef
<1>8. QED
  BY <1>4, <1>5, <1>6, <1>7

LEMMA RestReading ==
  ASSUME NEW n, NEW b, <<n, b>> \in Readings, Len(b) >= 3
  PROVE  /\ <<Less(n, b), Rest(n, b)>> \in Readings
         /\ <<Less(n, b), Reverse(Rest(n, b))>> \in Readings
         /\ Len(Rest(n, b)) = Len(b) - UsedUp(n, b)
         /\ Len(Reverse(Rest(n, b))) = Len(b) - UsedUp(n, b)
         /\ ToSet(Reverse(Rest(n, b))) = ToSet(Rest(n, b))
         /\ \A k \in 1 .. Len(b) - UsedUp(n, b) : Rest(n, b)[k] = b[UsedUp(n, b) + k]
<1> DEFINE l == Less(n, b)
           u == UsedUp(n, b)
           c == Rest(n, b)
<1>1. n \in [Rank -> Nat] /\ b \in Seq(Rank) /\ Adjacent(b) /\ Len(b) \in Nat
      /\ \A k \in 1 .. Len(b) : n[b[k]] > 0
  BY ReadingDef
<1>2. u \in 0 .. 3 /\ (\A k \in 1 .. 3 : k > u => l[b[k]] # 0)
  BY UsedUpFacts
<1>3. l \in [Rank -> Nat] /\ \A k \in 1 .. Len(b) : k > 3 => l[b[k]] = n[b[k]]
  BY LessFacts
<1>4. c = SubSeq(b, u + 1, Len(b))
  BY DEF Rest
<1> HIDE DEF l, u, c
<1>5. u \in 0 .. Len(b)
  BY <1>1, <1>2
<1>6. c \in Seq(Rank) /\ Adjacent(c) /\ Len(c) = Len(b) - u /\ \A k \in 1 .. Len(b) - u : c[k] = b[u + k]
  BY <1>1, <1>4, <1>5, AdjacentRest, Zenon
<1>7. ASSUME NEW k \in 1 .. Len(c) PROVE l[c[k]] > 0
  <2>1. u + k \in 1 .. Len(b) /\ u + k > u /\ k \in 1 .. Len(b) - u
    BY <1>1, <1>5, <1>6
  <2>2. c[k] = b[u + k] /\ b[u + k] \in Rank
    BY <1>1, <1>6, <2>1
  <2>3. l[b[u + k]] # 0
    <3>1. CASE u + k > 3
      <4>1. l[b[u + k]] = n[b[u + k]] /\ n[b[u + k]] > 0
        BY <1>1, <1>3, <2>1, <3>1
      <4>2. QED
        BY <4>1
    <3>2. CASE ~(u + k > 3)
      <4>1. u + k \in 1 .. 3
        BY <2>1, <3>2
      <4>2. QED
        BY <1>2, <2>1, <4>1, Zenon
    <3>3. QED
      BY <3>1, <3>2
  <2>4. l[b[u + k]] \in Nat
    BY <1>3, <2>2
  <2>5. QED
    BY <2>2, <2>3, <2>4
<1>8. <<l, c>> \in Readings
  BY <1>3, <1>6, <1>7, ReadingDef
<1> DEFINE v == Reverse(c)
<1>9. v \in Seq(Rank) /\ Adjacent(v) /\ Len(v) = Len(c) /\ ToSet(v) = ToSet(c)
      /\ \A k \in 1 .. Len(c) : v[k] = c[Len(c) - k + 1]
  BY <1>6, AdjacentReverse
<1> HIDE DEF v
<1>10. ASSUME NEW k \in 1 .. Len(v) PROVE l[v[k]] > 0
  <2>1. k \in 1 .. Len(c) /\ Len(c) - k + 1 \in 1 .. Len(c)
    BY <1>6, <1>9
  <2>2. QED
    BY <1>7, <1>9, <2>1
<1>11. <<l, v>> \in Readings
  BY <1>3, <1>9, <1>10, ReadingDef
<1>12. QED
  BY <1>6, <1>8, <1>9, <1>11 DEF l, u, c, v

\* The size of a reading, which every step makes smaller.
Measure == [x \in Readings |-> Total(x[1]) + Len(x[2])]

LEMMA MeasureType == Measure \in [Readings -> Nat]
<1>1. ASSUME NEW x \in Readings PROVE Total(x[1]) + Len(x[2]) \in Nat
  <2>1. x[1] \in [Rank -> Nat] /\ x[2] \in Seq(Rank)
    BY DEF Readings
  <2>2. Total(x[1]) \in Nat /\ Len(x[2]) \in Nat
    BY <2>1, TotalNat
  <2>3. QED
    BY <2>2
<1>2. QED
  BY <1>1 DEF Measure

LEMMA MeasureSmaller ==
  ASSUME NEW n, NEW b, <<n, b>> \in Readings
  PROVE  /\ Measure \in [Readings -> Nat]
         /\ Len(b) >= 3 =>
              /\ Measure[<<n, Tail(b)>>] < Measure[<<n, b>>]
              /\ Measure[<<Less(n, b), Rest(n, b)>>] < Measure[<<n, b>>]
              /\ Measure[<<Less(n, b), Reverse(Rest(n, b))>>] < Measure[<<n, b>>]
<1>1. ASSUME NEW m, NEW c, <<m, c>> \in Readings
      PROVE  Measure[<<m, c>>] = Total(m) + Len(c) /\ Total(m) \in Nat /\ Len(c) \in Nat
  <2>1. m \in [Rank -> Nat] /\ c \in Seq(Rank)
    BY <1>1, ReadingDef
  <2>2. QED
    BY <1>1, <2>1, TotalNat DEF Measure
<1>2. Measure \in [Readings -> Nat]
  BY MeasureType
<1>3. ASSUME Len(b) >= 3
      PROVE  /\ Measure[<<n, Tail(b)>>] < Measure[<<n, b>>]
             /\ Measure[<<Less(n, b), Rest(n, b)>>] < Measure[<<n, b>>]
             /\ Measure[<<Less(n, b), Reverse(Rest(n, b))>>] < Measure[<<n, b>>]
  <2>1. <<n, Tail(b)>> \in Readings /\ Len(Tail(b)) = Len(b) - 1
    BY <1>3, TailReading
  <2>2. /\ <<Less(n, b), Rest(n, b)>> \in Readings
        /\ <<Less(n, b), Reverse(Rest(n, b))>> \in Readings
        /\ Len(Rest(n, b)) = Len(b) - UsedUp(n, b)
        /\ Len(Reverse(Rest(n, b))) = Len(b) - UsedUp(n, b)
    BY <1>3, RestReading
  <2>3. UsedUp(n, b) \in 0 .. 3 /\ Total(Less(n, b)) = Total(n) - 3
    BY <1>3, UsedUpFacts, LessFacts
  <2>4. Measure[<<n, b>>] = Total(n) + Len(b) /\ Total(n) \in Nat /\ Len(b) \in Nat
    BY <1>1
  <2>5. Measure[<<n, Tail(b)>>] = Total(n) + Len(Tail(b))
    BY <1>1, <2>1
  <2>6. Measure[<<Less(n, b), Rest(n, b)>>] = Total(Less(n, b)) + Len(Rest(n, b))
    BY <1>1, <2>2
  <2>7. Measure[<<Less(n, b), Reverse(Rest(n, b))>>] = Total(Less(n, b)) + Len(Reverse(Rest(n, b)))
    BY <1>1, <2>2
  <2>8. Measure[<<n, Tail(b)>>] < Measure[<<n, b>>]
    <3>1. \A t, len \in Nat : t + (len - 1) < t + len
      OBVIOUS
    <3>2. QED
      BY <2>1, <2>4, <2>5, <3>1, Zenon
  <2>9. \A t, len, u \in Nat : (t - 3) + (len - u) < t + len
    OBVIOUS
  <2>10. (Total(n) - 3) + (Len(b) - UsedUp(n, b)) < Total(n) + Len(b)
    BY <2>3, <2>4, <2>9
  <2>11. QED
    BY <2>2, <2>3, <2>4, <2>6, <2>7, <2>8, <2>10, Zenon
<1>4. QED
  BY <1>2, <1>3


-----------------------------------------------------------------------------
(* The weight of a block.                                                  *)
Weights == [w : Nat, o : SUBSET (Rank \X Nat)]

LEMMA LooseType ==
  ASSUME NEW n \in [Rank -> Nat], NEW rs \in SUBSET Rank
  PROVE  /\ Loose(n, rs) \in Weights
         /\ Loose(n, rs).w = Total([r \in Rank |-> IF r \in rs /\ n[r] < 3 THEN 3 - n[r] ELSE 0])
         /\ Loose(n, rs).o = {<<r, n[r]>> : r \in {q \in rs : n[q] < 3}}
<1> DEFINE short == {r \in rs : n[r] < 3}
           f == [r \in Rank |-> IF r \in rs /\ n[r] < 3 THEN 3 - n[r] ELSE 0]
           g == [r \in Rank |-> IF r \in short THEN [q \in Rank |-> 3 - n[q]][r] ELSE 0]
<1>1. g = f
  OBVIOUS
<1>2. f \in [Rank -> Nat]
  OBVIOUS
<1>3. Total(f) \in Nat
  BY <1>2, TotalNat
<1>4. {<<r, n[r]>> : r \in short} \in SUBSET (Rank \X Nat)
  OBVIOUS
<1>5. Loose(n, rs) = [w |-> Total(g), o |-> {<<r, n[r]>> : r \in short}]
  BY DEF Loose, SumOf
<1> HIDE DEF f, g, short
<1>6. QED
  BY <1>1, <1>3, <1>4, <1>5 DEF Weights, f, short

LEMMA BothType ==
  ASSUME NEW x \in Weights, NEW y \in Weights
  PROVE  Both(x, y) \in Weights /\ Both(x, y).w = x.w + y.w /\ Both(x, y).o = x.o \cup y.o
BY DEF Both, Weights

LEMMA CheaperType ==
  ASSUME NEW x \in Weights, NEW y \in Weights
  PROVE  /\ Cheaper(x, y) \in Weights
         /\ Cheaper(x, y).o \subseteq x.o \cup y.o
         /\ Cheaper(x, y).w = x.w \/ Cheaper(x, y).w = y.w
         /\ Cheaper(x, y).w <= x.w /\ Cheaper(x, y).w <= y.w
<1>1. x.w \in Nat /\ y.w \in Nat /\ x.o \in SUBSET (Rank \X Nat) /\ y.o \in SUBSET (Rank \X Nat)
  BY DEF Weights
<1>2. CASE y.w < x.w
  BY <1>1, <1>2 DEF Cheaper
<1>3. CASE x.w < y.w
  BY <1>1, <1>3 DEF Cheaper
<1>4. CASE x.w = y.w
  <2> DEFINE o == x.o \cup {g \in y.o : \A h \in x.o : h[1] # g[1]}
  <2>1. Cheaper(x, y) = [w |-> x.w, o |-> o]
    BY <1>1, <1>4 DEF Cheaper
  <2>2. o \subseteq x.o \cup y.o
    OBVIOUS
  <2> HIDE DEF o
  <2>3. QED
    BY <1>1, <1>4, <2>1, <2>2 DEF Weights
<1>5. QED
  BY <1>1, <1>2, <1>3, <1>4

LEMMA LeftOverType ==
  ASSUME NEW n, NEW b, <<n, b>> \in Readings, Len(b) >= 3
  PROVE  LeftOver(n, b) \in Weights
<1> DEFINE rs == {r \in {b[i] : i \in 1 .. UsedUp(n, b)} : Less(n, b)[r] # 0}
<1>1. Less(n, b) \in [Rank -> Nat] /\ \A i \in 1 .. 3 : b[i] \in Rank
  BY LessFacts
<1>2. UsedUp(n, b) \in 0 .. 3
  BY UsedUpFacts
<1>3. rs \in SUBSET Rank
  <2>1. \A i \in 1 .. UsedUp(n, b) : i \in 1 .. 3
    BY <1>2
  <2>2. QED
    BY <1>1, <2>1, Zenon
<1>4. LeftOver(n, b) = Loose(Less(n, b), rs)
  BY DEF LeftOver
<1> HIDE DEF rs
<1>5. QED
  BY <1>1, <1>3, <1>4, LooseType


\* The weight of a reading is defined: the equation of val.
Read(f, x) ==
  LET n == x[1]  b == x[2]  less == Less(n, b)  rest == Rest(n, b)
  IN  IF Len(b) < 3 THEN Loose(n, ToSet(b))
      ELSE IF n[b[1]] > 2 THEN f[<<n, Tail(b)>>]
      ELSE IF Len(rest) < 3 THEN Both(LeftOver(n, b), f[<<less, rest>>])
      ELSE Both(LeftOver(n, b), Cheaper(f[<<less, Reverse(rest)>>], f[<<less, rest>>]))

LEMMA ReadType ==
  ASSUME NEW f \in [Readings -> Weights], NEW x \in Readings
  PROVE  Read(f, x) \in Weights
<1> DEFINE n == x[1]
           b == x[2]
           l == Less(n, b)
           c == Rest(n, b)
           v == Reverse(c)
<1>1. x = <<n, b>> /\ n \in [Rank -> Nat] /\ b \in Seq(Rank)
  BY DEF Readings
<1>2. Read(f, x) = IF Len(b) < 3 THEN Loose(n, ToSet(b))
                   ELSE IF n[b[1]] > 2 THEN f[<<n, Tail(b)>>]
                   ELSE IF Len(c) < 3 THEN Both(LeftOver(n, b), f[<<l, c>>])
                   ELSE Both(LeftOver(n, b), Cheaper(f[<<l, v>>], f[<<l, c>>]))
  BY DEF Read
<1>3. <<n, b>> \in Readings
  BY <1>1
<1> HIDE DEF n, b
<1>4. CASE Len(b) < 3
  <2>1. ToSet(b) \in SUBSET Rank
    BY <1>1 DEF ToSet
  <2>2. QED
    BY <1>1, <1>2, <1>4, <2>1, LooseType
<1>5. CASE ~(Len(b) < 3)
  <2>1. Len(b) >= 3
    BY <1>1, <1>5
  <2>2. f[<<n, Tail(b)>>] \in Weights
    BY <1>3, <2>1, TailReading
  <2>3. f[<<l, c>>] \in Weights /\ f[<<l, v>>] \in Weights
    BY <1>3, <2>1, RestReading
  <2>4. LeftOver(n, b) \in Weights
    BY <1>3, <2>1, LeftOverType
  <2> HIDE DEF l, c, v
  <2>5. Both(LeftOver(n, b), f[<<l, c>>]) \in Weights
    BY <2>3, <2>4, BothType
  <2>6. Cheaper(f[<<l, v>>], f[<<l, c>>]) \in Weights
    BY <2>3, CheaperType
  <2>7. Both(LeftOver(n, b), Cheaper(f[<<l, v>>], f[<<l, c>>])) \in Weights
    BY <2>4, <2>6, BothType
  <2>8. QED
    BY <1>2, <1>5, <2>2, <2>5, <2>7, Zenon
<1>6. QED
  BY <1>4, <1>5

LEMMA ReadSame ==
  ASSUME NEW x \in Readings, NEW f, NEW g,
         \A y \in Readings : Measure[y] < Measure[x] => f[y] = g[y]
  PROVE  Read(f, x) = Read(g, x)
<1> DEFINE n == x[1]
           b == x[2]
           l == Less(n, b)
           c == Rest(n, b)
           v == Reverse(c)
<1>1. x = <<n, b>> /\ b \in Seq(Rank)
  BY DEF Readings
<1>2. ASSUME NEW h
      PROVE  Read(h, x) = IF Len(b) < 3 THEN Loose(n, ToSet(b))
                          ELSE IF n[b[1]] > 2 THEN h[<<n, Tail(b)>>]
                          ELSE IF Len(c) < 3 THEN Both(LeftOver(n, b), h[<<l, c>>])
                          ELSE Both(LeftOver(n, b), Cheaper(h[<<l, v>>], h[<<l, c>>]))
  BY DEF Read
<1>3. <<n, b>> \in Readings
  BY <1>1
<1> HIDE DEF n, b
<1>4. CASE Len(b) < 3
  BY <1>2, <1>4, Zenon
<1>5. CASE ~(Len(b) < 3)
  <2>1. Len(b) >= 3
    BY <1>1, <1>5
  <2>2. f[<<n, Tail(b)>>] = g[<<n, Tail(b)>>]
    <3>1. <<n, Tail(b)>> \in Readings
      BY <1>3, <2>1, TailReading
    <3>2. Measure[<<n, Tail(b)>>] < Measure[<<n, b>>]
      BY <1>3, <2>1, MeasureSmaller
    <3>3. QED
      BY <1>1, <3>1, <3>2, Zenon
  <2>3. f[<<l, c>>] = g[<<l, c>>] /\ f[<<l, v>>] = g[<<l, v>>]
    <3>1. <<l, c>> \in Readings /\ <<l, v>> \in Readings
      BY <1>3, <2>1, RestReading
    <3>2. Measure[<<l, c>>] < Measure[<<n, b>>] /\ Measure[<<l, v>>] < Measure[<<n, b>>]
      BY <1>3, <2>1, MeasureSmaller
    <3> HIDE DEF l, c, v
    <3>3. QED
      BY <1>1, <3>1, <3>2, Zenon
  <2> HIDE DEF l, c, v
  <2>4. QED
    BY <1>2, <1>5, <2>2, <2>3, Zenon
<1>6. QED
  BY <1>4, <1>5

\* Induction over readings.
LEMMA ReadingInduction ==
  ASSUME NEW P,
         \A x \in Readings : (\A y \in Readings : Measure[y] < Measure[x] => y \in P) => x \in P
  PROVE  Readings \subseteq P
<1> DEFINE M == {Measure[x] : x \in Readings \ P}
<1>1. \A x \in Readings : Measure[x] \in Nat
  BY MeasureType
<1> SUFFICES ASSUME Readings \ P # {} PROVE FALSE
  OBVIOUS
<1>2. M \in SUBSET Nat /\ M # {}
  BY <1>1
<1>3. PICK k \in M : \A j \in M : k <= j
  BY <1>2, LeastMember
<1>4. PICK x \in Readings \ P : k = Measure[x]
  OBVIOUS
<1>5. ASSUME NEW y \in Readings, Measure[y] < Measure[x] PROVE y \in P
  <2> SUFFICES ASSUME y \notin P PROVE FALSE
    OBVIOUS
  <2>1. Measure[y] \in M
    OBVIOUS
  <2>2. Measure[x] <= Measure[y]
    BY <1>3, <1>4, <2>1
  <2>3. QED
    BY <1>1, <1>5, <2>2
<1>6. QED
  BY <1>4, <1>5

LEMMA ValEquation ==
  val \in [Readings -> Weights] /\ \A x \in Readings : val[x] = Read(val, x)
<1> DEFINE G == [p \in Readings \X [Readings -> Weights] |-> Read(p[2], p[1])]
<1>1. G \in [Readings \X [Readings -> Weights] -> Weights]
  <2>1. ASSUME NEW p \in Readings \X [Readings -> Weights] PROVE Read(p[2], p[1]) \in Weights
    <3>1. p[1] \in Readings /\ p[2] \in [Readings -> Weights]
      OBVIOUS
    <3>2. QED
      BY <3>1, ReadType
  <2>2. QED
    BY <2>1
<1>2. \A x \in Readings, f \in [Readings -> Weights] : G[<<x, f>>] = Read(f, x)
  OBVIOUS
<1> HIDE DEF G
<1>3. ASSUME NEW x \in Readings, NEW f \in [Readings -> Weights], NEW g \in [Readings -> Weights],
             \A y \in Readings : Measure[y] < Measure[x] => f[y] = g[y]
      PROVE  G[<<x, f>>] = G[<<x, g>>]
  <2>1. Read(f, x) = Read(g, x)
    BY <1>3, ReadSame
  <2>2. QED
    BY <1>2, <2>1
<1>4. Measure \in [Readings -> Nat]
  BY MeasureType
<1>5. Weights # {}
  <2>1. [w |-> 0, o |-> {}] \in Weights
    BY DEF Weights
  <2>2. QED
    BY <2>1
<1>6. \E f \in [Readings -> Weights] : \A x \in Readings : f[x] = G[<<x, f>>]
  <2>1. \A x \in Readings, f, g \in [Readings -> Weights] :
          (\A y \in Readings : Measure[y] < Measure[x] => f[y] = g[y]) => G[<<x, f>>] = G[<<x, g>>]
    BY <1>3, Zenon
  <2>2. Recursive(Readings, Weights, Measure, G)
    BY <1>1, <1>4, <1>5, <2>1, Zenon DEF Recursive
  <2>3. QED
    BY <2>2, Recursion
<1>7. PICK f \in [Readings -> Weights] : \A x \in Readings : f[x] = Read(f, x)
  BY <1>2, <1>6
<1> DEFINE Eq(h) == h = [x \in Readings |-> Read(h, x)]
<1>8. Eq(f)
  BY <1>7
<1>9. val = CHOOSE h : Eq(h)
  BY DEF val, Read
<1> HIDE DEF Eq
<1>10. Eq(val)
  BY <1>8, <1>9, Zenon
<1>11. val = [x \in Readings |-> Read(val, x)]
  BY <1>10 DEF Eq
<1>12. \A x \in Readings : val[x] = Read(val, x)
  BY <1>11
<1> DEFINE P == {x \in Readings : val[x] = f[x]}
<1>13. ASSUME NEW x \in Readings, \A y \in Readings : Measure[y] < Measure[x] => y \in P
       PROVE  x \in P
  <2>1. \A y \in Readings : Measure[y] < Measure[x] => val[y] = f[y]
    BY <1>13
  <2>2. Read(val, x) = Read(f, x)
    BY <2>1, ReadSame
  <2>3. QED
    BY <1>7, <1>12, <2>2
<1> HIDE DEF P
<1>14. Readings \subseteq P
  BY <1>13, ReadingInduction, Zenon
<1>15. \A x \in Readings : val[x] \in Weights
  BY <1>14 DEF P
<1>16. QED
  BY <1>11, <1>12, <1>15

\* The weight of a reading, case by case.
LEMMA ValCases ==
  ASSUME NEW n, NEW b, <<n, b>> \in Readings
  PROVE  /\ val[<<n, b>>] \in Weights
         /\ Len(b) < 3 => val[<<n, b>>] = Loose(n, ToSet(b))
         /\ Len(b) >= 3 /\ n[b[1]] > 2 => val[<<n, b>>] = val[<<n, Tail(b)>>]
         /\ Len(b) >= 3 /\ ~(n[b[1]] > 2) =>
              /\ \E c \in {Rest(n, b), Reverse(Rest(n, b))} :
                   val[<<n, b>>].w = LeftOver(n, b).w + val[<<Less(n, b), c>>].w
              /\ val[<<n, b>>].o \subseteq
                   LeftOver(n, b).o \cup val[<<Less(n, b), Rest(n, b)>>].o
                                    \cup val[<<Less(n, b), Reverse(Rest(n, b))>>].o
<1> DEFINE l == Less(n, b)
           c == Rest(n, b)
           v == Reverse(c)
<1>1. val[<<n, b>>] = Read(val, <<n, b>>) /\ val[<<n, b>>] \in Weights
  BY ValEquation
<1>2. <<n, b>>[1] = n /\ <<n, b>>[2] = b
  OBVIOUS
<1>3. Read(val, <<n, b>>) = IF Len(b) < 3 THEN Loose(n, ToSet(b))
                   ELSE IF n[b[1]] > 2 THEN val[<<n, Tail(b)>>]
                   ELSE IF Len(c) < 3 THEN Both(LeftOver(n, b), val[<<l, c>>])
                   ELSE Both(LeftOver(n, b), Cheaper(val[<<l, v>>], val[<<l, c>>]))
  BY <1>2, Zenon DEF Read
<1>4. b \in Seq(Rank) /\ Len(b) \in Nat
  BY ReadingDef
<1>5. Len(b) >= 3 => ~(Len(b) < 3)
  BY <1>4
<1>6. ASSUME Len(b) >= 3, ~(n[b[1]] > 2)
      PROVE  /\ \E d \in {c, v} : val[<<n, b>>].w = LeftOver(n, b).w + val[<<l, d>>].w
             /\ val[<<n, b>>].o \subseteq LeftOver(n, b).o \cup val[<<l, c>>].o \cup val[<<l, v>>].o
  <2>1. <<l, c>> \in Readings /\ <<l, v>> \in Readings
    BY <1>6, RestReading
  <2>2. LeftOver(n, b) \in Weights
    BY <1>6, LeftOverType
  <2> HIDE DEF l, c, v
  <2>3. val[<<l, c>>] \in Weights /\ val[<<l, v>>] \in Weights
    BY <2>1, ValEquation
  <2>4. CASE Len(c) < 3
    <3>1. val[<<n, b>>] = Both(LeftOver(n, b), val[<<l, c>>])
      BY <1>1, <1>3, <1>5, <1>6, <2>4, Zenon
    <3>2. QED
      BY <2>2, <2>3, <3>1, BothType
  <2>5. CASE ~(Len(c) < 3)
    <3> DEFINE e == Cheaper(val[<<l, v>>], val[<<l, c>>])
    <3>1. val[<<n, b>>] = Both(LeftOver(n, b), e)
      BY <1>1, <1>3, <1>5, <1>6, <2>5, Zenon
    <3>2. /\ e \in Weights /\ e.o \subseteq val[<<l, v>>].o \cup val[<<l, c>>].o
          /\ e.w = val[<<l, v>>].w \/ e.w = val[<<l, c>>].w
      BY <2>3, CheaperType
    <3> HIDE DEF e
    <3>3. val[<<n, b>>].w = LeftOver(n, b).w + e.w /\ val[<<n, b>>].o = LeftOver(n, b).o \cup e.o
      BY <2>2, <3>1, <3>2, BothType
    <3>4. \E d \in {c, v} : e.w = val[<<l, d>>].w
      BY <3>2
    <3>5. QED
      BY <3>2, <3>3, <3>4, Zenon
  <2>6. QED
    BY <2>4, <2>5
<1>7. QED
  BY <1>1, <1>3, <1>5, <1>6, Zenon

ReadingClosed(P) ==
  /\ \A n, b : <<n, b>> \in Readings /\ Len(b) < 3 => <<n, b>> \in P
  /\ \A n, b : <<n, b>> \in Readings /\ Len(b) >= 3 /\ n[b[1]] > 2 /\ <<n, Tail(b)>> \in P
                 => <<n, b>> \in P
  /\ \A n, b : <<n, b>> \in Readings /\ Len(b) >= 3 /\ ~(n[b[1]] > 2) /\
               <<Less(n, b), Rest(n, b)>> \in P /\ <<Less(n, b), Reverse(Rest(n, b))>> \in P
                 => <<n, b>> \in P

LEMMA ReadingCases ==
  ASSUME NEW P, ReadingClosed(P)
  PROVE  Readings \subseteq P
<1> USE DEF ReadingClosed
<1>1. ASSUME NEW x \in Readings, \A y \in Readings : Measure[y] < Measure[x] => y \in P
      PROVE  x \in P
  <2> DEFINE n == x[1]
             b == x[2]
  <2>1. x = <<n, b>> /\ b \in Seq(Rank) /\ Len(b) \in Nat
    BY DEF Readings
  <2> HIDE DEF n, b
  <2>2. <<n, b>> \in Readings
    BY <2>1
  <2>3. CASE Len(b) < 3
    BY <2>1, <2>2, <2>3
  <2>4. CASE Len(b) >= 3
    <3>1. /\ Measure[<<n, Tail(b)>>] < Measure[<<n, b>>]
          /\ Measure[<<Less(n, b), Rest(n, b)>>] < Measure[<<n, b>>]
          /\ Measure[<<Less(n, b), Reverse(Rest(n, b))>>] < Measure[<<n, b>>]
      BY <2>2, <2>4, MeasureSmaller
    <3>2. /\ <<n, Tail(b)>> \in Readings /\ <<Less(n, b), Rest(n, b)>> \in Readings
          /\ <<Less(n, b), Reverse(Rest(n, b))>> \in Readings
      BY <2>2, <2>4, TailReading, RestReading
    <3>3. /\ <<n, Tail(b)>> \in P /\ <<Less(n, b), Rest(n, b)>> \in P
          /\ <<Less(n, b), Reverse(Rest(n, b))>> \in P
      BY <1>1, <2>1, <3>1, <3>2, Zenon
    <3>4. QED
      BY <2>1, <2>2, <2>4, <3>3, Zenon
  <2>5. QED
    BY <2>1, <2>3, <2>4
<1>2. QED
  BY <1>1, ReadingInduction, Zenon

\* Grains are tiles that are held.
LEMMA GrainsHeld ==
  ASSUME NEW n, NEW b, <<n, b>> \in Readings
  PROVE  \A g \in val[<<n, b>>].o : g \in Rank \X Nat /\ n[g[1]] > 0
<1> DEFINE P == {x \in Readings : \A g \in val[x].o : g \in Rank \X Nat /\ x[1][g[1]] > 0}
<1>1. ASSUME NEW m, NEW c, <<m, c>> \in Readings
      PROVE  <<m, c>> \in P <=> \A g \in val[<<m, c>>].o : g \in Rank \X Nat /\ m[g[1]] > 0
  BY <1>1
<1> HIDE DEF P
<1>2. ASSUME NEW m, NEW c, <<m, c>> \in Readings PROVE \A g \in val[<<m, c>>].o : g \in Rank \X Nat
  BY <1>2, ValCases DEF Weights
<1>3. ASSUME NEW m, NEW c, <<m, c>> \in Readings, Len(c) < 3
      PROVE  <<m, c>> \in P
  <2>1. m \in [Rank -> Nat] /\ c \in Seq(Rank) /\ \A k \in 1 .. Len(c) : m[c[k]] > 0
    BY <1>3, ReadingDef
  <2>2. ToSet(c) \in SUBSET Rank /\ \A r \in ToSet(c) : m[r] > 0
    <3>1. DOMAIN c = 1 .. Len(c) /\ \A k \in 1 .. Len(c) : c[k] \in Rank
      BY <2>1
    <3>2. QED
      BY <2>1, <3>1, Zenon DEF ToSet
  <2>3. val[<<m, c>>].o = {<<r, m[r]>> : r \in {q \in ToSet(c) : m[q] < 3}}
    <3>1. val[<<m, c>>] = Loose(m, ToSet(c))
      BY <1>3, ValCases
    <3>2. QED
      BY <2>1, <2>2, <3>1, LooseType, Zenon
  <2>4. \A g \in val[<<m, c>>].o : m[g[1]] > 0
    BY <2>2, <2>3
  <2>5. QED
    BY <1>1, <1>2, <1>3, <2>4
<1>4. ASSUME NEW m, NEW c, <<m, c>> \in Readings, Len(c) >= 3, m[c[1]] > 2, <<m, Tail(c)>> \in P
      PROVE  <<m, c>> \in P
  <2>1. <<m, Tail(c)>> \in Readings
    BY <1>4, TailReading
  <2>2. val[<<m, c>>] = val[<<m, Tail(c)>>]
    BY <1>4, ValCases
  <2>3. QED
    BY <1>1, <1>4, <2>1, <2>2, Zenon
<1>5. ASSUME NEW m, NEW c, <<m, c>> \in Readings, Len(c) >= 3, ~(m[c[1]] > 2),
             <<Less(m, c), Rest(m, c)>> \in P, <<Less(m, c), Reverse(Rest(m, c))>> \in P
      PROVE  <<m, c>> \in P
  <2> DEFINE l == Less(m, c)
             rs == {r \in {c[i] : i \in 1 .. UsedUp(m, c)} : l[r] # 0}
  <2>1. <<l, Rest(m, c)>> \in Readings /\ <<l, Reverse(Rest(m, c))>> \in Readings
    BY <1>5, RestReading
  <2>2. /\ l \in [Rank -> Nat] /\ (\A r \in Rank : l[r] <= m[r])
        /\ (\A i \in 1 .. 3 : c[i] \in Rank) /\ m \in [Rank -> Nat]
    BY <1>5, LessFacts, ReadingDef
  <2>3. rs \in SUBSET Rank
    <3>1. UsedUp(m, c) \in 0 .. 3
      BY <1>5, UsedUpFacts
    <3>2. \A i \in 1 .. UsedUp(m, c) : i \in 1 .. 3
      BY <3>1
    <3>3. QED
      BY <2>2, <3>2, Zenon
  <2>4. LeftOver(m, c) = Loose(l, rs)
    BY DEF LeftOver
  <2>5. \A r \in rs : l[r] # 0
    OBVIOUS
  <2> HIDE DEF l, rs
  <2>6. LeftOver(m, c).o = {<<r, l[r]>> : r \in {q \in rs : l[q] < 3}}
    BY <2>2, <2>3, <2>4, LooseType
  <2>7. \A g \in LeftOver(m, c).o : g[1] \in Rank /\ l[g[1]] > 0
    BY <2>2, <2>3, <2>5, <2>6
  <2>8. \A g \in val[<<l, Rest(m, c)>>].o \cup val[<<l, Reverse(Rest(m, c))>>].o :
           g[1] \in Rank /\ l[g[1]] > 0
    <3>1. \A g \in Rank \X Nat : g[1] \in Rank
      OBVIOUS
    <3>2. /\ \A g \in val[<<l, Rest(m, c)>>].o : g \in Rank \X Nat /\ l[g[1]] > 0
          /\ \A g \in val[<<l, Reverse(Rest(m, c))>>].o : g \in Rank \X Nat /\ l[g[1]] > 0
      BY <1>1, <1>5, <2>1, Zenon DEF l
    <3>3. QED
      BY <3>1, <3>2, Zenon
  <2>9. val[<<m, c>>].o \subseteq LeftOver(m, c).o \cup val[<<l, Rest(m, c)>>].o
                                    \cup val[<<l, Reverse(Rest(m, c))>>].o
    BY <1>5, ValCases, Zenon DEF l
  <2>10. ASSUME NEW g \in val[<<m, c>>].o PROVE m[g[1]] > 0
    <3>1. g[1] \in Rank /\ l[g[1]] > 0
      BY <2>7, <2>8, <2>9, Zenon
    <3>2. QED
      BY <2>2, <3>1
  <2>11. QED
    BY <1>1, <1>2, <1>5, <2>10, Zenon
<1>6. Readings \subseteq P
  <2>1. \A m, c : <<m, c>> \in Readings /\ Len(c) < 3 => <<m, c>> \in P
    BY <1>3, Zenon
  <2>2. \A m, c : <<m, c>> \in Readings /\ Len(c) >= 3 /\ m[c[1]] > 2 /\ <<m, Tail(c)>> \in P
                     => <<m, c>> \in P
    BY <1>4, Zenon
  <2>3. \A m, c : <<m, c>> \in Readings /\ Len(c) >= 3 /\ ~(m[c[1]] > 2) /\
                  <<Less(m, c), Rest(m, c)>> \in P /\ <<Less(m, c), Reverse(Rest(m, c))>> \in P
                     => <<m, c>> \in P
    BY <1>5
  <2>4. ReadingClosed(P)
    BY <2>1, <2>2, <2>3, Zenon DEF ReadingClosed
  <2>5. QED
    BY <2>4, ReadingCases
<1>7. QED
  BY <1>1, <1>6


-----------------------------------------------------------------------------
(* The weight and the number of tiles.                                     *)

\* Sums over some of the ranks.
LEMMA SumOfType ==
  ASSUME NEW f \in [Rank -> Nat], NEW A \in SUBSET Rank
  PROVE  /\ SumOf(f, A) \in Nat
         /\ (\A r \in Rank \ A : f[r] = 0) => SumOf(f, A) = Total(f)
<1> DEFINE g == [r \in Rank |-> IF r \in A THEN f[r] ELSE 0]
<1>1. SumOf(f, A) = Total(g)
  BY DEF SumOf
<1>2. g \in [Rank -> Nat]
  OBVIOUS
<1>3. (\A r \in Rank \ A : f[r] = 0) => g = f
  OBVIOUS
<1> HIDE DEF g
<1>4. QED
  BY <1>1, <1>2, <1>3, TotalNat

LEMMA SumOfSame ==
  ASSUME NEW f, NEW g, NEW A \in SUBSET Rank, \A r \in A : f[r] = g[r]
  PROVE  SumOf(f, A) = SumOf(g, A)
<1> DEFINE u == [r \in Rank |-> IF r \in A THEN f[r] ELSE 0]
           v == [r \in Rank |-> IF r \in A THEN g[r] ELSE 0]
<1>1. u = v
  OBVIOUS
<1>2. SumOf(f, A) = Total(u) /\ SumOf(g, A) = Total(v)
  BY DEF SumOf
<1> HIDE DEF u, v
<1>3. QED
  BY <1>1, <1>2, Zenon

LEMMA SumOfParts ==
  ASSUME NEW f \in [Rank -> Nat], NEW A \in SUBSET Rank, NEW B \in SUBSET Rank, A \cap B = {}
  PROVE  SumOf(f, A \cup B) = SumOf(f, A) + SumOf(f, B)
<1> DEFINE a == [r \in Rank |-> IF r \in A THEN f[r] ELSE 0]
           b == [r \in Rank |-> IF r \in B THEN f[r] ELSE 0]
           c == [r \in Rank |-> IF r \in A \cup B THEN f[r] ELSE 0]
<1>1. a \in [Rank -> Int] /\ b \in [Rank -> Int] /\ c \in [Rank -> Int]
  OBVIOUS
<1>2. \A r \in Rank : c[r] = a[r] + b[r]
  OBVIOUS
<1>3. SumOf(f, A) = Total(a) /\ SumOf(f, B) = Total(b) /\ SumOf(f, A \cup B) = Total(c)
  BY DEF SumOf
<1> HIDE DEF a, b, c
<1>4. QED
  BY <1>1, <1>2, <1>3, TotalAdd

LEMMA SumOfOne ==
  ASSUME NEW f \in [Rank -> Nat], NEW r \in Rank
  PROVE  SumOf(f, {r}) = f[r]
<1> DEFINE g == [q \in Rank |-> IF q \in {r} THEN f[q] ELSE 0]
<1>1. g \in [Rank -> Int] /\ g[r] = f[r] /\ \A q \in Rank \ {r} : g[q] = 0
  OBVIOUS
<1>2. SumOf(f, {r}) = Total(g)
  BY DEF SumOf
<1> HIDE DEF g
<1>3. QED
  BY <1>1, <1>2, TotalSingle

\* Of leftover ranks with three tiles at most, weight and tiles make triplets.
LEMMA LooseThree ==
  ASSUME NEW n \in [Rank -> Nat], NEW rs \in SUBSET Rank, \A r \in rs : n[r] <= 3
  PROVE  (Loose(n, rs).w + SumOf(n, rs)) % 3 = 0
<1> DEFINE f == [r \in Rank |-> IF r \in rs /\ n[r] < 3 THEN 3 - n[r] ELSE 0]
           g == [r \in Rank |-> IF r \in rs THEN n[r] ELSE 0]
           h == [r \in Rank |-> IF r \in rs THEN 3 ELSE 0]
<1>1. f \in [Rank -> Int] /\ g \in [Rank -> Int] /\ h \in [Rank -> Int] /\ h \in [Rank -> Nat]
  OBVIOUS
<1>2. ASSUME NEW r \in Rank PROVE h[r] = f[r] + g[r] /\ h[r] % 3 = 0
  <2>1. n[r] \in Nat
    OBVIOUS
  <2>2. CASE r \in rs
    <3>1. n[r] <= 3
      BY <2>2
    <3>2. h[r] = 3 /\ g[r] = n[r] /\ f[r] = IF n[r] < 3 THEN 3 - n[r] ELSE 0
      BY <2>2
    <3> HIDE DEF f, g, h
    <3>3. QED
      BY <2>1, <3>1, <3>2
  <2>3. CASE r \notin rs
    <3>1. h[r] = 0 /\ g[r] = 0 /\ f[r] = 0
      BY <2>3
    <3> HIDE DEF f, g, h
    <3>2. QED
      BY <3>1
  <2>4. QED
    BY <2>2, <2>3
<1>3. Loose(n, rs).w = Total(f) /\ SumOf(n, rs) = Total(g)
  BY LooseType DEF SumOf
<1> HIDE DEF f, g, h
<1>4. Total(h) = Total(f) + Total(g)
  BY <1>1, <1>2, TotalAdd
<1>5. Total(h) % 3 = 0
  BY <1>1, <1>2, TotalThree
<1>6. QED
  BY <1>3, <1>4, <1>5, Zenon

\* A block is its first rank and the others.
LEMMA TailParts ==
  ASSUME NEW n, NEW c, <<n, c>> \in Readings, Len(c) >= 3
  PROVE  ToSet(c) = {c[1]} \cup ToSet(Tail(c)) /\ c[1] \notin ToSet(Tail(c)) /\ c[1] \in Rank
<1> DEFINE d == Tail(c)
<1>0. <<n, d>> \in Readings /\ Len(d) = Len(c) - 1 /\ \A k \in 1 .. Len(c) - 1 : d[k] = c[k + 1]
  BY TailReading
<1>1. c \in Seq(Rank) /\ Adjacent(c) /\ Len(c) \in Nat /\ DOMAIN c = 1 .. Len(c) /\ 1 \in 1 .. Len(c)
  BY ReadingDef
<1>2. \A i, j \in 1 .. Len(c) : c[i] = c[j] => i = j
  BY <1>1, AdjacentDiffer
<1>3. d \in Seq(Rank)
  BY <1>0, ReadingDef
<1>4. DOMAIN d = 1 .. Len(c) - 1
  BY <1>0, <1>3
<1> HIDE DEF d
<1>5. ToSet(d) = {c[k + 1] : k \in 1 .. Len(c) - 1} /\ ToSet(c) = {c[k] : k \in 1 .. Len(c)}
  BY <1>0, <1>1, <1>4, Zenon DEF ToSet
<1>6. \A k \in 1 .. Len(c) - 1 : k + 1 \in 1 .. Len(c) /\ k + 1 # 1
  BY <1>1
<1>7. \A k \in 1 .. Len(c) : k = 1 \/ (k - 1 \in 1 .. Len(c) - 1 /\ (k - 1) + 1 = k)
  BY <1>1
<1>8. ToSet(c) = {c[1]} \cup ToSet(d)
  BY <1>1, <1>5, <1>6, <1>7
<1>9. c[1] \notin ToSet(d)
  BY <1>1, <1>2, <1>5, <1>6
<1>10. QED
  BY <1>1, <1>8, <1>9 DEF d

\* The ranks a sequence has used up and left over, and those behind them.
LEMMA ReadingParts ==
  ASSUME NEW n, NEW b, <<n, b>> \in Readings, Len(b) >= 3
  PROVE  LET used == {b[i] : i \in 1 .. UsedUp(n, b)}
         IN  /\ ToSet(b) = used \cup ToSet(Rest(n, b)) /\ used \cap ToSet(Rest(n, b)) = {}
             /\ ToSet(b) \in SUBSET Rank /\ {b[1], b[2], b[3]} \subseteq ToSet(b)
             /\ SumOf(n, ToSet(b)) = SumOf(Less(n, b), ToSet(b)) + 3
<1> DEFINE u == UsedUp(n, b)
           used == {b[i] : i \in 1 .. u}
           c == Rest(n, b)
           l == Less(n, b)
           T == ToSet(b)
<1>1. n \in [Rank -> Nat] /\ b \in Seq(Rank) /\ Adjacent(b) /\ Len(b) \in Nat /\ DOMAIN b = 1 .. Len(b)
      /\ \A k \in 1 .. Len(b) : b[k] \in Rank
  BY ReadingDef
<1>2. u \in 0 .. 3
  BY UsedUpFacts
<1>3. <<l, c>> \in Readings /\ Len(c) = Len(b) - u /\ \A k \in 1 .. Len(b) - u : c[k] = b[u + k]
  BY RestReading
<1>4. \A i, j \in 1 .. Len(b) : b[i] = b[j] => i = j
  BY <1>1, AdjacentDiffer
<1>5. l \in [Rank -> Nat] /\ Total(l) = Total(n) - 3
  BY LessFacts
<1>6. l = [r \in Rank |-> IF r \in {b[1], b[2], b[3]} THEN n[r] - 1 ELSE n[r]]
  BY DEF Less
<1> HIDE DEF u, c, l
<1>7. DOMAIN c = 1 .. Len(b) - u
  <2>1. c \in Seq(Rank)
    BY <1>3, ReadingDef
  <2>2. QED
    BY <1>3, <2>1
<1>8. T = {b[k] : k \in 1 .. Len(b)} /\ ToSet(c) = {b[u + k] : k \in 1 .. Len(b) - u}
  BY <1>1, <1>3, <1>7, Zenon DEF ToSet
<1>9. \A k \in 1 .. u : k \in 1 .. Len(b)
  BY <1>1, <1>2
<1>10. \A k \in 1 .. Len(b) - u : u + k \in 1 .. Len(b) /\ u + k \notin 1 .. u
  BY <1>1, <1>2
<1>11. \A k \in 1 .. Len(b) : k \in 1 .. u \/ (k - u \in 1 .. Len(b) - u /\ u + (k - u) = k)
  BY <1>1, <1>2
<1>12. T = used \cup ToSet(c)
  BY <1>8, <1>9, <1>10, <1>11
<1>13. used \cap ToSet(c) = {}
  BY <1>4, <1>8, <1>9, <1>10
<1>14. T \in SUBSET Rank
  BY <1>1, <1>8
<1>15. {b[1], b[2], b[3]} \subseteq T
  <2>1. 1 \in 1 .. Len(b) /\ 2 \in 1 .. Len(b) /\ 3 \in 1 .. Len(b)
    BY <1>1
  <2>2. QED
    BY <1>8, <2>1
<1> HIDE DEF T
<1>16. SumOf(n, T) = SumOf(l, T) + 3
  <2> DEFINE V == Rank \ T
  <2>1. V \in SUBSET Rank /\ T \cap V = {} /\ T \cup V = Rank
    BY <1>14
  <2>2. SumOf(n, T \cup V) = SumOf(n, T) + SumOf(n, V)
    BY <1>1, <1>14, <2>1, SumOfParts
  <2>3. SumOf(l, T \cup V) = SumOf(l, T) + SumOf(l, V)
    BY <1>5, <1>14, <2>1, SumOfParts
  <2>4. SumOf(n, T \cup V) = Total(n) /\ SumOf(l, T \cup V) = Total(l)
    <3>1. Rank \in SUBSET Rank /\ Rank \ Rank = {}
      OBVIOUS
    <3>2. SumOf(n, Rank) = Total(n) /\ SumOf(l, Rank) = Total(l)
      BY <1>1, <1>5, <3>1, SumOfType
    <3>3. QED
      BY <2>1, <3>2, Zenon
  <2>5. \A r \in V : n[r] = l[r]
    BY <1>6, <1>15
  <2>6. SumOf(n, V) = SumOf(l, V)
    BY <2>1, <2>5, SumOfSame
  <2>7. SumOf(n, T) \in Nat /\ SumOf(l, T) \in Nat /\ SumOf(l, V) \in Nat /\ Total(n) \in Nat
    BY <1>1, <1>5, <1>14, <2>1, SumOfType, TotalNat
  <2> HIDE DEF V
  <2>8. SumOf(n, T) + SumOf(l, V) = Total(n) /\ SumOf(l, T) + SumOf(l, V) = Total(n) - 3
    BY <1>5, <2>2, <2>3, <2>4, <2>6, Zenon
  <2>9. QED
    BY <2>7, <2>8
<1>17. QED
  BY <1>12, <1>13, <1>14, <1>15, <1>16, Zenon DEF T, u, c, l


\* With three tiles of a rank at most, weight and tiles make triplets.
LEMMA WeightThree ==
  ASSUME NEW n, NEW b, <<n, b>> \in Readings, \A r \in ToSet(b) : n[r] <= 3
  PROVE  (val[<<n, b>>].w + SumOf(n, ToSet(b))) % 3 = 0
<1> DEFINE P == {x \in Readings : (\A r \in ToSet(x[2]) : x[1][r] <= 3)
                                     => (val[x].w + SumOf(x[1], ToSet(x[2]))) % 3 = 0}
<1>1. ASSUME NEW m, NEW c, <<m, c>> \in Readings
      PROVE  <<m, c>> \in P <=> ((\A r \in ToSet(c) : m[r] <= 3)
                                   => (val[<<m, c>>].w + SumOf(m, ToSet(c))) % 3 = 0)
  BY <1>1
<1> HIDE DEF P
<1>2. ASSUME NEW m, NEW c, <<m, c>> \in Readings
      PROVE  m \in [Rank -> Nat] /\ ToSet(c) \in SUBSET Rank /\ val[<<m, c>>].w \in Nat
             /\ SumOf(m, ToSet(c)) \in Nat
  <2>1. m \in [Rank -> Nat] /\ c \in Seq(Rank)
    BY <1>2, ReadingDef
  <2>2. ToSet(c) \in SUBSET Rank
    BY <2>1 DEF ToSet
  <2>3. val[<<m, c>>].w \in Nat
    BY <1>2, ValCases DEF Weights
  <2>4. QED
    BY <2>1, <2>2, <2>3, SumOfType
<1>3. ASSUME NEW m, NEW c, <<m, c>> \in Readings, Len(c) < 3
      PROVE  <<m, c>> \in P
  <2>1. val[<<m, c>>] = Loose(m, ToSet(c))
    BY <1>3, ValCases
  <2>2. m \in [Rank -> Nat] /\ ToSet(c) \in SUBSET Rank
    BY <1>2, <1>3
  <2>3. ASSUME \A r \in ToSet(c) : m[r] <= 3
        PROVE  (val[<<m, c>>].w + SumOf(m, ToSet(c))) % 3 = 0
    BY <2>1, <2>2, <2>3, LooseThree
  <2>4. QED
    BY <1>1, <1>3, <2>3, Zenon
<1>4. ASSUME NEW m, NEW c, <<m, c>> \in Readings, Len(c) >= 3, m[c[1]] > 2, <<m, Tail(c)>> \in P
      PROVE  <<m, c>> \in P
  <2>1. <<m, Tail(c)>> \in Readings /\ Len(Tail(c)) = Len(c) - 1
        /\ \A k \in 1 .. Len(c) - 1 : Tail(c)[k] = c[k + 1]
    BY <1>4, TailReading
  <2>2. val[<<m, c>>] = val[<<m, Tail(c)>>]
    BY <1>4, ValCases
  <2> DEFINE d == Tail(c)
  <2>3. ToSet(c) = {c[1]} \cup ToSet(d) /\ c[1] \notin ToSet(d) /\ c[1] \in Rank
    BY <1>4, TailParts
  <2> HIDE DEF d
  <2>4. ASSUME \A r \in ToSet(c) : m[r] <= 3
        PROVE  (val[<<m, c>>].w + SumOf(m, ToSet(c))) % 3 = 0
    <3>1. (val[<<m, d>>].w + SumOf(m, ToSet(d))) % 3 = 0
      BY <1>1, <1>4, <2>1, <2>3, <2>4 DEF d
    <3>2. /\ m \in [Rank -> Nat] /\ ToSet(d) \in SUBSET Rank
          /\ val[<<m, d>>].w \in Nat /\ SumOf(m, ToSet(d)) \in Nat
      BY <1>2, <2>1 DEF d
    <3>3. m[c[1]] = 3
      <4>1. m[c[1]] <= 3 /\ m[c[1]] \in Nat
        BY <2>3, <2>4, <3>2
      <4>2. QED
        BY <1>4, <4>1
    <3>4. SumOf(m, {c[1]} \cup ToSet(d)) = SumOf(m, {c[1]}) + SumOf(m, ToSet(d))
      <4>1. {c[1]} \in SUBSET Rank /\ {c[1]} \cap ToSet(d) = {}
        BY <2>3
      <4>2. QED
        BY <3>2, <4>1, SumOfParts
    <3>5. SumOf(m, {c[1]}) = 3
      BY <2>3, <3>2, <3>3, SumOfOne
    <3>6. SumOf(m, ToSet(c)) = 3 + SumOf(m, ToSet(d))
      BY <2>3, <3>4, <3>5, Zenon
    <3>7. \A w, t \in Nat : (w + t) % 3 = 0 => (w + (3 + t)) % 3 = 0
      OBVIOUS
    <3>8. QED
      BY <2>2, <3>1, <3>2, <3>6, <3>7, Zenon DEF d
  <2>5. QED
    BY <1>1, <1>4, <2>4, Zenon
<1>5. ASSUME NEW m, NEW c, <<m, c>> \in Readings, Len(c) >= 3, ~(m[c[1]] > 2),
             <<Less(m, c), Rest(m, c)>> \in P, <<Less(m, c), Reverse(Rest(m, c))>> \in P
      PROVE  <<m, c>> \in P
  <2> DEFINE l == Less(m, c)
             used == {c[i] : i \in 1 .. UsedUp(m, c)}
             rs == {r \in used : l[r] # 0}
             d == Rest(m, c)
  <2>1. /\ <<l, d>> \in Readings /\ <<l, Reverse(d)>> \in Readings /\ ToSet(Reverse(d)) = ToSet(d)
    BY <1>5, RestReading
  <2>2. /\ ToSet(c) = used \cup ToSet(d) /\ used \cap ToSet(d) = {} /\ ToSet(c) \in SUBSET Rank
        /\ SumOf(m, ToSet(c)) = SumOf(l, ToSet(c)) + 3
    BY <1>5, ReadingParts
  <2>3. l \in [Rank -> Nat] /\ \A r \in Rank : l[r] <= m[r]
    BY <1>5, LessFacts
  <2>4. LeftOver(m, c) = Loose(l, rs) /\ LeftOver(m, c).w \in Nat
    <3>1. LeftOver(m, c) \in Weights
      BY <1>5, LeftOverType
    <3>2. QED
      BY <3>1 DEF LeftOver, Weights
  <2>5. PICK e \in {d, Reverse(d)} : val[<<m, c>>].w = LeftOver(m, c).w + val[<<l, e>>].w
    BY <1>5, ValCases, Zenon
  <2>6. <<l, e>> \in Readings /\ ToSet(e) = ToSet(d) /\ <<l, e>> \in P
    BY <1>5, <2>1, <2>5
  <2> DEFINE lw == LeftOver(m, c).w
  <2> HIDE DEF l, d, lw
  <2>7. ASSUME \A r \in ToSet(c) : m[r] <= 3
        PROVE  (val[<<m, c>>].w + SumOf(m, ToSet(c))) % 3 = 0
    <3>1. ASSUME NEW r \in ToSet(c) PROVE l[r] <= 3
      <4>1. r \in Rank /\ m[r] <= 3 /\ l[r] <= m[r] /\ l[r] \in Nat /\ m[r] \in Nat
        BY <1>2, <1>5, <2>2, <2>3, <2>7
      <4>2. QED
        BY <4>1
    <3>2. used \in SUBSET Rank /\ rs \in SUBSET Rank /\ ToSet(d) \in SUBSET Rank
      <4> HIDE DEF used
      <4>1. QED
        BY <2>2
    <3>3. (\A r \in rs : l[r] <= 3) /\ (\A r \in ToSet(e) : l[r] <= 3)
      <4> HIDE DEF used
      <4>1. QED
        BY <2>2, <2>6, <3>1
    <3>4. \A r \in used \ rs : l[r] = 0
      <4> HIDE DEF used
      <4>1. QED
        OBVIOUS
    <3> HIDE DEF rs, used
    <3>5. (lw + SumOf(l, rs)) % 3 = 0
      <4>1. (Loose(l, rs).w + SumOf(l, rs)) % 3 = 0
        BY <2>3, <3>2, <3>3, LooseThree
      <4>2. QED
        BY <2>4, <4>1, Zenon DEF lw
    <3>6. (val[<<l, e>>].w + SumOf(l, ToSet(d))) % 3 = 0
      <4>1. (val[<<l, e>>].w + SumOf(l, ToSet(e))) % 3 = 0
        BY <1>1, <2>6, <3>3, Zenon
      <4>2. QED
        BY <2>6, <4>1, Zenon
    <3>7. SumOf(l, used) = SumOf(l, rs)
      <4> DEFINE f == [r \in Rank |-> IF r \in used THEN l[r] ELSE 0]
                 g == [r \in Rank |-> IF r \in rs THEN l[r] ELSE 0]
      <4>1. f = g
        BY <3>2, <3>4 DEF rs
      <4>2. SumOf(l, used) = Total(f) /\ SumOf(l, rs) = Total(g)
        BY DEF SumOf
      <4> HIDE DEF f, g
      <4>3. QED
        BY <4>1, <4>2, Zenon
    <3>8. SumOf(l, ToSet(c)) = SumOf(l, used) + SumOf(l, ToSet(d))
      BY <2>2, <2>3, <3>2, SumOfParts
    <3>9. SumOf(m, ToSet(c)) = (SumOf(l, rs) + SumOf(l, ToSet(d))) + 3
      BY <2>2, <3>7, <3>8, Zenon
    <3>10. SumOf(l, rs) \in Nat /\ SumOf(l, ToSet(d)) \in Nat /\ val[<<l, e>>].w \in Nat /\ lw \in Nat
      <4>1. SumOf(l, rs) \in Nat /\ SumOf(l, ToSet(d)) \in Nat
        BY <2>3, <3>2, SumOfType
      <4>2. val[<<l, e>>].w \in Nat
        BY <1>2, <2>6
      <4>3. QED
        BY <2>4, <4>1, <4>2 DEF lw
    <3>11. \A w, t, x, y \in Nat : (w + t) % 3 = 0 /\ (x + y) % 3 = 0 => ((w + x) + ((t + y) + 3)) % 3 = 0
      OBVIOUS
    <3>12. ((lw + val[<<l, e>>].w) + ((SumOf(l, rs) + SumOf(l, ToSet(d))) + 3)) % 3 = 0
      BY <3>5, <3>6, <3>10, <3>11, Zenon
    <3>13. QED
      BY <2>5, <3>9, <3>12, Zenon DEF lw
  <2>8. QED
    BY <1>1, <1>5, <2>7, Zenon
<1>6. Readings \subseteq P
  <2>1. \A m, c : <<m, c>> \in Readings /\ Len(c) < 3 => <<m, c>> \in P
    BY <1>3, Zenon
  <2>2. \A m, c : <<m, c>> \in Readings /\ Len(c) >= 3 /\ m[c[1]] > 2 /\ <<m, Tail(c)>> \in P
                     => <<m, c>> \in P
    BY <1>4, Zenon
  <2>3. \A m, c : <<m, c>> \in Readings /\ Len(c) >= 3 /\ ~(m[c[1]] > 2) /\
                  <<Less(m, c), Rest(m, c)>> \in P /\ <<Less(m, c), Reverse(Rest(m, c))>> \in P
                     => <<m, c>> \in P
    BY <1>5
  <2>4. ReadingClosed(P)
    BY <2>1, <2>2, <2>3, Zenon DEF ReadingClosed
  <2>5. QED
    BY <2>4, ReadingCases
<1>7. QED
  BY <1>1, <1>6


-----------------------------------------------------------------------------
(* The blocks of a suit.                                                   *)
Span(no, a) == ToSet(BlockAt(no, a))

\* A block reaches from its start to the last held rank in a row.
LEMMA BlockEnd ==
  ASSUME NEW no \in [Rank -> Nat], NEW a \in Starts(no)
  PROVE  \E e \in Rank : /\ a \in Rank /\ a <= e /\ \A r \in a .. e : r \in Rank /\ no[r] > 0
                         /\ e + 1 \in Rank => no[e + 1] = 0
                         /\ BlockAt(no, a) = Run(a, e)
<1> DEFINE E == Ends(no, a)
           e == Min(E)
<1>1. a \in Rank /\ no[a] > 0 /\ a \in Nat /\ Ranks \in Nat \ {0}
  BY RanksAssumption DEF Starts, Rank
<1>2. E \in SUBSET Nat /\ E \subseteq Rank
  BY RanksAssumption DEF Ends, Rank
<1>3. Ranks - 1 \in E
  BY <1>1 DEF Ends, Rank
<1>4. \E x \in E : \A y \in E : x <= y
  BY <1>2, <1>3, LeastMember
<1>5. e \in E /\ \A y \in E : e <= y
  <2> HIDE DEF E
  <2>1. QED
    BY <1>4, Zenon DEF Min
<1>6. e \in Rank /\ e >= a /\ (e + 1 \in Rank => no[e + 1] = 0)
  <2> HIDE DEF e
  <2>1. QED
    BY <1>5 DEF Ends
<1> HIDE DEF e
<1> DEFINE S == {k \in Nat : a + k <= e => no[a + k] > 0}
<1>7. 0 \in S
  BY <1>1
<1>8. ASSUME NEW k \in Nat, k \in S PROVE k + 1 \in S
  <2> SUFFICES ASSUME a + (k + 1) <= e PROVE no[a + (k + 1)] > 0
    OBVIOUS
  <2>1. a + k \in Rank /\ a + k < e /\ a + k + 1 = a + (k + 1)
    BY <1>1, <1>6 DEF Rank
  <2>2. a + k \notin E
    <3> HIDE DEF E
    <3>1. QED
      BY <1>1, <1>5, <1>6, <2>1 DEF Rank
  <2>3. a + k + 1 \in Rank /\ no[a + k + 1] # 0
    BY <1>1, <2>1, <2>2 DEF Ends
  <2>4. QED
    BY <2>1, <2>3
<1> HIDE DEF S
<1>9. Nat \subseteq S
  BY <1>7, <1>8, Induct
<1>10. ASSUME NEW r \in a .. e PROVE r \in Rank /\ no[r] > 0
  <2>1. r \in Rank /\ r - a \in Nat /\ a + (r - a) = r /\ r <= e
    BY <1>1, <1>6 DEF Rank
  <2>2. a + (r - a) <= e => no[a + (r - a)] > 0
    BY <1>9, <2>1 DEF S
  <2>3. QED
    BY <2>1, <2>2, Zenon
<1>11. BlockAt(no, a) = Run(a, e)
  BY DEF BlockAt, e
<1>12. a <= e
  BY <1>1, <1>6 DEF Rank
<1>13. QED
  BY <1>1, <1>6, <1>10, <1>11, <1>12

\* A block can be read from both ends.
LEMMA BlockReading ==
  ASSUME NEW no \in [Rank -> Nat], NEW a \in Starts(no)
  PROVE  /\ <<no, BlockAt(no, a)>> \in Readings /\ <<no, Reverse(BlockAt(no, a))>> \in Readings
         /\ ToSet(Reverse(BlockAt(no, a))) = Span(no, a)
         /\ \E e \in Rank : /\ a \in Rank /\ a <= e /\ Span(no, a) = a .. e
                            /\ \A r \in a .. e : r \in Rank /\ no[r] > 0
                            /\ e + 1 \in Rank => no[e + 1] = 0
<1>1. PICK e \in Rank : /\ a \in Rank /\ a <= e /\ \A r \in a .. e : r \in Rank /\ no[r] > 0
                        /\ e + 1 \in Rank => no[e + 1] = 0
                        /\ BlockAt(no, a) = Run(a, e)
  BY BlockEnd, Zenon
<1> DEFINE b == Run(a, e)
<1>2. a \in Nat /\ e \in Nat
  BY <1>1, RanksAssumption DEF Rank
<1>3. b = [i \in 1 .. e - a + 1 |-> a + i - 1] /\ e - a + 1 \in Nat
  BY <1>1, <1>2 DEF Run
<1> HIDE DEF b
<1>4. \A i \in 1 .. e - a + 1 : b[i] = a + i - 1 /\ a + i - 1 \in a .. e /\ b[i] \in Rank /\ no[b[i]] > 0
  BY <1>1, <1>2, <1>3
<1>5. b \in Seq(Rank) /\ Len(b) = e - a + 1 /\ DOMAIN b = 1 .. e - a + 1
  BY <1>3, <1>4
<1>6. Adjacent(b)
  <2>1. ASSUME NEW k \in DOMAIN b PROVE b[k] = b[1] + (k - 1)
    <3>1. k \in 1 .. e - a + 1 /\ 1 \in 1 .. e - a + 1
      BY <1>2, <1>5
    <3>2. b[k] = a + k - 1 /\ b[1] = a + 1 - 1
      BY <1>4, <3>1
    <3>3. QED
      BY <1>2, <3>1, <3>2
  <2>2. QED
    BY <2>1 DEF Adjacent
<1>7. ToSet(b) = a .. e
  <2>1. \A r \in a .. e : r - a + 1 \in 1 .. e - a + 1 /\ a + (r - a + 1) - 1 = r
    BY <1>2
  <2>2. \A r \in a .. e : b[r - a + 1] = r
    BY <1>4, <2>1, Zenon
  <2>3. \A r \in a .. e : r \in ToSet(b)
    BY <1>5, <2>1, <2>2, Zenon DEF ToSet
  <2>4. \A r \in ToSet(b) : r \in a .. e
    BY <1>4, <1>5 DEF ToSet
  <2>5. QED
    BY <2>3, <2>4
<1>8. \A k \in 1 .. Len(b) : no[b[k]] > 0
  BY <1>4, <1>5
<1>9. <<no, b>> \in Readings
  BY <1>5, <1>6, <1>8, ReadingDef
<1> DEFINE v == Reverse(b)
<1>10. v \in Seq(Rank) /\ Adjacent(v) /\ ToSet(v) = ToSet(b) /\ Len(v) = Len(b)
       /\ \A k \in 1 .. Len(b) : v[k] = b[Len(b) - k + 1]
  BY <1>5, <1>6, AdjacentReverse
<1> HIDE DEF v
<1>11. \A k \in 1 .. Len(v) : no[v[k]] > 0
  <2>1. \A k \in 1 .. Len(b) : Len(b) - k + 1 \in 1 .. Len(b)
    BY <1>2, <1>5
  <2>2. QED
    BY <1>8, <1>10, <2>1
<1>12. <<no, v>> \in Readings
  BY <1>10, <1>11, ReadingDef
<1>13. QED
  BY <1>1, <1>7, <1>9, <1>10, <1>12, Zenon DEF Span, v, b

\* Every held rank is in one block and in one only.
LEMMA BlocksPart ==
  ASSUME NEW no \in [Rank -> Nat]
  PROVE  /\ \A a, c \in Starts(no) : a # c => Span(no, a) \cap Span(no, c) = {}
         /\ \A r \in Rank : no[r] > 0 => \E a \in Starts(no) : r \in Span(no, a)
         /\ \A a \in Starts(no) : a \in Rank /\ Span(no, a) \subseteq Rank /\ \A r \in Span(no, a) : no[r] > 0
<1> DEFINE IsEnd(a, e) == /\ a \in Rank /\ a <= e /\ Span(no, a) = a .. e
                          /\ \A r \in a .. e : r \in Rank /\ no[r] > 0
                          /\ e + 1 \in Rank => no[e + 1] = 0
<1>1. \A a \in Starts(no) : \E e \in Rank : IsEnd(a, e)
  BY BlockReading, Zenon
<1>2. ASSUME NEW a \in Starts(no), NEW c \in Starts(no), a < c PROVE Span(no, a) \cap Span(no, c) = {}
  <2>1. PICK e \in Rank : IsEnd(a, e)
    BY <1>1
  <2>2. PICK f \in Rank : IsEnd(c, f)
    BY <1>1
  <2>3. a \in Nat /\ c \in Nat /\ e \in Nat /\ f \in Nat
    BY RanksAssumption DEF Rank, Starts
  <2>4. no[c - 1] = 0
    BY <1>2, <2>3 DEF Starts
  <2>5. ~(c - 1 \in a .. e)
    BY <2>1, <2>4
  <2>6. e < c
    BY <1>2, <2>3, <2>5
  <2>7. Span(no, a) = a .. e /\ Span(no, c) = c .. f
    BY <2>1, <2>2
  <2>8. QED
    BY <2>3, <2>6, <2>7
<1>3. ASSUME NEW a \in Starts(no), NEW c \in Starts(no), a # c PROVE Span(no, a) \cap Span(no, c) = {}
  <2>1. a \in Nat /\ c \in Nat
    BY RanksAssumption DEF Rank, Starts
  <2>2. a < c \/ c < a
    BY <1>3, <2>1
  <2>3. QED
    BY <1>2, <2>2
<1>4. ASSUME NEW r \in Rank, no[r] > 0 PROVE \E a \in Starts(no) : r \in Span(no, a)
  <2> DEFINE A == {a \in 0 .. r : \A c \in a .. r : no[c] > 0}
  <2>1. r \in Nat /\ A \in SUBSET Nat
    BY RanksAssumption DEF Rank
  <2>2. r \in A
    <3>1. \A c \in r .. r : c = r
      BY <2>1
    <3>2. QED
      BY <1>4, <2>1, <3>1
  <2>3. PICK a \in A : \A c \in A : a <= c
    BY <2>1, <2>2, LeastMember
  <2>4. a \in 0 .. r /\ a \in Rank /\ no[a] > 0 /\ r <= Ranks - 1 /\ Ranks \in Nat
    <3>1. a \in 0 .. r /\ \A c \in a .. r : no[c] > 0
      OBVIOUS
    <3>2. r <= Ranks - 1 /\ Ranks \in Nat
      BY RanksAssumption DEF Rank
    <3>3. a \in a .. r /\ a \in 0 .. Ranks - 1
      BY <2>1, <3>1, <3>2
    <3>4. QED
      BY <3>1, <3>2, <3>3 DEF Rank
  <2>5. a = 0 \/ no[a - 1] = 0
    <3> SUFFICES ASSUME a # 0, no[a - 1] # 0 PROVE FALSE
      OBVIOUS
    <3>1. a - 1 \in Rank /\ a - 1 \in 0 .. r /\ ~(a <= a - 1)
      <4> HIDE DEF A
      <4>1. QED
        BY <2>1, <2>4 DEF Rank
    <3>2. no[a - 1] > 0
      BY <3>1
    <3>3. \A c \in a - 1 .. r : c = a - 1 \/ c \in a .. r
      BY <2>1, <2>4
    <3>4. a - 1 \in A
      BY <2>3, <3>1, <3>2, <3>3
    <3>5. QED
      BY <2>3, <3>1, <3>4, Zenon
  <2>6. a \in Starts(no)
    BY <2>4, <2>5 DEF Starts
  <2>7. PICK e \in Rank : IsEnd(a, e)
    BY <1>1, <2>6
  <2>8. r <= e
    <3> SUFFICES ASSUME e < r PROVE FALSE
      BY <2>1, RanksAssumption DEF Rank
    <3>1. e + 1 \in Rank /\ e + 1 \in a .. r
      BY <2>1, <2>4, <2>7, RanksAssumption DEF Rank
    <3>2. no[e + 1] = 0 /\ no[e + 1] > 0
      BY <2>3, <2>7, <3>1
    <3>3. QED
      BY <3>2
  <2>9. r \in a .. e
    BY <2>1, <2>4, <2>8, RanksAssumption DEF Rank
  <2>10. QED
    BY <2>6, <2>7, <2>9
<1>5. \A a \in Starts(no) : a \in Rank /\ Span(no, a) \subseteq Rank /\ \A r \in Span(no, a) : no[r] > 0
  BY <1>1
<1>6. QED
  BY <1>3, <1>4, <1>5


-----------------------------------------------------------------------------
(* The weight of a suit.                                                   *)
Weighed(no) == [a \in Starts(no) |-> GetWeightVal(no, BlockAt(no, a))]

\* The weight of a block is that of one of its two readings.
LEMMA BlockWeight ==
  ASSUME NEW no \in [Rank -> Nat], NEW a \in Starts(no)
  PROVE  /\ Weighed(no)[a] \in Weights
         /\ \E b \in {BlockAt(no, a), Reverse(BlockAt(no, a))} : Weighed(no)[a].w = val[<<no, b>>].w
         /\ \A g \in Weighed(no)[a].o : g \in Rank \X Nat /\ no[g[1]] > 0
<1> DEFINE b == BlockAt(no, a)
           v == Reverse(b)
<1>1. <<no, b>> \in Readings /\ <<no, v>> \in Readings
  BY BlockReading
<1>2. Weighed(no)[a] = GetWeightVal(no, b)
  BY DEF Weighed
<1> HIDE DEF b, v
<1>3. val[<<no, b>>] \in Weights /\ val[<<no, v>>] \in Weights
  BY <1>1, ValCases
<1>4. \A g \in val[<<no, b>>].o \cup val[<<no, v>>].o : g \in Rank \X Nat /\ no[g[1]] > 0
  BY <1>1, GrainsHeld
<1> DEFINE x == Cheaper(val[<<no, b>>], val[<<no, v>>])
<1>5. GetWeightVal(no, b) = IF Len(b) < 3 THEN val[<<no, b>>] ELSE x
  BY Zenon DEF GetWeightVal, WeightVal, v
<1>6. /\ x \in Weights /\ x.o \subseteq val[<<no, b>>].o \cup val[<<no, v>>].o
      /\ x.w = val[<<no, b>>].w \/ x.w = val[<<no, v>>].w
  BY <1>3, CheaperType
<1> HIDE DEF x
<1>7. CASE Len(b) < 3
  BY <1>2, <1>3, <1>4, <1>5, <1>7, Zenon DEF b, v
<1>8. CASE ~(Len(b) < 3)
  BY <1>2, <1>3, <1>4, <1>5, <1>6, <1>8, Zenon DEF b, v
<1>9. QED
  BY <1>7, <1>8

LEMMA SuitWeight ==
  ASSUME NEW no \in [Rank -> Nat]
  PROVE  /\ [r \in Rank |-> IF r \in Starts(no) THEN Weighed(no)[r].w ELSE 0] \in [Rank -> Nat]
         /\ SetWeight(no).w = Total([r \in Rank |-> IF r \in Starts(no) THEN Weighed(no)[r].w ELSE 0])
         /\ SetWeight(no) \in Weights
         /\ \A g \in SetWeight(no).o : g \in Rank \X Nat /\ no[g[1]] > 0
<1> DEFINE f == [r \in Rank |-> IF r \in Starts(no) THEN Weighed(no)[r].w ELSE 0]
           o == UNION {Weighed(no)[a].o : a \in Starts(no)}
<1>1. SetWeight(no) = [w |-> Total(f), o |-> o]
  BY DEF SetWeight, Weighed
<1>2. \A a \in Starts(no) : Weighed(no)[a].w \in Nat
  BY BlockWeight DEF Weights
<1>3. f \in [Rank -> Nat]
  BY <1>2
<1>4. \A g \in o : g \in Rank \X Nat /\ no[g[1]] > 0
  BY BlockWeight
<1> HIDE DEF f, o
<1>5. Total(f) \in Nat
  BY <1>3, TotalNat
<1>6. QED
  BY <1>1, <1>3, <1>4, <1>5 DEF f, Weights

\* The blocks have all the tiles.
LEMMA BlocksTotal ==
  ASSUME NEW no \in [Rank -> Nat]
  PROVE  /\ [r \in Rank |-> IF r \in Starts(no) THEN SumOf(no, Span(no, r)) ELSE 0] \in [Rank -> Nat]
         /\ Total([r \in Rank |-> IF r \in Starts(no) THEN SumOf(no, Span(no, r)) ELSE 0]) = Total(no)
<1> DEFINE t == [r \in Rank |-> IF r \in Starts(no) THEN SumOf(no, Span(no, r)) ELSE 0]
           Upper(k) == UNION {Span(no, a) : a \in {c \in Starts(no) : c < k}}
           S == {k \in Nat : Upto(t)[k] = SumOf(no, Upper(k))}
<1>1. ASSUME NEW a \in Starts(no) PROVE a \in Rank /\ Span(no, a) \in SUBSET Rank /\ SumOf(no, Span(no, a)) \in Nat
  <2>1. a \in Rank /\ Span(no, a) \in SUBSET Rank
    BY BlocksPart
  <2>2. QED
    BY <2>1, SumOfType
<1>2. t \in [Rank -> Nat] /\ t \in [Rank -> Int]
  BY <1>1
<1>3. \A k \in Nat : Upper(k) \in SUBSET Rank
  BY <1>1
<1>4. 0 \in S
  <2>1. Upper(0) = {}
    <3>1. \A c \in Starts(no) : ~(c < 0)
      BY <1>1, RanksAssumption DEF Rank
    <3>2. QED
      BY <3>1
  <2>2. SumOf(no, {}) = 0
    <3>1. [r \in Rank |-> IF r \in {} THEN no[r] ELSE 0] = [r \in Rank |-> 0]
      OBVIOUS
    <3>2. Total([r \in Rank |-> 0]) = 0
      BY TotalNat
    <3>3. QED
      BY <3>1, <3>2 DEF SumOf
  <2>3. Upto(t)[0] = 0
    BY <1>2, UptoSteps
  <2> HIDE DEF t, Upper
  <2>4. QED
    BY <2>1, <2>2, <2>3
<1>5. ASSUME NEW k \in 0 .. Ranks - 1, k \in S PROVE k + 1 \in S
  <2>1. k \in Rank /\ k \in Nat /\ k + 1 \in Nat
    BY RanksAssumption DEF Rank
  <2>2. Upto(t)[k + 1] = Upto(t)[k] + t[k]
    BY <1>2, <2>1, UptoSteps
  <2>3. Upto(t)[k] = SumOf(no, Upper(k))
    BY <1>5
  <2>4. \A c \in Starts(no) : c < k + 1 <=> (c < k \/ c = k)
    BY <1>1, <2>1, RanksAssumption DEF Rank
  <2>5. CASE k \in Starts(no)
    <3>1. Upper(k + 1) = Upper(k) \cup Span(no, k)
      BY <2>4, <2>5
    <3>2. Upper(k) \cap Span(no, k) = {}
      <4>1. \A c \in Starts(no) : c < k => c # k
        BY <1>1, <2>1, RanksAssumption DEF Rank
      <4>2. \A c \in Starts(no) : c # k => Span(no, c) \cap Span(no, k) = {}
        BY <2>5, BlocksPart
      <4>3. QED
        BY <4>1, <4>2
    <3>3. t[k] = SumOf(no, Span(no, k))
      BY <2>1, <2>5
    <3>4. Upper(k) \in SUBSET Rank /\ Span(no, k) \in SUBSET Rank
      BY <1>1, <1>3, <2>1, <2>5
    <3> HIDE DEF t, Upper
    <3>5. SumOf(no, Upper(k) \cup Span(no, k)) = SumOf(no, Upper(k)) + SumOf(no, Span(no, k))
      BY <3>2, <3>4, SumOfParts
    <3>6. Upto(t)[k + 1] = SumOf(no, Upper(k + 1))
      BY <2>2, <2>3, <3>1, <3>3, <3>5, Zenon
    <3>7. QED
      BY <2>1, <3>6
  <2>6. CASE k \notin Starts(no)
    <3>1. Upper(k + 1) = Upper(k)
      BY <2>4, <2>6
    <3>2. t[k] = 0
      BY <2>1, <2>6
    <3>3. Upto(t)[k] \in Int
      BY <1>2, <2>1, UptoSteps, RanksAssumption DEF Rank
    <3> HIDE DEF t, Upper
    <3>4. Upto(t)[k + 1] = Upto(t)[k]
      BY <2>2, <3>2, <3>3
    <3>5. Upto(t)[k + 1] = SumOf(no, Upper(k + 1))
      BY <2>3, <3>1, <3>4, Zenon
    <3>6. QED
      BY <2>1, <3>5
  <2>7. QED
    BY <2>5, <2>6
<1>6. \A r \in Rank \ Upper(Ranks) : no[r] = 0
  <2>1. \A a \in Starts(no) : a < Ranks
    BY <1>1, RanksAssumption DEF Rank
  <2>2. ASSUME NEW r \in Rank, no[r] > 0 PROVE r \in Upper(Ranks)
    <3>1. PICK a \in Starts(no) : r \in Span(no, a)
      BY <2>2, BlocksPart
    <3>2. QED
      BY <2>1, <3>1
  <2>3. QED
    BY <2>2
<1>7. Upper(Ranks) \in SUBSET Rank
  BY <1>3, RanksAssumption
<1> HIDE DEF S, Upper
<1>8. Ranks \in S
  <2>1. Ranks \in Nat /\ Ranks \in 0 .. Ranks
    BY RanksAssumption
  <2>2. 0 .. Ranks \subseteq S
    BY <1>4, <1>5, <2>1, InductUpto, Zenon
  <2>3. QED
    BY <2>1, <2>2, Zenon
<1>9. SumOf(no, Upper(Ranks)) = Total(no)
  BY <1>6, <1>7, SumOfType
<1>10. Total(t) = Upto(t)[Ranks]
  BY <1>2, UptoSteps
<1> HIDE DEF t
<1>11. Total(t) = Total(no)
  BY <1>8, <1>9, <1>10 DEF S
<1>12. QED
  BY <1>2, <1>11 DEF t

\* With three tiles of a rank at most, the weight of a suit and its tiles
\* make triplets.
THEOREM SuitThree ==
  ASSUME NEW no \in [Rank -> Nat], NoFour(no)
  PROVE  (SetWeight(no).w + SumLen(no)) % 3 = 0
<1> DEFINE f == [r \in Rank |-> IF r \in Starts(no) THEN Weighed(no)[r].w ELSE 0]
           t == [r \in Rank |-> IF r \in Starts(no) THEN SumOf(no, Span(no, r)) ELSE 0]
           h == [r \in Rank |-> f[r] + t[r]]
<1>1. f \in [Rank -> Nat] /\ SetWeight(no).w = Total(f)
  BY SuitWeight
<1>2. t \in [Rank -> Nat] /\ Total(t) = Total(no)
  BY BlocksTotal
<1>3. ASSUME NEW a \in Starts(no) PROVE (Weighed(no)[a].w + SumOf(no, Span(no, a))) % 3 = 0
  <2>1. PICK b \in {BlockAt(no, a), Reverse(BlockAt(no, a))} : Weighed(no)[a].w = val[<<no, b>>].w
    BY BlockWeight
  <2>2. <<no, b>> \in Readings /\ ToSet(b) = Span(no, a)
    BY BlockReading DEF Span
  <2>3. \A r \in ToSet(b) : no[r] <= 3
    <3>1. \A r \in ToSet(b) : r \in Rank
      BY <2>2, BlocksPart
    <3>2. QED
      BY <3>1 DEF NoFour
  <2>4. (val[<<no, b>>].w + SumOf(no, ToSet(b))) % 3 = 0
    BY <2>2, <2>3, WeightThree
  <2>5. QED
    BY <2>1, <2>2, <2>4, Zenon
<1>4. ASSUME NEW r \in Rank PROVE h[r] % 3 = 0
  <2>1. CASE r \in Starts(no)
    BY <1>3, <2>1
  <2>2. CASE r \notin Starts(no)
    BY <2>2
  <2>3. QED
    BY <2>1, <2>2
<1>5. h \in [Rank -> Nat]
  <2> HIDE DEF f, t
  <2>1. QED
    BY <1>1, <1>2
<1>6. f \in [Rank -> Int] /\ t \in [Rank -> Int] /\ h \in [Rank -> Int] /\ \A r \in Rank : h[r] = f[r] + t[r]
  <2> HIDE DEF f, t
  <2>1. QED
    BY <1>1, <1>2, <1>5
<1> HIDE DEF f, t, h
<1>7. Total(h) = Total(f) + Total(t)
  BY <1>6, TotalAdd
<1>8. Total(h) % 3 = 0
  BY <1>4, <1>5, TotalThree
<1>9. QED
  BY <1>1, <1>2, <1>7, <1>8, Zenon DEF SumLen


-----------------------------------------------------------------------------
(* The weight and melds.                                                   *)

(* Of the ranks T, sequences as s says and a pair of q leave none or a     *)
(* triplet of each.                                                        *)
Uses(s, r) == SumOf(s, r - 2 .. r)
Pair(q, r) == IF r = q THEN 2 ELSE 0
Inside(s, T) == \A a \in Rank : s[a] > 0 => a \in T /\ a + 1 \in T /\ a + 2 \in T
Melded(n, T, q, s) ==
  /\ s \in [Rank -> 0 .. 2] /\ Inside(s, T)
  /\ \A r \in T : n[r] - Pair(q, r) - Uses(s, r) \in {0, 3}
Spare(T, w) == IF w = 0 THEN {None} ELSE T

LEMMA UsesType ==
  ASSUME NEW s \in [Rank -> Nat], NEW r \in Int
  PROVE  /\ Uses(s, r) \in Nat
         /\ \A a \in Rank : a \in r - 2 .. r => s[a] <= Uses(s, r)
         /\ (\A a \in Rank : a \in r - 2 .. r => s[a] = 0) => Uses(s, r) = 0
<1> DEFINE g == [a \in Rank |-> IF a \in r - 2 .. r THEN s[a] ELSE 0]
<1>1. Uses(s, r) = Total(g)
  BY DEF Uses, SumOf
<1>2. g \in [Rank -> Nat] /\ \A a \in Rank : g[a] = IF a \in r - 2 .. r THEN s[a] ELSE 0
  OBVIOUS
<1> HIDE DEF g
<1>3. Total(g) \in Nat /\ (\A a \in Rank : g[a] <= Total(g)) /\ ((\A a \in Rank : g[a] = 0) => Total(g) = 0)
  BY <1>2, TotalNat
<1>4. \A a \in Rank : a \in r - 2 .. r => s[a] <= Total(g)
  BY <1>2, <1>3, Zenon
<1>5. (\A a \in Rank : a \in r - 2 .. r => s[a] = 0) => \A a \in Rank : g[a] = 0
  BY <1>2, Zenon
<1>6. QED
  BY <1>1, <1>3, <1>4, <1>5, Zenon

\* A sequence more.
LEMMA UsesMore ==
  ASSUME NEW s \in [Rank -> Nat], NEW r \in Int, NEW a \in Rank
  PROVE  Uses([s EXCEPT ![a] = @ + 1], r) = Uses(s, r) + (IF a \in r - 2 .. r THEN 1 ELSE 0)
<1> DEFINE z == [s EXCEPT ![a] = @ + 1]
           d == IF a \in r - 2 .. r THEN 1 ELSE 0
           g == [q \in Rank |-> IF q \in r - 2 .. r THEN s[q] ELSE 0]
           h == [q \in Rank |-> IF q \in r - 2 .. r THEN z[q] ELSE 0]
           f == [q \in Rank |-> IF q = a THEN d ELSE 0]
<1>1. Uses(s, r) = Total(g) /\ Uses(z, r) = Total(h)
  BY DEF Uses, SumOf
<1>2. g \in [Rank -> Int] /\ h \in [Rank -> Int] /\ f \in [Rank -> Int] /\ d \in Int
  OBVIOUS
<1>3. ASSUME NEW q \in Rank PROVE h[q] = g[q] + f[q]
  <2>1. CASE q = a
    <3>1. z[q] = s[q] + 1 /\ s[q] \in Nat
      BY <2>1
    <3>2. QED
      BY <2>1, <3>1
  <2>2. CASE q # a
    <3>1. z[q] = s[q] /\ s[q] \in Nat
      BY <2>2
    <3>2. QED
      BY <2>2, <3>1
  <2>3. QED
    BY <2>1, <2>2
<1>4. f[a] = d /\ \A q \in Rank \ {a} : f[q] = 0
  OBVIOUS
<1> HIDE DEF f, g, h, d, z
<1>5. Total(f) = d
  BY <1>2, <1>4, TotalSingle
<1>6. Total(h) = Total(g) + Total(f)
  BY <1>2, <1>3, TotalAdd
<1>7. QED
  BY <1>1, <1>5, <1>6, Zenon DEF d, z

\* Sequences inside some ranks use no tile of another.
LEMMA UsesOutside ==
  ASSUME NEW s \in [Rank -> 0 .. 2], NEW T, Inside(s, T), NEW r \in Int, r \notin T
  PROVE  Uses(s, r) = 0
<1>1. s \in [Rank -> Nat]
  OBVIOUS
<1>2. ASSUME NEW a \in Rank, a \in r - 2 .. r PROVE s[a] = 0
  <2>1. r = a \/ r = a + 1 \/ r = a + 2
    BY <1>2, RanksAssumption DEF Rank
  <2>2. ~(s[a] > 0)
    BY <2>1 DEF Inside
  <2>3. QED
    BY <1>1, <2>2
<1>3. QED
  BY <1>1, <1>2, UsesType

\* No number but one adds to a sum of one.
LEMMA TotalOne ==
  ASSUME NEW f \in [Rank -> Nat], Total(f) = 1
  PROVE  \E p \in Rank : f[p] = 1 /\ \A r \in Rank \ {p} : f[r] = 0
<1>1. \A r \in Rank : f[r] <= 1
  BY TotalNat
<1>2. PICK p \in Rank : f[p] # 0
  <2> SUFFICES ASSUME \A r \in Rank : f[r] = 0 PROVE FALSE
    OBVIOUS
  <2>1. Total(f) = 0
    BY TotalNat
  <2>2. QED
    BY <2>1
<1>3. f[p] = 1
  <2>1. f[p] \in Nat /\ f[p] <= 1
    BY <1>1
  <2>2. QED
    BY <1>2, <2>1
<1> DEFINE g == [f EXCEPT ![p] = @ + (-1)]
<1>4. f \in [Rank -> Int] /\ -1 \in Int
  OBVIOUS
<1>5. Total(g) = Total(f) + (-1)
  BY <1>4, TotalChange
<1>6. g \in [Rank -> Nat] /\ \A r \in Rank \ {p} : g[r] = f[r]
  BY <1>3
<1> HIDE DEF g
<1>7. Total(g) = 0
  BY <1>5
<1>8. \A r \in Rank : g[r] <= 0 /\ g[r] \in Nat
  BY <1>6, <1>7, TotalNat
<1>9. \A r \in Rank \ {p} : f[r] = 0
  <2>1. \A r \in Rank : g[r] = 0
    BY <1>8
  <2>2. QED
    BY <1>6, <2>1
<1>10. QED
  BY <1>3, <1>9

\* Ranks that are left over and weigh nothing are triplets; of those that
\* weigh 1, one is a pair.
LEMMA LooseMelds ==
  ASSUME NEW n \in [Rank -> Nat], NEW rs \in SUBSET Rank, \A r \in rs : n[r] <= 3,
         Loose(n, rs).w \in {0, 1}
  PROVE  \E q \in Spare(rs, Loose(n, rs).w) : \A r \in rs : n[r] - Pair(q, r) \in {0, 3}
<1> DEFINE f == [r \in Rank |-> IF r \in rs /\ n[r] < 3 THEN 3 - n[r] ELSE 0]
<1>1. Loose(n, rs).w = Total(f)
  BY LooseType
<1>2. f \in [Rank -> Nat]
  OBVIOUS
<1>3. \A r \in rs : n[r] \in Nat /\ n[r] <= 3 /\ f[r] = IF n[r] < 3 THEN 3 - n[r] ELSE 0
  OBVIOUS
<1>4. \A r \in Rank : f[r] # 0 => r \in rs
  OBVIOUS
<1> HIDE DEF f
<1>5. CASE Total(f) = 0
  <2>1. \A r \in Rank : f[r] <= 0
    BY <1>2, <1>5, TotalNat
  <2>2. ASSUME NEW r \in rs PROVE n[r] = 3
    <3>1. f[r] <= 0 /\ f[r] = IF n[r] < 3 THEN 3 - n[r] ELSE 0
      BY <1>3, <2>1
    <3>2. n[r] \in Nat /\ n[r] <= 3
      BY <1>3
    <3>3. QED
      BY <3>1, <3>2
  <2>3. ASSUME NEW r \in rs PROVE n[r] - Pair(None, r) \in {0, 3}
    <3>1. r # None
      BY RanksAssumption DEF None, Rank
    <3>2. Pair(None, r) = 0
      BY <3>1 DEF Pair
    <3>3. QED
      BY <2>2, <3>2
  <2>4. None \in Spare(rs, Loose(n, rs).w)
    BY <1>1, <1>5 DEF Spare
  <2>5. QED
    BY <2>3, <2>4
<1>6. CASE Total(f) = 1
  <2>1. PICK p \in Rank : f[p] = 1 /\ \A r \in Rank \ {p} : f[r] = 0
    BY <1>2, <1>6, TotalOne
  <2>2. p \in rs
    BY <1>4, <2>1
  <2>3. ASSUME NEW r \in rs PROVE n[r] - Pair(p, r) \in {0, 3}
    <3>1. f[r] = (IF n[r] < 3 THEN 3 - n[r] ELSE 0) /\ n[r] \in Nat /\ n[r] <= 3
      BY <1>3
    <3>2. CASE r = p
      <4>1. n[r] = 2
        BY <2>1, <3>1, <3>2
      <4>2. QED
        BY <3>2, <4>1 DEF Pair
    <3>3. CASE r # p
      <4>1. f[r] = 0
        BY <2>1, <3>3
      <4>2. n[r] = 3
        BY <3>1, <4>1
      <4>3. QED
        BY <3>3, <4>2 DEF Pair
    <3>4. QED
      BY <3>2, <3>3
  <2>4. p \in Spare(rs, Loose(n, rs).w)
    BY <1>1, <1>6, <2>2 DEF Spare
  <2>5. QED
    BY <2>3, <2>4
<1>7. QED
  BY <1>1, <1>5, <1>6


Reads(n, T, w) == \E q \in Spare(T, w) : \E s \in [Rank -> 0 .. 2] : Melded(n, T, q, s)

\* Left over ranks need no sequence.
LEMMA ReadsLoose ==
  ASSUME NEW n \in [Rank -> Nat], NEW rs \in SUBSET Rank, \A r \in rs : n[r] <= 3,
         Loose(n, rs).w \in {0, 1}
  PROVE  Reads(n, rs, Loose(n, rs).w)
<1>1. PICK q \in Spare(rs, Loose(n, rs).w) : \A r \in rs : n[r] - Pair(q, r) \in {0, 3}
  BY LooseMelds
<1> DEFINE s == [r \in Rank |-> 0]
<1>2. s \in [Rank -> 0 .. 2] /\ s \in [Rank -> Nat] /\ (\A a \in Rank : s[a] = 0)
  OBVIOUS
<1>3. Inside(s, rs)
  BY DEF Inside
<1> HIDE DEF s
<1>4. ASSUME NEW r \in rs PROVE n[r] - Pair(q, r) - Uses(s, r) \in {0, 3}
  <2>1. r \in Int
    BY RanksAssumption DEF Rank
  <2>2. Uses(s, r) = 0
    BY <1>2, <2>1, UsesType
  <2>3. n[r] - Pair(q, r) \in {0, 3} /\ \A x \in {0, 3} : x - 0 = x
    BY <1>1
  <2>4. QED
    BY <2>2, <2>3, Zenon
<1>5. Melded(n, rs, q, s)
  BY <1>2, <1>3, <1>4 DEF Melded
<1>6. QED
  BY <1>1, <1>2, <1>5 DEF Reads

\* A triplet at the end of a block.
LEMMA ReadsTriplet ==
  ASSUME NEW n \in [Rank -> Nat], NEW T \in SUBSET Rank, NEW p \in Rank, p \notin T, n[p] = 3,
         NEW w, Reads(n, T, w)
  PROVE  Reads(n, {p} \cup T, w)
<1>1. PICK q \in Spare(T, w), s \in [Rank -> 0 .. 2] : Melded(n, T, q, s)
  BY DEF Reads
<1>2. Inside(s, T) /\ \A r \in T : n[r] - Pair(q, r) - Uses(s, r) \in {0, 3}
  BY <1>1 DEF Melded
<1>3. p \in Int /\ p # None
  BY RanksAssumption DEF Rank, None
<1>4. Uses(s, p) = 0
  BY <1>2, <1>3, UsesOutside
<1>5. Pair(q, p) = 0
  BY <1>1, <1>3 DEF Pair, Spare
<1>6. n[p] - Pair(q, p) - Uses(s, p) = 3
  BY <1>4, <1>5
<1>7. Inside(s, {p} \cup T)
  BY <1>2 DEF Inside
<1>8. Melded(n, {p} \cup T, q, s)
  BY <1>2, <1>6, <1>7, Zenon DEF Melded
<1>9. q \in Spare({p} \cup T, w)
  BY <1>1 DEF Spare
<1>10. QED
  BY <1>8, <1>9 DEF Reads

\* The three first ranks of a block are those of a sequence.
LEMMA FirstThree ==
  ASSUME NEW b \in Seq(Rank), Adjacent(b), Len(b) >= 3
  PROVE  \E a \in Rank :
           /\ {b[1], b[2], b[3]} = {a, a + 1, a + 2}
           /\ \A r \in Int : a \in r - 2 .. r <=> r \in {b[1], b[2], b[3]}
<1>1. DOMAIN b = 1 .. Len(b) /\ Len(b) \in Nat /\ 1 \in 1 .. Len(b) /\ 2 \in 1 .. Len(b) /\ 3 \in 1 .. Len(b)
  OBVIOUS
<1>2. b[1] \in Rank /\ b[2] \in Rank /\ b[3] \in Rank
  BY <1>1
<1>3. b[1] \in Int /\ b[2] \in Int /\ b[3] \in Int
  BY <1>2, RanksAssumption DEF Rank
<1>4. CASE \A k \in DOMAIN b : b[k] = b[1] + (k - 1)
  <2>1. b[2] = b[1] + 1 /\ b[3] = b[1] + 2
    <3>1. b[2] = b[1] + (2 - 1) /\ b[3] = b[1] + (3 - 1)
      BY <1>1, <1>4
    <3>2. QED
      BY <3>1
  <2>2. \A r \in Int : b[1] \in r - 2 .. r <=> r \in {b[1], b[2], b[3]}
    BY <1>3, <2>1
  <2>3. {b[1], b[2], b[3]} = {b[1], b[1] + 1, b[1] + 2}
    BY <2>1
  <2>4. QED
    BY <1>2, <2>2, <2>3, Zenon
<1>5. CASE \A k \in DOMAIN b : b[k] = b[1] - (k - 1)
  <2>1. b[2] = b[3] + 1 /\ b[1] = b[3] + 2
    <3>1. b[2] = b[1] - (2 - 1) /\ b[3] = b[1] - (3 - 1)
      BY <1>1, <1>5
    <3>2. QED
      BY <1>3, <3>1
  <2>2. \A r \in Int : b[3] \in r - 2 .. r <=> r \in {b[1], b[2], b[3]}
    BY <1>3, <2>1
  <2>3. {b[1], b[2], b[3]} = {b[3], b[3] + 1, b[3] + 2}
    BY <2>1
  <2>4. QED
    BY <1>2, <2>2, <2>3, Zenon
<1>6. QED
  BY <1>4, <1>5 DEF Adjacent

\* A sequence at the end of a block.
LEMMA ReadsSequence ==
  ASSUME NEW n, NEW b, <<n, b>> \in Readings, Len(b) >= 3, ~(n[b[1]] > 2),
         \A r \in ToSet(b) : n[r] <= 3, NEW v \in Nat, LeftOver(n, b).w + v \in {0, 1},
         Reads(Less(n, b), ToSet(Rest(n, b)), v)
  PROVE  Reads(n, ToSet(b), LeftOver(n, b).w + v)
<1> DEFINE l == Less(n, b)
           T == ToSet(b)
           R == ToSet(Rest(n, b))
           used == {b[i] : i \in 1 .. UsedUp(n, b)}
           rs == {r \in used : l[r] # 0}
           u == LeftOver(n, b).w
<1>1. n \in [Rank -> Nat] /\ b \in Seq(Rank) /\ Adjacent(b) /\ Len(b) \in Nat
  BY ReadingDef
<1>2. /\ T = used \cup R /\ used \cap R = {} /\ T \in SUBSET Rank /\ {b[1], b[2], b[3]} \subseteq T
  BY ReadingParts
<1>3. l \in [Rank -> Nat] /\ \A r \in Rank : l[r] <= n[r]
  BY LessFacts
<1>4. l = [r \in Rank |-> IF r \in {b[1], b[2], b[3]} THEN n[r] - 1 ELSE n[r]]
  BY DEF Less
<1>5. LeftOver(n, b) = Loose(l, rs)
  BY DEF LeftOver
<1>6. u \in Nat
  BY LeftOverType DEF Weights
<1>7. rs \subseteq used /\ \A r \in used \ rs : l[r] = 0
  OBVIOUS
<1>8. PICK a \in Rank : /\ {b[1], b[2], b[3]} = {a, a + 1, a + 2}
                        /\ \A r \in Int : a \in r - 2 .. r <=> r \in {b[1], b[2], b[3]}
  BY <1>1, FirstThree
<1>9. PICK z \in Spare(R, v), s \in [Rank -> 0 .. 2] : Melded(l, R, z, s)
  BY DEF Reads
<1> HIDE DEF l, T, R, rs, used
<1>10. u = Loose(l, rs).w
  BY <1>5, Zenon
<1>11. u \in {0, 1} /\ v \in {0, 1} /\ (u = 0 \/ v = 0)
  <2>1. u + v = 0 \/ u + v = 1
    OBVIOUS
  <2> HIDE DEF u
  <2>2. QED
    BY <1>6, <2>1
<1>12. PICK y \in Spare(rs, u) : \A r \in rs : l[r] - Pair(y, r) \in {0, 3}
  <2>1. rs \in SUBSET Rank
    BY <1>2, <1>7
  <2>2. ASSUME NEW r \in rs PROVE l[r] <= 3
    <3>1. r \in T /\ r \in Rank
      BY <1>2, <1>7
    <3>2. n[r] <= 3 /\ l[r] <= n[r] /\ n[r] \in Nat /\ l[r] \in Nat
      BY <1>1, <1>3, <3>1 DEF T
    <3>3. QED
      BY <3>2
  <2>3. Loose(l, rs).w \in {0, 1}
    BY <1>10, <1>11
  <2>4. \E q \in Spare(rs, Loose(l, rs).w) : \A r \in rs : l[r] - Pair(q, r) \in {0, 3}
    BY <1>3, <2>1, <2>2, <2>3, LooseMelds
  <2>5. QED
    BY <1>10, <2>4, Zenon
<1> HIDE DEF u
<1> DEFINE q == IF u = 0 THEN z ELSE y
           t == [s EXCEPT ![a] = @ + 1]
<1>13. \A r \in Rank : r # None
  BY RanksAssumption DEF Rank, None
<1>14. (u = 0 => y = None) /\ (u # 0 => y \in rs /\ v = 0) /\ (v = 0 => z = None) /\ (v # 0 => z \in R /\ u = 0)
  BY <1>9, <1>11, <1>12 DEF Spare
<1>15. \A r \in R : Pair(q, r) = Pair(z, r)
  BY <1>2, <1>7, <1>13, <1>14 DEF Pair
<1>16. \A r \in used : Pair(q, r) = Pair(y, r)
  BY <1>2, <1>7, <1>13, <1>14 DEF Pair
<1>17. \A r \in used \ rs : Pair(y, r) = 0
  BY <1>2, <1>7, <1>13, <1>14 DEF Pair
<1>18. q \in Spare(T, u + v)
  <2>1. u + v = 0 => u = 0 /\ v = 0
    BY <1>6, <1>11
  <2>2. u # 0 => u + v # 0
    BY <1>6, <1>11
  <2>3. v # 0 => u + v # 0
    BY <1>6, <1>11
  <2>4. u = 0 /\ v = 0 => u + v = 0
    OBVIOUS
  <2>5. QED
    BY <1>2, <1>7, <1>14, <2>1, <2>2, <2>3, <2>4 DEF Spare
<1> HIDE DEF q
<1>19. Inside(s, R) /\ \A r \in R : l[r] - Pair(z, r) - Uses(s, r) \in {0, 3}
  BY <1>9 DEF Melded
<1>20. s \in [Rank -> Nat] /\ s[a] \in 0 .. 2
  OBVIOUS
<1>21. \A r \in Rank : r \in Int
  BY RanksAssumption DEF Rank
<1>22. s[a] <= 1
  <2> SUFFICES ASSUME s[a] > 0 PROVE s[a] <= 1
    BY <1>20
  <2>1. b[1] \in R /\ b[1] \in Rank /\ b[1] \in Int
    <3>1. {a, a + 1, a + 2} \subseteq R
      BY <1>19 DEF Inside
    <3>2. QED
      BY <1>2, <1>8, <1>21, <3>1
  <2>2. a \in b[1] - 2 .. b[1]
    BY <1>8, <2>1
  <2>3. s[a] <= Uses(s, b[1]) /\ Uses(s, b[1]) \in Nat
    BY <1>20, <2>1, <2>2, UsesType
  <2>4. l[b[1]] - Pair(z, b[1]) - Uses(s, b[1]) \in {0, 3}
    BY <1>19, <2>1
  <2>5. l[b[1]] = n[b[1]] - 1 /\ n[b[1]] \in Nat /\ n[b[1]] <= 2
    BY <1>1, <1>4, <2>1
  <2>6. Pair(z, b[1]) \in {0, 2}
    BY DEF Pair
  <2>7. \A x, y1, w1, s1 \in Int : x <= 1 /\ y1 \in {0, 2} /\ x - y1 - w1 \in {0, 3} /\ s1 <= w1 => s1 <= 1
    OBVIOUS
  <2>8. l[b[1]] \in Int /\ l[b[1]] <= 1 /\ Pair(z, b[1]) \in Int /\ Uses(s, b[1]) \in Int /\ s[a] \in Int
    BY <1>20, <2>3, <2>5, <2>6
  <2>9. QED
    BY <2>3, <2>4, <2>6, <2>7, <2>8, Zenon
<1>23. t \in [Rank -> 0 .. 2] /\ \A c \in Rank : t[c] > 0 => c = a \/ s[c] > 0
  BY <1>20, <1>22
<1>24. \A r \in Int : Uses(t, r) = Uses(s, r) + (IF r \in {b[1], b[2], b[3]} THEN 1 ELSE 0)
  <2>1. \A r \in Int : Uses(t, r) = Uses(s, r) + (IF a \in r - 2 .. r THEN 1 ELSE 0)
    BY <1>20, UsesMore
  <2> HIDE DEF t
  <2>2. QED
    BY <1>8, <2>1, Zenon
<1> HIDE DEF t
<1>25. Inside(t, T)
  <2>1. a \in T /\ a + 1 \in T /\ a + 2 \in T
    BY <1>2, <1>8
  <2>2. \A c \in Rank : s[c] > 0 => c \in T /\ c + 1 \in T /\ c + 2 \in T
    BY <1>2, <1>19 DEF Inside
  <2>3. QED
    BY <1>23, <2>1, <2>2, Zenon DEF Inside
<1>26. ASSUME NEW r \in T PROVE n[r] - Pair(q, r) - Uses(t, r) \in {0, 3}
  <2>1. r \in Rank /\ r \in Int /\ n[r] \in Int /\ l[r] \in Int
    <3>1. r \in Rank
      BY <1>2
    <3>2. n[r] \in Nat /\ l[r] \in Nat
      BY <1>1, <1>3, <3>1
    <3>3. QED
      BY <1>21, <3>1, <3>2
  <2>2. Uses(s, r) \in Int /\ Pair(q, r) \in Int
    BY <1>20, <2>1, UsesType DEF Pair
  <2>3. n[r] - Pair(q, r) - Uses(t, r) = l[r] - Pair(q, r) - Uses(s, r)
    <3>1. CASE r \in {b[1], b[2], b[3]}
      <4>1. l[r] = n[r] - 1 /\ Uses(t, r) = Uses(s, r) + 1
        BY <1>4, <1>24, <2>1, <3>1
      <4>2. \A x, c, w \in Int : x - c - (w + 1) = (x - 1) - c - w
        OBVIOUS
      <4>3. n[r] - Pair(q, r) - (Uses(s, r) + 1) = (n[r] - 1) - Pair(q, r) - Uses(s, r)
        BY <2>1, <2>2, <4>2
      <4>4. QED
        BY <4>1, <4>3, Zenon
    <3>2. CASE r \notin {b[1], b[2], b[3]}
      <4>1. l[r] = n[r] /\ Uses(t, r) = Uses(s, r) + 0
        BY <1>4, <1>24, <2>1, <3>2
      <4>2. QED
        BY <2>1, <2>2, <4>1
    <3>3. QED
      BY <3>1, <3>2
  <2>4. l[r] - Pair(q, r) - Uses(s, r) \in {0, 3}
    <3>1. CASE r \in R
      BY <1>15, <1>19, <3>1
    <3>2. CASE r \in used
      <4>1. Uses(s, r) = 0
        <5>1. r \notin R
          BY <1>2, <3>2
        <5>2. QED
          BY <1>19, <2>1, <5>1, UsesOutside
      <4>2. l[r] - Pair(y, r) \in {0, 3}
        <5>1. CASE r \in rs
          BY <1>12, <5>1
        <5>2. CASE r \notin rs
          BY <1>7, <1>17, <3>2, <5>2
        <5>3. QED
          BY <5>1, <5>2
      <4>3. Pair(q, r) = Pair(y, r)
        BY <1>16, <3>2
      <4>4. \A x \in {0, 3} : x - 0 \in {0, 3}
        OBVIOUS
      <4>5. QED
        BY <4>1, <4>2, <4>3, <4>4, Zenon
    <3>3. QED
      BY <1>2, <3>1, <3>2
  <2>5. QED
    BY <2>3, <2>4, Zenon
<1>27. Melded(n, T, q, t)
  BY <1>23, <1>25, <1>26 DEF Melded
<1>28. Reads(n, T, u + v)
  BY <1>18, <1>23, <1>27 DEF Reads
<1>29. QED
  BY <1>28 DEF T, u


\* A reading that weighs nothing finds melds, one that weighs 1 a pair too.
LEMMA WeightMelds ==
  ASSUME NEW n, NEW b, <<n, b>> \in Readings, \A r \in ToSet(b) : n[r] <= 3,
         val[<<n, b>>].w \in {0, 1}
  PROVE  Reads(n, ToSet(b), val[<<n, b>>].w)
<1> DEFINE Good(m, c) == (\A r \in ToSet(c) : m[r] <= 3) /\ val[<<m, c>>].w \in {0, 1}
                           => Reads(m, ToSet(c), val[<<m, c>>].w)
           P == {x \in Readings : Good(x[1], x[2])}
<1>1. ASSUME NEW m, NEW c, <<m, c>> \in Readings PROVE <<m, c>> \in P <=> Good(m, c)
  <2>1. <<m, c>>[1] = m /\ <<m, c>>[2] = c
    OBVIOUS
  <2> HIDE DEF Good
  <2>2. QED
    BY <1>1, <2>1
<1> HIDE DEF P
<1>2. ASSUME NEW m, NEW c, <<m, c>> \in Readings
      PROVE  m \in [Rank -> Nat] /\ ToSet(c) \in SUBSET Rank /\ val[<<m, c>>].w \in Nat
  <2>1. m \in [Rank -> Nat] /\ c \in Seq(Rank)
    BY <1>2, ReadingDef
  <2>2. ToSet(c) \in SUBSET Rank
    BY <2>1 DEF ToSet
  <2>3. val[<<m, c>>].w \in Nat
    BY <1>2, ValCases DEF Weights
  <2>4. QED
    BY <2>1, <2>2, <2>3
<1>3. ASSUME NEW m, NEW c, <<m, c>> \in Readings, Len(c) < 3
      PROVE  <<m, c>> \in P
  <2>1. val[<<m, c>>] = Loose(m, ToSet(c))
    BY <1>3, ValCases
  <2>2. m \in [Rank -> Nat] /\ ToSet(c) \in SUBSET Rank
    BY <1>2, <1>3
  <2>3. ASSUME \A r \in ToSet(c) : m[r] <= 3, val[<<m, c>>].w \in {0, 1}
        PROVE  Reads(m, ToSet(c), val[<<m, c>>].w)
    <3>1. Loose(m, ToSet(c)).w \in {0, 1}
      BY <2>1, <2>3
    <3>2. Reads(m, ToSet(c), Loose(m, ToSet(c)).w)
      BY <2>2, <2>3, <3>1, ReadsLoose
    <3>3. QED
      BY <2>1, <3>2, Zenon
  <2>4. QED
    BY <1>1, <1>3, <2>3, Zenon
<1>4. ASSUME NEW m, NEW c, <<m, c>> \in Readings, Len(c) >= 3, m[c[1]] > 2, <<m, Tail(c)>> \in P
      PROVE  <<m, c>> \in P
  <2> DEFINE d == Tail(c)
  <2>1. <<m, d>> \in Readings
    BY <1>4, TailReading
  <2>2. val[<<m, c>>] = val[<<m, d>>]
    BY <1>4, ValCases
  <2>3. ToSet(c) = {c[1]} \cup ToSet(d) /\ c[1] \notin ToSet(d) /\ c[1] \in Rank
    BY <1>4, TailParts
  <2> HIDE DEF d
  <2>4. ASSUME \A r \in ToSet(c) : m[r] <= 3, val[<<m, c>>].w \in {0, 1}
        PROVE  Reads(m, ToSet(c), val[<<m, c>>].w)
    <3>1. Reads(m, ToSet(d), val[<<m, d>>].w)
      <4>1. Good(m, d)
        BY <1>1, <1>4, <2>1, Zenon DEF d
      <4>2. QED
        BY <2>2, <2>3, <2>4, <4>1
    <3>2. m \in [Rank -> Nat] /\ ToSet(d) \in SUBSET Rank
      BY <1>2, <2>1
    <3>3. m[c[1]] = 3
      <4>1. m[c[1]] <= 3 /\ m[c[1]] \in Nat
        BY <2>3, <2>4, <3>2
      <4>2. QED
        BY <1>4, <4>1
    <3>4. Reads(m, {c[1]} \cup ToSet(d), val[<<m, d>>].w)
      BY <2>3, <3>1, <3>2, <3>3, ReadsTriplet
    <3>5. QED
      BY <2>2, <2>3, <3>4, Zenon
  <2>5. QED
    BY <1>1, <1>4, <2>4, Zenon
<1>5. ASSUME NEW m, NEW c, <<m, c>> \in Readings, Len(c) >= 3, ~(m[c[1]] > 2),
             <<Less(m, c), Rest(m, c)>> \in P, <<Less(m, c), Reverse(Rest(m, c))>> \in P
      PROVE  <<m, c>> \in P
  <2> DEFINE l == Less(m, c)
             d == Rest(m, c)
  <2>1. /\ <<l, d>> \in Readings /\ <<l, Reverse(d)>> \in Readings /\ ToSet(Reverse(d)) = ToSet(d)
    BY <1>5, RestReading
  <2>2. ToSet(d) \subseteq ToSet(c) /\ ToSet(c) \in SUBSET Rank
    BY <1>5, ReadingParts
  <2>3. l \in [Rank -> Nat] /\ \A r \in Rank : l[r] <= m[r]
    BY <1>5, LessFacts
  <2>4. LeftOver(m, c).w \in Nat
    BY <1>5, LeftOverType DEF Weights
  <2>5. PICK e \in {d, Reverse(d)} : val[<<m, c>>].w = LeftOver(m, c).w + val[<<l, e>>].w
    BY <1>5, ValCases, Zenon
  <2>6. <<l, e>> \in Readings /\ ToSet(e) = ToSet(d) /\ <<l, e>> \in P
    BY <1>5, <2>1, <2>5
  <2> HIDE DEF l, d
  <2>7. ASSUME \A r \in ToSet(c) : m[r] <= 3, val[<<m, c>>].w \in {0, 1}
        PROVE  Reads(m, ToSet(c), val[<<m, c>>].w)
    <3>1. ASSUME NEW r \in ToSet(e) PROVE l[r] <= 3
      <4>1. r \in Rank /\ m[r] <= 3
        BY <2>2, <2>6, <2>7
      <4>2. l[r] <= m[r] /\ l[r] \in Nat /\ m[r] \in Nat
        BY <1>2, <1>5, <2>3, <4>1
      <4>3. QED
        BY <4>1, <4>2
    <3>2. val[<<l, e>>].w \in Nat
      BY <1>2, <2>6
    <3>3. val[<<l, e>>].w \in {0, 1}
      <4>1. \A x, y \in Nat : x + y \in {0, 1} => y \in {0, 1}
        OBVIOUS
      <4>2. QED
        BY <2>4, <2>5, <2>7, <3>2, <4>1, Zenon
    <3>4. Reads(l, ToSet(e), val[<<l, e>>].w)
      BY <1>1, <2>6, <3>1, <3>3, Zenon
    <3>5. Reads(l, ToSet(d), val[<<l, e>>].w)
      BY <2>6, <3>4, Zenon
    <3>6. LeftOver(m, c).w + val[<<l, e>>].w \in {0, 1}
      BY <2>5, <2>7, Zenon
    <3>7. Reads(m, ToSet(c), LeftOver(m, c).w + val[<<l, e>>].w)
      BY <1>5, <2>7, <3>2, <3>5, <3>6, ReadsSequence DEF l, d
    <3>8. QED
      BY <2>5, <3>7, Zenon
  <2>8. QED
    BY <1>1, <1>5, <2>7, Zenon
<1>6. Readings \subseteq P
  <2>1. \A m, c : <<m, c>> \in Readings /\ Len(c) < 3 => <<m, c>> \in P
    BY <1>3, Zenon
  <2>2. \A m, c : <<m, c>> \in Readings /\ Len(c) >= 3 /\ m[c[1]] > 2 /\ <<m, Tail(c)>> \in P
                     => <<m, c>> \in P
    BY <1>4, Zenon
  <2>3. \A m, c : <<m, c>> \in Readings /\ Len(c) >= 3 /\ ~(m[c[1]] > 2) /\
                  <<Less(m, c), Rest(m, c)>> \in P /\ <<Less(m, c), Reverse(Rest(m, c))>> \in P
                     => <<m, c>> \in P
    BY <1>5
  <2>4. ReadingClosed(P)
    BY <2>1, <2>2, <2>3, Zenon DEF ReadingClosed
  <2>5. QED
    BY <2>4, ReadingCases
<1>7. QED
  BY <1>1, <1>6


\* So do the blocks of a suit.
LEMMA BlockMelds ==
  ASSUME NEW no \in [Rank -> Nat], NoFour(no), NEW a \in Starts(no), Weighed(no)[a].w \in {0, 1}
  PROVE  Reads(no, Span(no, a), Weighed(no)[a].w)
<1>1. PICK b \in {BlockAt(no, a), Reverse(BlockAt(no, a))} : Weighed(no)[a].w = val[<<no, b>>].w
  BY BlockWeight
<1>2. <<no, b>> \in Readings /\ ToSet(b) = Span(no, a)
  BY BlockReading DEF Span
<1>3. \A r \in ToSet(b) : no[r] <= 3
  <2>1. \A r \in ToSet(b) : r \in Rank
    BY <1>2, BlocksPart
  <2>2. QED
    BY <2>1 DEF NoFour
<1>4. val[<<no, b>>].w \in {0, 1}
  BY <1>1
<1>5. Reads(no, ToSet(b), val[<<no, b>>].w)
  BY <1>2, <1>3, <1>4, WeightMelds
<1>6. QED
  BY <1>1, <1>2, <1>5, Zenon

\* Melds of the blocks are melds of the suit, whatever its counts outside of
\* them are.
LEMMA SuitOfBlocks ==
  ASSUME NEW no \in [Rank -> Nat], NEW q,
         \A a \in Starts(no) : \E s \in [Rank -> 0 .. 2] : Melded(no, Span(no, a), q, s)
  PROVE  \E s \in [Rank -> 0 .. 2] :
           /\ \A r \in Rank : r + 2 \notin Rank => s[r] = 0
           /\ \A r \in Rank : no[r] > 0 => no[r] - Pair(q, r) - Uses(s, r) \in {0, 3}
           /\ \A r \in Rank : no[r] = 0 => Uses(s, r) = 0
<1> DEFINE S(a) == CHOOSE s \in [Rank -> 0 .. 2] : Melded(no, Span(no, a), q, s)
           At(r) == CHOOSE a \in Starts(no) : r \in Span(no, a)
           In(r) == \E a \in Starts(no) : r \in Span(no, a)
           s == [r \in Rank |-> IF In(r) THEN S(At(r))[r] ELSE 0]
<1>1. \A a \in Starts(no) : S(a) \in [Rank -> 0 .. 2] /\ Melded(no, Span(no, a), q, S(a))
  BY Zenon
<1>2. \A r : In(r) => At(r) \in Starts(no) /\ r \in Span(no, At(r))
  BY Zenon
<1>3. /\ \A a, c \in Starts(no) : a # c => Span(no, a) \cap Span(no, c) = {}
      /\ \A r \in Rank : no[r] > 0 => \E a \in Starts(no) : r \in Span(no, a)
      /\ \A a \in Starts(no) : a \in Rank /\ Span(no, a) \subseteq Rank /\ \A r \in Span(no, a) : no[r] > 0
  BY BlocksPart
<1>4. \A a \in Starts(no) : \A r \in Span(no, a) : In(r) /\ At(r) = a
  BY <1>2, <1>3
<1> HIDE DEF S, At
<1>5. s \in [Rank -> 0 .. 2]
  BY <1>1, <1>2
<1>6. s \in [Rank -> Nat]
  BY <1>5
<1>7. ASSUME NEW c \in Rank, s[c] > 0
      PROVE  \E a \in Starts(no) : c \in Span(no, a) /\ c + 1 \in Span(no, a) /\ c + 2 \in Span(no, a)
  <2>1. In(c) /\ s[c] = S(At(c))[c]
    BY <1>7
  <2>2. At(c) \in Starts(no) /\ S(At(c))[c] > 0
    BY <1>2, <1>7, <2>1
  <2>3. Inside(S(At(c)), Span(no, At(c)))
    BY <1>1, <2>2 DEF Melded
  <2>4. QED
    BY <2>2, <2>3 DEF Inside
<1>8. ASSUME NEW r \in Rank, r + 2 \notin Rank PROVE s[r] = 0
  <2>1. ~(s[r] > 0)
    BY <1>3, <1>7, <1>8
  <2>2. QED
    BY <1>6, <2>1
<1>9. \A r \in Rank : r \in Int
  BY RanksAssumption DEF Rank
<1>10. \A r, c \in Rank : c \in r - 2 .. r => r = c \/ r = c + 1 \/ r = c + 2
  BY RanksAssumption DEF Rank
<1>11. ASSUME NEW r \in Rank, no[r] = 0 PROVE Uses(s, r) = 0
  <2>1. ASSUME NEW c \in Rank, c \in r - 2 .. r PROVE s[c] = 0
    <3>1. ~(s[c] > 0)
      <4> SUFFICES ASSUME s[c] > 0 PROVE FALSE
        OBVIOUS
      <4>1. PICK a \in Starts(no) : c \in Span(no, a) /\ c + 1 \in Span(no, a) /\ c + 2 \in Span(no, a)
        BY <1>7
      <4>2. r \in Span(no, a)
        BY <1>10, <2>1, <4>1
      <4>3. no[r] > 0
        BY <1>3, <4>2
      <4>4. QED
        BY <1>11, <4>3
    <3>2. QED
      BY <1>6, <3>1
  <2> HIDE DEF s
  <2>2. QED
    BY <1>6, <1>9, <2>1, UsesType
<1>12. ASSUME NEW r \in Rank, no[r] > 0 PROVE no[r] - Pair(q, r) - Uses(s, r) \in {0, 3}
  <2>1. PICK a \in Starts(no) : r \in Span(no, a)
    BY <1>3, <1>12
  <2> DEFINE z == S(a)
  <2>2. z \in [Rank -> 0 .. 2] /\ Inside(z, Span(no, a)) /\ no[r] - Pair(q, r) - Uses(z, r) \in {0, 3}
    BY <1>1, <2>1 DEF Melded
  <2>3. ASSUME NEW c \in Rank, c \in r - 2 .. r PROVE s[c] = z[c]
    <3>1. CASE c \in Span(no, a)
      <4>1. In(c) /\ At(c) = a
        BY <1>4, <3>1
      <4>2. QED
        BY <4>1
    <3>2. CASE c \notin Span(no, a)
      <4>1. z[c] = 0
        <5>1. ~(z[c] > 0)
          BY <2>2, <3>2 DEF Inside
        <5>2. QED
          BY <2>2, <5>1
      <4>2. ~(s[c] > 0)
        <5> SUFFICES ASSUME s[c] > 0 PROVE FALSE
          OBVIOUS
        <5>1. PICK d \in Starts(no) : c \in Span(no, d) /\ c + 1 \in Span(no, d) /\ c + 2 \in Span(no, d)
          BY <1>7
        <5>2. r \in Span(no, d) /\ d # a
          BY <1>10, <2>3, <3>2, <5>1
        <5>3. QED
          BY <1>3, <2>1, <5>2
      <4>3. s[c] = 0
        BY <1>6, <4>2
      <4>4. QED
        BY <4>1, <4>3
    <3>3. QED
      BY <3>1, <3>2
  <2> HIDE DEF s, z
  <2>4. Uses(s, r) = Uses(z, r)
    <3> DEFINE f == [c \in Rank |-> IF c \in r - 2 .. r THEN s[c] ELSE 0]
               g == [c \in Rank |-> IF c \in r - 2 .. r THEN z[c] ELSE 0]
    <3>1. f = g
      BY <2>3
    <3>2. Uses(s, r) = Total(f) /\ Uses(z, r) = Total(g)
      BY DEF Uses, SumOf
    <3> HIDE DEF f, g
    <3>3. QED
      BY <3>1, <3>2, Zenon
  <2>5. QED
    BY <2>2, <2>4, Zenon
<1> HIDE DEF s
<1>13. QED
  BY <1>5, <1>8, <1>11, <1>12

\* A suit that weighs nothing, with three tiles of a rank at most, consists of
\* melds.
THEOREM SuitMelds ==
  ASSUME NEW no \in [Rank -> Nat], NoFour(no), SetWeight(no).w = 0
  PROVE  IsMelds(no)
<1> DEFINE f == [r \in Rank |-> IF r \in Starts(no) THEN Weighed(no)[r].w ELSE 0]
<1>1. f \in [Rank -> Nat] /\ Total(f) = 0
  BY SuitWeight
<1>2. \A r \in Rank : f[r] <= 0 /\ f[r] \in Nat
  <2> HIDE DEF f
  <2>1. QED
    BY <1>1, TotalNat
<1>3. \A r \in Rank : f[r] = 0
  <2> HIDE DEF f
  <2>1. QED
    BY <1>2
<1>4. ASSUME NEW a \in Starts(no) PROVE \E s \in [Rank -> 0 .. 2] : Melded(no, Span(no, a), None, s)
  <2>1. a \in Rank
    BY BlocksPart
  <2>2. Weighed(no)[a].w = 0
    BY <1>3, <2>1
  <2>3. Reads(no, Span(no, a), Weighed(no)[a].w)
    BY <2>2, BlockMelds
  <2>4. Reads(no, Span(no, a), 0)
    BY <2>2, <2>3, Zenon
  <2>5. QED
    BY <2>4 DEF Reads, Spare
<1>5. PICK s \in [Rank -> 0 .. 2] :
        /\ \A r \in Rank : r + 2 \notin Rank => s[r] = 0
        /\ \A r \in Rank : no[r] > 0 => no[r] - Pair(None, r) - Uses(s, r) \in {0, 3}
        /\ \A r \in Rank : no[r] = 0 => Uses(s, r) = 0
  BY <1>4, SuitOfBlocks
<1>6. ASSUME NEW r \in Rank PROVE no[r] - Uses(s, r) \in {0, 3}
  <2>1. CASE no[r] > 0
    <3>1. Pair(None, r) = 0
      BY RanksAssumption DEF Pair, None, Rank
    <3>2. no[r] - 0 - Uses(s, r) \in {0, 3}
      BY <1>5, <2>1, <3>1, Zenon
    <3>3. no[r] - 0 = no[r]
      OBVIOUS
    <3>4. QED
      BY <3>2, <3>3, Zenon
  <2>2. CASE no[r] = 0
    BY <1>5, <2>2
  <2>3. QED
    BY <2>1, <2>2
<1>7. QED
  BY <1>5, <1>6 DEF IsMelds, Uses

\* One that weighs 1, of melds and a pair.
THEOREM SuitComplete ==
  ASSUME NEW no \in [Rank -> Nat], NoFour(no), SetWeight(no).w = 1
  PROVE  IsComplete(no)
<1> DEFINE f == [r \in Rank |-> IF r \in Starts(no) THEN Weighed(no)[r].w ELSE 0]
<1>1. f \in [Rank -> Nat] /\ Total(f) = 1
  BY SuitWeight
<1>2. PICK p \in Rank : f[p] = 1 /\ \A r \in Rank \ {p} : f[r] = 0
  <2> HIDE DEF f
  <2>1. QED
    BY <1>1, TotalOne
<1>3. p \in Starts(no) /\ Weighed(no)[p].w = 1
  BY <1>2
<1>4. \A a \in Starts(no) \ {p} : Weighed(no)[a].w = 0
  <2>1. \A a \in Starts(no) : a \in Rank
    BY BlocksPart
  <2>2. QED
    BY <1>2, <2>1
<1> HIDE DEF f
<1>5. PICK q \in Span(no, p) : \E s \in [Rank -> 0 .. 2] : Melded(no, Span(no, p), q, s)
  <2>1. Reads(no, Span(no, p), Weighed(no)[p].w)
    BY <1>3, BlockMelds
  <2>2. Reads(no, Span(no, p), 1)
    BY <1>3, <2>1, Zenon
  <2>3. QED
    BY <2>2 DEF Reads, Spare
<1>6. q \in Rank /\ no[q] > 0 /\ no[q] \in Nat
  BY <1>3, BlocksPart
<1>7. ASSUME NEW a \in Starts(no) PROVE \E s \in [Rank -> 0 .. 2] : Melded(no, Span(no, a), q, s)
  <2>1. CASE a = p
    BY <1>5, <2>1
  <2>2. CASE a # p
    <3>1. Weighed(no)[a].w = 0
      BY <1>4, <2>2
    <3>2. Reads(no, Span(no, a), Weighed(no)[a].w)
      BY <3>1, BlockMelds
    <3>3. Reads(no, Span(no, a), 0)
      BY <3>1, <3>2, Zenon
    <3>4. PICK s \in [Rank -> 0 .. 2] : Melded(no, Span(no, a), None, s)
      BY <3>3 DEF Reads, Spare
    <3>5. \A r \in Span(no, a) : r # q /\ r # None
      <4>1. Span(no, a) \cap Span(no, p) = {} /\ Span(no, a) \subseteq Rank
        BY <1>3, <2>2, BlocksPart
      <4>2. \A r \in Rank : r # None
        BY RanksAssumption DEF Rank, None
      <4>3. QED
        BY <1>5, <4>1, <4>2
    <3>6. \A r \in Span(no, a) : Pair(q, r) = Pair(None, r)
      BY <3>5 DEF Pair
    <3>7. Melded(no, Span(no, a), q, s)
      BY <3>4, <3>6, Zenon DEF Melded
    <3>8. QED
      BY <3>7
  <2>3. QED
    BY <2>1, <2>2
<1>8. PICK s \in [Rank -> 0 .. 2] :
        /\ \A r \in Rank : r + 2 \notin Rank => s[r] = 0
        /\ \A r \in Rank : no[r] > 0 => no[r] - Pair(q, r) - Uses(s, r) \in {0, 3}
        /\ \A r \in Rank : no[r] = 0 => Uses(s, r) = 0
  BY <1>7, SuitOfBlocks
<1> DEFINE m == [no EXCEPT ![q] = @ - 2]
<1>9. \A r \in Rank : m[r] = no[r] - Pair(q, r)
  <2>1. ASSUME NEW r \in Rank PROVE m[r] = no[r] - Pair(q, r)
    <3>1. CASE r = q
      BY <1>6, <3>1 DEF Pair
    <3>2. CASE r # q
      BY <3>2 DEF Pair
    <3>3. QED
      BY <3>1, <3>2
  <2>2. QED
    BY <2>1
<1>10. ASSUME NEW r \in Rank PROVE m[r] - Uses(s, r) \in {0, 3}
  <2>1. m[r] = no[r] - Pair(q, r)
    BY <1>9
  <2> HIDE DEF m
  <2>2. CASE no[r] > 0
    BY <1>8, <2>1, <2>2
  <2>3. CASE no[r] = 0
    <3>1. Pair(q, r) = 0 /\ Uses(s, r) = 0
      BY <1>6, <1>8, <2>3 DEF Pair
    <3>2. QED
      BY <2>1, <2>3, <3>1
  <2>4. QED
    BY <2>2, <2>3
<1>11. IsMelds(m)
  <2> HIDE DEF m
  <2>1. QED
    BY <1>8, <1>10 DEF IsMelds, Uses
<1>12. no[q] >= 2
  <2>1. s \in [Rank -> Nat] /\ q \in Int
    BY <1>6, RanksAssumption DEF Rank
  <2>2. Uses(s, q) \in Nat
    BY <2>1, UsesType
  <2>3. no[q] - 2 - Uses(s, q) \in {0, 3}
    BY <1>6, <1>8 DEF Pair
  <2>4. QED
    BY <1>6, <2>2, <2>3
<1>13. QED
  BY <1>6, <1>11, <1>12 DEF IsComplete

-----------------------------------------------------------------------------
(* Melds and the weight: what a suit consists of, the greedy readings find. *)

(* Of the ranks T, sequences and a pair of q leave none or a triplet of    *)
(* each; the weight this is worth.                                         *)
Fits(n, T, q) == \E s \in [Rank -> 0 .. 2] : Melded(n, T, q, s)
Spared(T, q) == IF q \in T THEN 1 ELSE 0

\* Of the sequences inside a block, one has its first rank, and those that have
\* its second rank have the third too.
LEMMA FirstOnly ==
  ASSUME NEW b \in Seq(Rank), Adjacent(b), Len(b) >= 3
  PROVE  \E a \in Rank :
           /\ {b[1], b[2], b[3]} = {a, a + 1, a + 2}
           /\ \A r \in Int : a \in r - 2 .. r <=> r \in {b[1], b[2], b[3]}
           /\ \A c \in Rank : c \in ToSet(b) /\ c + 1 \in ToSet(b) /\ c + 2 \in ToSet(b) =>
                /\ b[1] \in {c, c + 1, c + 2} => c = a
                /\ b[2] \in {c, c + 1, c + 2} => b[3] \in {c, c + 1, c + 2}
<1>1. DOMAIN b = 1 .. Len(b) /\ Len(b) \in Nat /\ 1 \in 1 .. Len(b) /\ 2 \in 1 .. Len(b) /\ 3 \in 1 .. Len(b)
  OBVIOUS
<1>2. b[1] \in Rank /\ b[2] \in Rank /\ b[3] \in Rank
  BY <1>1
<1>3. b[1] \in Int /\ b[2] \in Int /\ b[3] \in Int /\ \A c \in Rank : c \in Int
  BY <1>2, RanksAssumption DEF Rank
<1>4. \A r \in ToSet(b) : \E k \in 1 .. Len(b) : r = b[k]
  BY <1>1 DEF ToSet
<1>5. CASE \A k \in DOMAIN b : b[k] = b[1] + (k - 1)
  <2>1. b[2] = b[1] + 1 /\ b[3] = b[1] + 2
    <3>1. b[2] = b[1] + (2 - 1) /\ b[3] = b[1] + (3 - 1)
      BY <1>1, <1>5
    <3>2. QED
      BY <3>1
  <2>2. \A r \in Int : b[1] \in r - 2 .. r <=> r \in {b[1], b[2], b[3]}
    BY <1>3, <2>1
  <2>3. {b[1], b[2], b[3]} = {b[1], b[1] + 1, b[1] + 2}
    BY <2>1
  <2>4. ASSUME NEW r \in ToSet(b) PROVE r >= b[1]
    <3>1. PICK k \in 1 .. Len(b) : r = b[k]
      BY <1>4
    <3>2. r = b[1] + (k - 1) /\ k \in Int /\ k >= 1
      BY <1>1, <1>5, <3>1
    <3>3. QED
      BY <1>3, <3>2
  <2>5. ASSUME NEW c \in Rank, c \in ToSet(b)
        PROVE  /\ b[1] \in {c, c + 1, c + 2} => c = b[1]
               /\ b[2] \in {c, c + 1, c + 2} => b[3] \in {c, c + 1, c + 2}
    <3>1. c >= b[1] /\ c \in Int
      BY <1>3, <2>4, <2>5
    <3>2. QED
      BY <1>3, <2>1, <3>1
  <2>6. QED
    BY <1>2, <2>2, <2>3, <2>5, Zenon
<1>6. CASE \A k \in DOMAIN b : b[k] = b[1] - (k - 1)
  <2>1. b[2] = b[3] + 1 /\ b[1] = b[3] + 2
    <3>1. b[2] = b[1] - (2 - 1) /\ b[3] = b[1] - (3 - 1)
      BY <1>1, <1>6
    <3>2. QED
      BY <1>3, <3>1
  <2>2. \A r \in Int : b[3] \in r - 2 .. r <=> r \in {b[1], b[2], b[3]}
    BY <1>3, <2>1
  <2>3. {b[1], b[2], b[3]} = {b[3], b[3] + 1, b[3] + 2}
    BY <2>1
  <2>4. ASSUME NEW r \in ToSet(b) PROVE r <= b[1]
    <3>1. PICK k \in 1 .. Len(b) : r = b[k]
      BY <1>4
    <3>2. r = b[1] - (k - 1) /\ k \in Int /\ k >= 1
      BY <1>1, <1>6, <3>1
    <3>3. QED
      BY <1>3, <3>2
  <2>5. ASSUME NEW c \in Rank, c + 2 \in ToSet(b)
        PROVE  /\ b[1] \in {c, c + 1, c + 2} => c = b[3]
               /\ b[2] \in {c, c + 1, c + 2} => b[3] \in {c, c + 1, c + 2}
    <3>1. c + 2 <= b[1] /\ c \in Int
      BY <1>3, <2>4, <2>5
    <3>2. QED
      BY <1>3, <2>1, <3>1
  <2>6. QED
    BY <1>2, <2>2, <2>3, <2>5, Zenon
<1>7. QED
  BY <1>5, <1>6 DEF Adjacent

\* After a sequence, the rest is read from the end that costs less.
LEMMA ValAtMost ==
  ASSUME NEW n, NEW b, <<n, b>> \in Readings, Len(b) >= 3, ~(n[b[1]] > 2)
  PROVE  LET u == LeftOver(n, b).w
             v == val[<<n, b>>].w
             x == val[<<Less(n, b), Rest(n, b)>>].w
             y == val[<<Less(n, b), Reverse(Rest(n, b))>>].w
         IN  /\ u \in Nat /\ v \in Nat /\ x \in Nat /\ y \in Nat
             /\ v <= u + x
             /\ Len(Rest(n, b)) >= 3 => v <= u + y
<1> DEFINE l == Less(n, b)
           c == Rest(n, b)
           lo == LeftOver(n, b)
           vx == val[<<l, c>>]
           vy == val[<<l, Reverse(c)>>]
           vv == val[<<n, b>>]
<1>1. <<l, c>> \in Readings /\ <<l, Reverse(c)>> \in Readings
  BY RestReading
<1>2. vx \in Weights /\ vy \in Weights /\ vv \in Weights /\ lo \in Weights
  BY <1>1, ValCases, LeftOverType
<1>3. vv = Read(val, <<n, b>>)
  BY ValEquation
<1>4. <<n, b>>[1] = n /\ <<n, b>>[2] = b
  OBVIOUS
<1>5. Len(c) \in Nat /\ Len(b) \in Nat
  BY <1>1, ReadingDef
<1>6. vv = IF Len(c) < 3 THEN Both(lo, vx) ELSE Both(lo, Cheaper(vy, vx))
  <2>1. ~(Len(b) < 3)
    BY <1>5
  <2> HIDE DEF vv
  <2>2. QED
    BY <1>3, <1>4, <2>1, Zenon DEF Read
<1>7. Cheaper(vy, vx) \in Weights /\ Cheaper(vy, vx).w <= vx.w /\ Cheaper(vy, vx).w <= vy.w
  BY <1>2, CheaperType
<1> HIDE DEF vv, vx, vy, lo, c
<1>8. Both(lo, vx).w = lo.w + vx.w /\ Both(lo, Cheaper(vy, vx)).w = lo.w + Cheaper(vy, vx).w
  BY <1>2, <1>7, BothType
<1>9. lo.w \in Nat /\ vx.w \in Nat /\ vy.w \in Nat /\ vv.w \in Nat /\ Cheaper(vy, vx).w \in Nat
  BY <1>2, <1>7 DEF Weights
<1>10. vv.w <= lo.w + vx.w /\ (Len(c) >= 3 => vv.w <= lo.w + vy.w)
  <2>1. CASE Len(c) < 3
    <3>1. vv.w = lo.w + vx.w
      BY <1>6, <1>8, <2>1, Zenon
    <3>2. QED
      BY <1>5, <1>9, <2>1, <3>1
  <2>2. CASE ~(Len(c) < 3)
    <3>1. vv.w = lo.w + Cheaper(vy, vx).w
      BY <1>6, <1>8, <2>2, Zenon
    <3>2. QED
      BY <1>7, <1>9, <3>1
  <2>3. QED
    BY <2>1, <2>2
<1>11. QED
  BY <1>9, <1>10, Zenon DEF vv, vx, vy, lo, c

\* Sequences that stay inside some of the ranks.
LEMMA MeldedPart ==
  ASSUME NEW n, NEW T, NEW q, NEW s, Melded(n, T, q, s), NEW U \in SUBSET T, Inside(s, U)
  PROVE  Melded(n, U, q, s) /\ Fits(n, U, q)
BY DEF Melded, Fits

\* The sequences inside T that use the rank r start at a.
Only(T, r, a) ==
  \A c \in Rank : c \in T /\ c + 1 \in T /\ c + 2 \in T => (r \in {c, c + 1, c + 2} => c = a)

LEMMA UsesOnly ==
  ASSUME NEW T, NEW s \in [Rank -> 0 .. 2], Inside(s, T),
         NEW a \in Rank, NEW r \in Rank, a \in r - 2 .. r, Only(T, r, a)
  PROVE  Uses(s, r) = s[a]
<1> DEFINE g == [c \in Rank |-> IF c \in r - 2 .. r THEN s[c] ELSE 0]
<1>1. Uses(s, r) = Total(g)
  BY DEF Uses, SumOf
<1>2. g \in [Rank -> Int] /\ g[a] = s[a]
  OBVIOUS
<1>3. ASSUME NEW c \in Rank \ {a} PROVE g[c] = 0
  <2>1. CASE c \in r - 2 .. r
    <3>1. r \in {c, c + 1, c + 2}
      BY <2>1, RanksAssumption DEF Rank
    <3>2. ~(s[c] > 0)
      BY <3>1 DEF Inside, Only
    <3>3. s[c] \in 0 .. 2
      OBVIOUS
    <3>4. QED
      BY <3>2, <3>3
  <2>2. CASE c \notin r - 2 .. r
    BY <2>2
  <2>3. QED
    BY <2>1, <2>2
<1> HIDE DEF g
<1>4. QED
  BY <1>1, <1>2, <1>3, TotalSingle

\* A triplet at the end of a block is not part of a sequence.
LEMMA FitsTriplet ==
  ASSUME NEW n, NEW b, <<n, b>> \in Readings, Len(b) >= 3, n[b[1]] = 3, NEW q, q # b[1],
         Fits(n, ToSet(b), q)
  PROVE  Fits(n, ToSet(Tail(b)), q)
<1>1. n \in [Rank -> Nat] /\ b \in Seq(Rank) /\ Adjacent(b)
  BY ReadingDef
<1>2. PICK a \in Rank :
        /\ {b[1], b[2], b[3]} = {a, a + 1, a + 2}
        /\ \A r \in Int : a \in r - 2 .. r <=> r \in {b[1], b[2], b[3]}
        /\ \A c \in Rank : c \in ToSet(b) /\ c + 1 \in ToSet(b) /\ c + 2 \in ToSet(b) =>
             /\ b[1] \in {c, c + 1, c + 2} => c = a
             /\ b[2] \in {c, c + 1, c + 2} => b[3] \in {c, c + 1, c + 2}
  BY <1>1, FirstOnly
<1>3. ToSet(b) = {b[1]} \cup ToSet(Tail(b)) /\ b[1] \notin ToSet(Tail(b)) /\ b[1] \in Rank
  BY TailParts
<1>4. PICK s \in [Rank -> 0 .. 2] : Melded(n, ToSet(b), q, s)
  BY DEF Fits
<1>5. Inside(s, ToSet(b)) /\ n[b[1]] - Pair(q, b[1]) - Uses(s, b[1]) \in {0, 3}
  BY <1>3, <1>4 DEF Melded
<1>6. Uses(s, b[1]) = s[a]
  <2>1. a \in b[1] - 2 .. b[1]
    <3>1. b[1] \in Int
      BY <1>3, RanksAssumption DEF Rank
    <3>2. QED
      BY <1>2, <3>1
  <2>2. Only(ToSet(b), b[1], a)
    BY <1>2, Zenon DEF Only
  <2>3. b[1] \in Rank /\ Inside(s, ToSet(b))
    BY <1>3, <1>5
  <2>4. QED
    BY <2>1, <2>2, <2>3, UsesOnly
<1>7. s[a] = 0
  <2>1. Pair(q, b[1]) = 0 /\ s[a] \in 0 .. 2
    BY DEF Pair
  <2>2. 3 - 0 - s[a] \in {0, 3}
    BY <1>5, <1>6, <2>1, Zenon
  <2>3. QED
    BY <2>1, <2>2
<1>8. Inside(s, ToSet(Tail(b)))
  <2>1. ASSUME NEW c \in Rank, s[c] > 0 PROVE b[1] \notin {c, c + 1, c + 2}
    <3>1. c # a
      BY <1>7, <2>1
    <3>2. c \in ToSet(b) /\ c + 1 \in ToSet(b) /\ c + 2 \in ToSet(b)
      BY <1>5, <2>1 DEF Inside
    <3>3. QED
      BY <1>2, <3>1, <3>2
  <2>2. ASSUME NEW c \in Rank, s[c] > 0
        PROVE  c \in ToSet(Tail(b)) /\ c + 1 \in ToSet(Tail(b)) /\ c + 2 \in ToSet(Tail(b))
    <3>1. c \in ToSet(b) /\ c + 1 \in ToSet(b) /\ c + 2 \in ToSet(b)
      BY <1>5, <2>2 DEF Inside
    <3>2. c # b[1] /\ c + 1 # b[1] /\ c + 2 # b[1]
      BY <2>1, <2>2
    <3>3. QED
      BY <1>3, <3>1, <3>2
  <2>3. QED
    BY <2>2 DEF Inside
<1>9. QED
  BY <1>3, <1>4, <1>8, MeldedPart

\* No sequence goes through a rank that is used up.
LEMMA MeldedEmpty ==
  ASSUME NEW n \in [Rank -> Nat], NEW T \in SUBSET Rank, NEW q, NEW t \in [Rank -> 0 .. 2],
         Melded(n, T, q, t), NEW r \in T, n[r] = 0
  PROVE  /\ r # q /\ Uses(t, r) = 0
         /\ \A c \in Rank : t[c] > 0 => r \notin {c, c + 1, c + 2}
<1>1. r \in Rank /\ r \in Int /\ t \in [Rank -> Nat]
  BY RanksAssumption DEF Rank
<1>2. Uses(t, r) \in Nat /\ \A c \in Rank : c \in r - 2 .. r => t[c] <= Uses(t, r)
  BY <1>1, UsesType
<1>3. n[r] - Pair(q, r) - Uses(t, r) \in {0, 3}
  BY DEF Melded
<1>4. Pair(q, r) \in {0, 2}
  BY DEF Pair
<1>5. Pair(q, r) = 0 /\ Uses(t, r) = 0
  BY <1>2, <1>3, <1>4
<1>6. r # q
  BY <1>5 DEF Pair
<1>7. ASSUME NEW c \in Rank, t[c] > 0 PROVE r \notin {c, c + 1, c + 2}
  <2> SUFFICES ASSUME r \in {c, c + 1, c + 2} PROVE FALSE
    OBVIOUS
  <2>1. c \in Int
    BY RanksAssumption DEF Rank
  <2>2. c \in r - 2 .. r
    BY <1>1, <2>1
  <2>3. t[c] <= 0 /\ t[c] \in 0 .. 2
    BY <1>2, <1>5, <2>2
  <2>4. QED
    BY <1>7, <2>3
<1>8. QED
  BY <1>5, <1>6, <1>7

\* The three first ranks of a block are the sequence from a, which is the only
\* one of its first rank.
Leads(b, a) ==
  /\ {b[1], b[2], b[3]} = {a, a + 1, a + 2}
  /\ \A r \in Int : a \in r - 2 .. r <=> r \in {b[1], b[2], b[3]}
  /\ Only(ToSet(b), b[1], a)

\* A sequence at the end of a block that has its first rank fewer than three
\* times is one of its melds.
LEMMA FitsLess ==
  ASSUME NEW n, NEW b, <<n, b>> \in Readings, Len(b) >= 3, ~(n[b[1]] > 2), NEW q, q # b[1],
         Fits(n, ToSet(b), q), NEW a \in Rank, Leads(b, a)
  PROVE  \E t \in [Rank -> 0 .. 2] :
           Melded(Less(n, b), ToSet(b), q, t) /\ Uses(t, b[1]) = t[a]
<1> DEFINE l == Less(n, b)
           T == ToSet(b)
<1>1. n \in [Rank -> Nat] /\ b \in Seq(Rank) /\ Adjacent(b) /\ Len(b) \in Nat
  BY ReadingDef
<1>2. T \in SUBSET Rank /\ {b[1], b[2], b[3]} \subseteq T
  BY ReadingParts
<1>3. l = [r \in Rank |-> IF r \in {b[1], b[2], b[3]} THEN n[r] - 1 ELSE n[r]]
  BY DEF Less
<1>4. b[1] \in T /\ b[1] \in Rank /\ b[1] \in Int /\ a \in b[1] - 2 .. b[1]
  <2>1. b[1] \in T /\ b[1] \in Rank
    BY <1>2
  <2>2. b[1] \in Int
    BY <2>1, RanksAssumption DEF Rank
  <2>3. QED
    BY <2>1, <2>2 DEF Leads
<1>0. ASSUME NEW z \in [Rank -> 0 .. 2], Inside(z, ToSet(b)) PROVE Uses(z, b[1]) = z[a]
  <2>1. b[1] \in Rank /\ a \in b[1] - 2 .. b[1]
    BY <1>4
  <2> HIDE DEF T, l
  <2>2. QED
    BY <1>0, <2>1, UsesOnly DEF Leads
<1>5. n[b[1]] \in 1 .. 2
  <2>1. n[b[1]] > 0
    BY <1>1, ReadingDef
  <2>2. n[b[1]] \in Nat
    BY <1>1, <1>4
  <2>3. QED
    BY <2>1, <2>2
<1>6. PICK s \in [Rank -> 0 .. 2] : Melded(n, ToSet(b), q, s)
  BY DEF Fits
<1>7. Inside(s, T) /\ \A r \in T : n[r] - Pair(q, r) - Uses(s, r) \in {0, 3}
  BY <1>6 DEF Melded
<1>8. Uses(s, b[1]) = s[a]
  BY <1>0, <1>6, <1>7, Zenon
<1>9. s[a] = n[b[1]]
  <2>1. Pair(q, b[1]) = 0 /\ s[a] \in 0 .. 2
    BY DEF Pair
  <2>2. n[b[1]] - 0 - s[a] \in {0, 3}
    BY <1>4, <1>7, <1>8, <2>1, Zenon
  <2>3. QED
    BY <1>5, <2>1, <2>2
<1> DEFINE t == [s EXCEPT ![a] = @ - 1]
<1>10. t \in [Rank -> 0 .. 2] /\ t \in [Rank -> Nat] /\ \A c \in Rank : t[c] > 0 => s[c] > 0
  BY <1>5, <1>9
<1>11. s = [t EXCEPT ![a] = @ + 1]
  <2> DEFINE z == [t EXCEPT ![a] = @ + 1]
  <2>1. z \in [Rank -> Int] /\ s \in [Rank -> Int]
    BY <1>10
  <2>2. ASSUME NEW c \in Rank PROVE z[c] = s[c]
    BY <1>10
  <2> HIDE DEF z
  <2>3. z = s
    BY <2>1, <2>2
  <2>4. QED
    BY <2>3 DEF z
<1> HIDE DEF t, l, T
<1>12. \A r \in Int : Uses(s, r) = Uses(t, r) + (IF r \in {b[1], b[2], b[3]} THEN 1 ELSE 0)
  <2>1. \A r \in Int : Uses([t EXCEPT ![a] = @ + 1], r) = Uses(t, r) + (IF a \in r - 2 .. r THEN 1 ELSE 0)
    BY <1>10, UsesMore
  <2>2. QED
    BY <1>11, <2>1, Zenon DEF Leads
<1>13. Inside(t, T)
  BY <1>7, <1>10 DEF Inside
<1>14. ASSUME NEW r \in T PROVE l[r] - Pair(q, r) - Uses(t, r) \in {0, 3}
  <2>1. r \in Rank /\ r \in Int /\ n[r] \in Nat
    BY <1>1, <1>2, RanksAssumption DEF Rank
  <2>2. Uses(t, r) \in Nat /\ Pair(q, r) \in {0, 2}
    BY <1>10, <2>1, UsesType DEF Pair
  <2>3. n[r] - Pair(q, r) - Uses(s, r) \in {0, 3}
    BY <1>7
  <2>4. CASE r \in {b[1], b[2], b[3]}
    <3>1. l[r] = n[r] - 1 /\ Uses(s, r) = Uses(t, r) + 1
      BY <1>3, <1>12, <2>1, <2>4
    <3>2. \A x, c, w \in Int : x - c - (w + 1) = (x - 1) - c - w
      OBVIOUS
    <3>3. n[r] \in Int /\ Pair(q, r) \in Int /\ Uses(t, r) \in Int
      BY <2>1, <2>2
    <3>4. n[r] - Pair(q, r) - (Uses(t, r) + 1) = (n[r] - 1) - Pair(q, r) - Uses(t, r)
      BY <3>2, <3>3
    <3>5. QED
      BY <2>3, <3>1, <3>4, Zenon
  <2>5. CASE r \notin {b[1], b[2], b[3]}
    <3>1. l[r] = n[r] /\ Uses(s, r) = Uses(t, r) + 0
      BY <1>3, <1>12, <2>1, <2>5
    <3>2. QED
      BY <2>1, <2>2, <2>3, <3>1
  <2>6. QED
    BY <2>4, <2>5
<1>15. Melded(l, T, q, t)
  BY <1>10, <1>13, <1>14 DEF Melded
<1>16. Uses(t, b[1]) = t[a]
  BY <1>0, <1>10, <1>13, Zenon DEF T
<1>17. QED
  BY <1>10, <1>15, <1>16 DEF l, T

\* What the sequence leaves over are no tiles, or the pair.
LEMMA FitsSequence ==
  ASSUME NEW n, NEW b, <<n, b>> \in Readings, Len(b) >= 3, ~(n[b[1]] > 2),
         \A r \in ToSet(b) : n[r] <= 3, NEW q, q # b[1], Fits(n, ToSet(b), q)
  PROVE  /\ Fits(Less(n, b), ToSet(Rest(n, b)), q)
         /\ LeftOver(n, b).w + Spared(ToSet(Rest(n, b)), q) = Spared(ToSet(b), q)
<1> DEFINE l == Less(n, b)
           T == ToSet(b)
           R == ToSet(Rest(n, b))
           u == UsedUp(n, b)
           used == {b[i] : i \in 1 .. u}
           rs == {r \in used : l[r] # 0}
<1>1. n \in [Rank -> Nat] /\ b \in Seq(Rank) /\ Adjacent(b) /\ Len(b) \in Nat
  BY ReadingDef
<1>2. T = used \cup R /\ used \cap R = {} /\ T \in SUBSET Rank /\ {b[1], b[2], b[3]} \subseteq T
  BY ReadingParts
<1>3. l \in [Rank -> Nat] /\ \A i \in 1 .. 3 : b[i] \in Rank /\ l[b[i]] = n[b[i]] - 1
  BY LessFacts
<1>4. u \in 0 .. 3 /\ (u > 0 => l[b[u]] = 0)
  BY UsedUpFacts
<1>5. LeftOver(n, b) = Loose(l, rs)
  BY DEF LeftOver
<1>6. PICK a \in Rank :
        /\ {b[1], b[2], b[3]} = {a, a + 1, a + 2}
        /\ \A r \in Int : a \in r - 2 .. r <=> r \in {b[1], b[2], b[3]}
        /\ \A c \in Rank : c \in ToSet(b) /\ c + 1 \in ToSet(b) /\ c + 2 \in ToSet(b) =>
             /\ b[1] \in {c, c + 1, c + 2} => c = a
             /\ b[2] \in {c, c + 1, c + 2} => b[3] \in {c, c + 1, c + 2}
  BY <1>1, FirstOnly
<1>7. Only(ToSet(b), b[1], a)
  BY <1>6, Zenon DEF Only
<1>8. PICK t \in [Rank -> 0 .. 2] : Melded(l, T, q, t) /\ Uses(t, b[1]) = t[a]
  <2>1. Leads(b, a)
    BY <1>6, <1>7, Zenon DEF Leads
  <2> HIDE DEF u, used, rs, R, l, T
  <2>2. \E t \in [Rank -> 0 .. 2] : Melded(Less(n, b), ToSet(b), q, t) /\ Uses(t, b[1]) = t[a]
    BY <2>1, FitsLess
  <2>3. QED
    BY <2>2 DEF l, T
<1>9. b[1] \in T /\ b[2] \in T /\ b[3] \in T /\ \A i \in 1 .. 3 : b[i] \in T
  <2>1. \A i \in 1 .. 3 : i = 1 \/ i = 2 \/ i = 3
    OBVIOUS
  <2>2. QED
    BY <1>2, <2>1
<1>10. l[b[1]] \in 0 .. 1 /\ l[b[2]] \in 0 .. 2 /\ l[b[3]] \in 0 .. 2
  <2>1. 1 \in 1 .. 3 /\ 2 \in 1 .. 3 /\ 3 \in 1 .. 3
    OBVIOUS
  <2>2. \A i \in 1 .. 3 : b[i] \in Rank /\ n[b[i]] <= 3 /\ n[b[i]] \in Nat /\ l[b[i]] = n[b[i]] - 1 /\ l[b[i]] \in Nat
    BY <1>1, <1>3, <1>9
  <2> HIDE DEF l, T, R, u, used, rs
  <2>3. /\ n[b[1]] <= 2 /\ n[b[1]] \in Nat /\ l[b[1]] = n[b[1]] - 1 /\ l[b[1]] \in Nat
        /\ n[b[2]] <= 3 /\ n[b[2]] \in Nat /\ l[b[2]] = n[b[2]] - 1 /\ l[b[2]] \in Nat
        /\ n[b[3]] <= 3 /\ n[b[3]] \in Nat /\ l[b[3]] = n[b[3]] - 1 /\ l[b[3]] \in Nat
    <3>1. \A x \in Nat : ~(x > 2) => x <= 2
      OBVIOUS
    <3>2. QED
      BY <2>1, <2>2, <3>1, Zenon
  <2>4. QED
    BY <2>3
<1> HIDE DEF l, T, R, u, used, rs
<1>11. \A r \in T : l[r] = 0 => /\ r # q /\ Uses(t, r) = 0
                                /\ \A c \in Rank : t[c] > 0 => r \notin {c, c + 1, c + 2}
  BY <1>2, <1>3, <1>8, MeldedEmpty
<1>12. Inside(t, T) /\ \A r \in T : l[r] - Pair(q, r) - Uses(t, r) \in {0, 3}
  BY <1>8 DEF Melded
<1>13. ASSUME u > 0 PROVE l[b[1]] = 0
  <2>1. CASE u = 1
    BY <1>4, <1>13, <2>1
  <2>2. CASE u \in {2, 3}
    <3>1. b[u] \in T /\ l[b[u]] = 0 /\ b[u] \in {a, a + 1, a + 2}
      BY <1>4, <1>6, <1>9, <1>13, <2>2
    <3>2. ~(t[a] > 0)
      BY <1>11, <3>1
    <3>3. t[a] \in 0 .. 2
      OBVIOUS
    <3>4. Uses(t, b[1]) = 0
      BY <1>8, <3>2, <3>3
    <3>5. Pair(q, b[1]) = 0
      BY DEF Pair
    <3>6. l[b[1]] - 0 - 0 \in {0, 3}
      BY <1>9, <1>12, <3>4, <3>5, Zenon
    <3>7. QED
      BY <1>10, <3>6
  <2>3. QED
    BY <1>4, <1>13, <2>1, <2>2
<1>14. ASSUME NEW c \in Rank, t[c] > 0 PROVE \A i \in 1 .. u : b[i] \notin {c, c + 1, c + 2}
  <2>1. c \in T /\ c + 1 \in T /\ c + 2 \in T
    BY <1>12, <1>14 DEF Inside
  <2>2. u > 0 => b[1] \notin {c, c + 1, c + 2}
    BY <1>9, <1>11, <1>13, <1>14
  <2>3. u = 2 => b[2] \notin {c, c + 1, c + 2}
    BY <1>4, <1>9, <1>11, <1>14
  <2>4. u = 3 => b[3] \notin {c, c + 1, c + 2}
    BY <1>4, <1>9, <1>11, <1>14
  <2>5. u = 3 => b[2] \notin {c, c + 1, c + 2}
    BY <1>6, <2>1, <2>4 DEF T
  <2>6. \A i \in 1 .. u : (i = 1 /\ u > 0) \/ (i = 2 /\ u = 2) \/ (i = 2 /\ u = 3) \/ (i = 3 /\ u = 3)
    BY <1>4
  <2>7. QED
    BY <2>2, <2>3, <2>4, <2>5, <2>6
<1>15. Inside(t, R)
  <2>1. ASSUME NEW c \in Rank, t[c] > 0 PROVE c \in R /\ c + 1 \in R /\ c + 2 \in R
    <3>1. c \in T /\ c + 1 \in T /\ c + 2 \in T
      BY <1>12, <2>1 DEF Inside
    <3>2. c \notin used /\ c + 1 \notin used /\ c + 2 \notin used
      BY <1>14, <2>1 DEF used
    <3>3. QED
      BY <1>2, <3>1, <3>2
  <2>2. QED
    BY <2>1 DEF Inside
<1>16. Fits(l, R, q)
  <2>1. R \in SUBSET T
    BY <1>2
  <2>2. QED
    BY <1>8, <1>15, <2>1, MeldedPart
<1>17. rs \subseteq used /\ rs \in SUBSET Rank /\ \A r \in used : r \in rs <=> l[r] # 0
  BY <1>2 DEF rs
<1> DEFINE f == [r \in Rank |-> IF r \in rs /\ l[r] < 3 THEN 3 - l[r] ELSE 0]
<1>18. Loose(l, rs).w = Total(f)
  BY <1>3, <1>17, LooseType
<1>19. f \in [Rank -> Nat]
  BY <1>3
<1>20. CASE rs = {}
  <2>1. \A r \in Rank : f[r] = 0
    BY <1>20
  <2> HIDE DEF f
  <2>2. LeftOver(n, b).w = 0
    BY <1>5, <1>18, <1>19, <2>1, TotalNat
  <2>3. q \in T <=> q \in R
    <3>1. q \notin used
      BY <1>2, <1>11, <1>17, <1>20
    <3>2. QED
      BY <1>2, <3>1
  <2>4. Spared(R, q) = Spared(T, q) /\ Spared(T, q) \in Nat
    BY <2>3 DEF Spared
  <2>5. QED
    BY <1>16, <2>2, <2>4 DEF l, R, T
<1>21. CASE rs # {}
  <2>1. PICK r \in rs : TRUE
    BY <1>21
  <2>2. ASSUME NEW x \in rs PROVE x = b[2] /\ u = 3
    <3>1. PICK i \in 1 .. u : x = b[i]
      BY <1>17 DEF used
    <3>2. l[b[i]] # 0
      BY <1>17, <3>1
    <3>3. i # 1 /\ i # u
      BY <1>4, <1>13, <3>2
    <3>4. i = 2 /\ u = 3
      BY <1>4, <3>3
    <3>5. QED
      BY <3>1, <3>4
  <2>3. rs = {b[2]} /\ u = 3 /\ l[b[3]] = 0 /\ b[2] \in Rank
    BY <1>4, <1>17, <2>1, <2>2
  <2>4. Uses(t, b[2]) = 0
    <3>1. b[2] \in Int /\ t \in [Rank -> Nat]
      BY <2>3, RanksAssumption DEF Rank
    <3>2. ASSUME NEW c \in Rank, c \in b[2] - 2 .. b[2] PROVE t[c] = 0
      <4>1. c \in Int
        BY RanksAssumption DEF Rank
      <4>2. b[2] \in {c, c + 1, c + 2}
        BY <3>1, <3>2, <4>1
      <4>3. 2 \in 1 .. u
        BY <2>3
      <4>4. ~(t[c] > 0)
        BY <1>14, <4>2, <4>3
      <4>5. t[c] \in 0 .. 2
        OBVIOUS
      <4>6. QED
        BY <4>4, <4>5
    <3>3. QED
      BY <3>1, <3>2, UsesType
  <2>5. l[b[2]] # 0 /\ l[b[2]] \in 0 .. 2
    BY <1>10, <1>17, <2>3
  <2>6. q = b[2] /\ l[b[2]] = 2
    <3>1. l[b[2]] - Pair(q, b[2]) - 0 \in {0, 3}
      BY <1>9, <1>12, <2>4, Zenon
    <3>2. CASE q = b[2]
      <4>1. Pair(q, b[2]) = 2
        BY <3>2 DEF Pair
      <4>2. QED
        BY <2>5, <3>1, <3>2, <4>1
    <3>3. CASE q # b[2]
      <4>1. Pair(q, b[2]) = 0
        BY <3>3 DEF Pair
      <4>2. QED
        BY <2>5, <3>1, <4>1
    <3>4. QED
      BY <3>2, <3>3
  <2>7. f[b[2]] = 1 /\ \A x \in Rank \ {b[2]} : f[x] = 0
    BY <2>3, <2>6
  <2> HIDE DEF f
  <2>8. LeftOver(n, b).w = 1
    <3>1. f \in [Rank -> Int]
      BY <1>19
    <3>2. Total(f) = 1
      BY <2>3, <2>7, <3>1, TotalSingle
    <3>3. QED
      BY <1>5, <1>18, <3>2
  <2>9. q \in T /\ q \notin R
    BY <1>2, <1>9, <1>17, <2>3, <2>6
  <2>10. Spared(R, q) = 0 /\ Spared(T, q) = 1
    BY <2>9 DEF Spared
  <2>11. QED
    BY <1>16, <2>8, <2>10 DEF l, R, T
<1>22. QED
  BY <1>20, <1>21

\* Two ranks have no room for a sequence.
LEMMA FitsShort ==
  ASSUME NEW n, NEW b, <<n, b>> \in Readings, Len(b) < 3,
         \A r \in ToSet(b) : n[r] <= 3, NEW q, Fits(n, ToSet(b), q)
  PROVE  Loose(n, ToSet(b)).w <= Spared(ToSet(b), q)
<1> DEFINE T == ToSet(b)
           f == [r \in Rank |-> IF r \in T /\ n[r] < 3 THEN 3 - n[r] ELSE 0]
<1>1. n \in [Rank -> Nat] /\ b \in Seq(Rank) /\ Len(b) \in Nat /\ \A k \in 1 .. Len(b) : n[b[k]] > 0
  BY ReadingDef
<1>2. T = {b[k] : k \in 1 .. Len(b)} /\ T \in SUBSET Rank
  BY <1>1 DEF ToSet
<1>3. \A r \in T : r \in Rank /\ r \in Int /\ n[r] \in 1 .. 3
  <2>1. \A r \in T : r \in Rank /\ n[r] > 0 /\ n[r] <= 3 /\ n[r] \in Nat
    BY <1>1, <1>2
  <2>2. \A r \in Rank : r \in Int
    BY RanksAssumption DEF Rank
  <2> HIDE DEF T
  <2>3. QED
    BY <2>1, <2>2
<1>4. PICK s \in [Rank -> 0 .. 2] : Melded(n, T, q, s)
  BY DEF Fits
<1>5. Inside(s, T) /\ \A r \in T : n[r] - Pair(q, r) - Uses(s, r) \in {0, 3}
  BY <1>4 DEF Melded
<1>6. \A x, y, z \in T : x = y \/ y = z \/ x = z
  <2>1. \A k \in 1 .. Len(b) : k = 1 \/ k = 2
    BY <1>1
  <2>2. \A x \in T : x = b[1] \/ x = b[2]
    BY <1>2, <2>1
  <2> HIDE DEF T
  <2>3. QED
    BY <2>2
<1> HIDE DEF T
<1>7. ASSUME NEW c \in Rank PROVE s[c] = 0
  <2>1. ~(s[c] > 0)
    <3> SUFFICES ASSUME s[c] > 0 PROVE FALSE
      OBVIOUS
    <3>1. c \in T /\ c + 1 \in T /\ c + 2 \in T
      BY <1>5 DEF Inside
    <3>2. c = c + 1 \/ c + 1 = c + 2 \/ c = c + 2
      BY <1>6, <3>1, Zenon
    <3>3. c \in Int
      BY <1>3, <3>1
    <3>4. QED
      BY <3>2, <3>3
  <2>2. s[c] \in 0 .. 2
    OBVIOUS
  <2>3. QED
    BY <2>1, <2>2
<1>8. ASSUME NEW r \in T PROVE n[r] = IF r = q THEN 2 ELSE 3
  <2>1. s \in [Rank -> Nat] /\ r \in Int
    BY <1>3
  <2>2. Uses(s, r) = 0
    BY <1>7, <2>1, UsesType
  <2>3. n[r] - Pair(q, r) - 0 \in {0, 3}
    BY <1>5, <2>2, Zenon
  <2>4. n[r] \in 1 .. 3
    BY <1>3
  <2>5. QED
    BY <2>3, <2>4 DEF Pair
<1>9. f \in [Rank -> Nat] /\ Loose(n, T).w = Total(f)
  <2>1. T \in SUBSET Rank
    BY <1>3
  <2>2. Loose(n, T).w = Total(f)
    BY <1>1, <2>1, LooseType
  <2>3. f \in [Rank -> Nat]
    BY <1>1
  <2>4. QED
    BY <2>2, <2>3
<1>10. \A r \in Rank : f[r] = IF r \in T /\ r = q THEN 1 ELSE 0
  BY <1>8
<1> HIDE DEF f
<1>11. CASE q \in T
  <2>1. q \in Rank /\ f[q] = 1 /\ \A r \in Rank \ {q} : f[r] = 0
    BY <1>3, <1>10, <1>11
  <2>2. f \in [Rank -> Int]
    BY <1>9
  <2>3. Total(f) = 1
    BY <2>1, <2>2, TotalSingle
  <2>4. QED
    BY <1>9, <1>11, <2>3 DEF Spared, T
<1>12. CASE q \notin T
  <2>1. \A r \in Rank : f[r] = 0
    BY <1>10, <1>12
  <2>2. Total(f) = 0
    BY <1>9, <2>1, TotalNat
  <2>3. QED
    BY <1>9, <1>12, <2>2 DEF Spared, T
<1>13. QED
  BY <1>11, <1>12

\* A reading that comes to the pair, if there is one, among its last two ranks,
\* leaves nothing else over.
Late(b, q) == \A k \in 1 .. Len(b) - 2 : b[k] # q
Found(n, b) ==
  \A q : (\A r \in ToSet(b) : n[r] <= 3) /\ Late(b, q) /\ Fits(n, ToSet(b), q)
           => val[<<n, b>>].w <= Spared(ToSet(b), q)

LEMMA LateFound == \A n, b : <<n, b>> \in Readings => Found(n, b)
<1> DEFINE P == {x \in Readings : Found(x[1], x[2])}
<1>1. ASSUME NEW m, NEW c, <<m, c>> \in Readings PROVE <<m, c>> \in P <=> Found(m, c)
  <2>1. <<m, c>>[1] = m /\ <<m, c>>[2] = c
    OBVIOUS
  <2>2. QED
    BY <1>1, <2>1
<1> HIDE DEF P
<1>2. ASSUME NEW m, NEW c, <<m, c>> \in Readings, Len(c) < 3
      PROVE  <<m, c>> \in P
  <2>1. val[<<m, c>>] = Loose(m, ToSet(c))
    BY <1>2, ValCases
  <2>2. ASSUME NEW q, \A r \in ToSet(c) : m[r] <= 3, Late(c, q), Fits(m, ToSet(c), q)
        PROVE  val[<<m, c>>].w <= Spared(ToSet(c), q)
    <3>1. Loose(m, ToSet(c)).w <= Spared(ToSet(c), q)
      BY <1>2, <2>2, FitsShort
    <3>2. QED
      BY <2>1, <3>1, Zenon
  <2>3. QED
    BY <1>1, <1>2, <2>2, Zenon DEF Found
<1>3. ASSUME NEW m, NEW c, <<m, c>> \in Readings, Len(c) >= 3, m[c[1]] > 2, <<m, Tail(c)>> \in P
      PROVE  <<m, c>> \in P
  <2> DEFINE d == Tail(c)
  <2>1. /\ <<m, d>> \in Readings /\ Len(d) = Len(c) - 1 /\ Len(c) \in Nat
        /\ \A k \in 1 .. Len(c) - 1 : d[k] = c[k + 1]
    BY <1>3, TailReading, ReadingDef
  <2>2. val[<<m, c>>] = val[<<m, d>>]
    BY <1>3, ValCases
  <2>3. ToSet(c) = {c[1]} \cup ToSet(d) /\ c[1] \notin ToSet(d) /\ c[1] \in Rank
    BY <1>3, TailParts
  <2>4. Found(m, d)
    BY <1>1, <1>3, <2>1
  <2>5. ASSUME NEW q, \A r \in ToSet(c) : m[r] <= 3, Late(c, q), Fits(m, ToSet(c), q)
        PROVE  val[<<m, c>>].w <= Spared(ToSet(c), q)
    <3>1. q # c[1]
      <4>1. 1 \in 1 .. Len(c) - 2
        BY <1>3, <2>1
      <4>2. QED
        BY <2>5, <4>1 DEF Late
    <3>2. m[c[1]] = 3
      <4>1. m[c[1]] <= 3 /\ m[c[1]] \in Nat
        BY <1>3, <2>3, <2>5, ReadingDef
      <4>2. QED
        BY <1>3, <4>1
    <3>3. Fits(m, ToSet(d), q)
      BY <1>3, <2>5, <3>1, <3>2, FitsTriplet
    <3> HIDE DEF d
    <3>4. Late(d, q)
      <4>1. ASSUME NEW k \in 1 .. Len(d) - 2 PROVE d[k] # q
        <5>1. k + 1 \in 1 .. Len(c) - 2 /\ k \in 1 .. Len(c) - 1
          BY <2>1
        <5>2. d[k] = c[k + 1] /\ c[k + 1] # q
          BY <2>1, <2>5, <5>1, Zenon DEF Late
        <5>3. QED
          BY <5>2
      <4>2. QED
        BY <4>1 DEF Late
    <3>5. val[<<m, d>>].w <= Spared(ToSet(d), q)
      BY <2>3, <2>4, <2>5, <3>3, <3>4 DEF Found
    <3>6. Spared(ToSet(d), q) = Spared(ToSet(c), q)
      BY <2>3, <3>1 DEF Spared
    <3>7. QED
      BY <2>2, <3>5, <3>6, Zenon
  <2>6. QED
    BY <1>1, <1>3, <2>5, Zenon DEF Found
<1>4. ASSUME NEW m, NEW c, <<m, c>> \in Readings, Len(c) >= 3, ~(m[c[1]] > 2),
             <<Less(m, c), Rest(m, c)>> \in P
      PROVE  <<m, c>> \in P
  <2> DEFINE l == Less(m, c)
             d == Rest(m, c)
             u == UsedUp(m, c)
  <2>1. /\ <<l, d>> \in Readings /\ Len(d) = Len(c) - u /\ Len(c) \in Nat
        /\ \A k \in 1 .. Len(c) - u : d[k] = c[u + k]
    <3>1. Len(c) \in Nat
      BY <1>4, ReadingDef
    <3>2. QED
      BY <1>4, <3>1, RestReading
  <2>2. ToSet(d) \subseteq ToSet(c) /\ ToSet(c) \in SUBSET Rank
    BY <1>4, ReadingParts
  <2>3. l \in [Rank -> Nat] /\ (\A r \in Rank : l[r] <= m[r]) /\ m \in [Rank -> Nat]
    BY <1>4, LessFacts, ReadingDef
  <2>4. u \in 0 .. 3
    BY <1>4, UsedUpFacts
  <2>5. /\ LeftOver(m, c).w \in Nat /\ val[<<m, c>>].w \in Nat /\ val[<<l, d>>].w \in Nat
        /\ val[<<m, c>>].w <= LeftOver(m, c).w + val[<<l, d>>].w
    BY <1>4, ValAtMost
  <2>6. Found(l, d)
    BY <1>1, <1>4, <2>1
  <2>7. ASSUME NEW q, \A r \in ToSet(c) : m[r] <= 3, Late(c, q), Fits(m, ToSet(c), q)
        PROVE  val[<<m, c>>].w <= Spared(ToSet(c), q)
    <3>1. q # c[1]
      <4>1. 1 \in 1 .. Len(c) - 2
        BY <1>4, <2>1
      <4>2. QED
        BY <2>7, <4>1 DEF Late
    <3>2. Fits(l, ToSet(d), q) /\ LeftOver(m, c).w + Spared(ToSet(d), q) = Spared(ToSet(c), q)
      BY <1>4, <2>7, <3>1, FitsSequence
    <3> HIDE DEF l, d, u
    <3>3. Late(d, q)
      <4>1. ASSUME NEW k \in 1 .. Len(d) - 2 PROVE d[k] # q
        <5>1. u + k \in 1 .. Len(c) - 2 /\ k \in 1 .. Len(c) - u
          BY <2>1, <2>4
        <5>2. d[k] = c[u + k] /\ c[u + k] # q
          BY <2>1, <2>7, <5>1, Zenon DEF Late
        <5>3. QED
          BY <5>2
      <4>2. QED
        BY <4>1 DEF Late
    <3>4. ASSUME NEW r \in ToSet(d) PROVE l[r] <= 3
      <4>1. r \in Rank /\ m[r] <= 3
        BY <2>2, <2>7
      <4>2. l[r] <= m[r] /\ l[r] \in Nat /\ m[r] \in Nat
        BY <2>3, <4>1
      <4>3. QED
        BY <4>1, <4>2
    <3>5. val[<<l, d>>].w <= Spared(ToSet(d), q)
      BY <2>6, <3>2, <3>3, <3>4 DEF Found
    <3>6. Spared(ToSet(d), q) \in Nat
      BY DEF Spared
    <3>7. QED
      BY <2>5, <3>2, <3>5, <3>6
  <2>8. QED
    BY <1>1, <1>4, <2>7, Zenon DEF Found
<1>5. Readings \subseteq P
  <2>1. \A m, c : <<m, c>> \in Readings /\ Len(c) < 3 => <<m, c>> \in P
    BY <1>2, Zenon
  <2>2. \A m, c : <<m, c>> \in Readings /\ Len(c) >= 3 /\ m[c[1]] > 2 /\ <<m, Tail(c)>> \in P
                     => <<m, c>> \in P
    BY <1>3, Zenon
  <2>3. \A m, c : <<m, c>> \in Readings /\ Len(c) >= 3 /\ ~(m[c[1]] > 2) /\
                  <<Less(m, c), Rest(m, c)>> \in P /\ <<Less(m, c), Reverse(Rest(m, c))>> \in P
                     => <<m, c>> \in P
    BY <1>4
  <2>4. ReadingClosed(P)
    BY <2>1, <2>2, <2>3, Zenon DEF ReadingClosed
  <2>5. QED
    BY <2>4, ReadingCases
<1>6. QED
  BY <1>1, <1>5

\* Between two triplets each, the readings take a pair for the beginning of two
\* sequences.  Elsewhere one of them recognises it: the one that comes to a
\* sequence first, as the rest is read from both ends again.
Middle(n, b) ==
  \E k \in 3 .. Len(b) - 2 :
    n[b[k]] = 2 /\ \A i \in {k - 2, k - 1, k + 1, k + 2} : n[b[i]] = 3
Before(n, b, q) == \E i, j \in 1 .. Len(b) : i < j /\ n[b[i]] # 3 /\ b[j] = q
Readable(n, b, q) == (\A r \in ToSet(b) : n[r] <= 3) /\ Fits(n, ToSet(b), q) /\ ~ Middle(n, b)
FoundAfter(n, b) == \A q : Readable(n, b, q) /\ Before(n, b, q) => val[<<n, b>>].w <= 1
FoundEither(n, b) ==
  \A q : Readable(n, b, q) => val[<<n, b>>].w <= 1 \/ val[<<n, Reverse(b)>>].w <= 1

LEMMA MiddleTail ==
  ASSUME NEW n, NEW b, <<n, b>> \in Readings, Len(b) >= 3, Middle(n, Tail(b))
  PROVE  Middle(n, b)
<1>1. Len(Tail(b)) = Len(b) - 1 /\ Len(b) \in Nat /\ \A k \in 1 .. Len(b) - 1 : Tail(b)[k] = b[k + 1]
  BY TailReading, ReadingDef
<1>2. PICK k \in 3 .. Len(Tail(b)) - 2 :
        n[Tail(b)[k]] = 2 /\ \A i \in {k - 2, k - 1, k + 1, k + 2} : n[Tail(b)[i]] = 3
  BY DEF Middle
<1>3. k + 1 \in 3 .. Len(b) - 2 /\ k \in 1 .. Len(b) - 1 /\ k \in Int
  BY <1>1
<1>4. n[b[k + 1]] = 2
  BY <1>1, <1>2, <1>3
<1>5. ASSUME NEW i \in {(k + 1) - 2, (k + 1) - 1, (k + 1) + 1, (k + 1) + 2} PROVE n[b[i]] = 3
  <2>1. i - 1 \in {k - 2, k - 1, k + 1, k + 2} /\ i - 1 \in 1 .. Len(b) - 1 /\ (i - 1) + 1 = i
    BY <1>1, <1>3
  <2>2. n[Tail(b)[i - 1]] = 3 /\ Tail(b)[i - 1] = b[(i - 1) + 1]
    BY <1>1, <1>2, <2>1
  <2>3. QED
    BY <2>1, <2>2, Zenon
<1>6. QED
  BY <1>3, <1>4, <1>5 DEF Middle

LEMMA MiddleReverse ==
  ASSUME NEW n, NEW b, <<n, b>> \in Readings, Middle(n, Reverse(b))
  PROVE  Middle(n, b)
<1> DEFINE c == Reverse(b)
<1>1. /\ Len(c) = Len(b) /\ Len(b) \in Nat
      /\ \A k \in 1 .. Len(b) : c[k] = b[Len(b) - k + 1]
  BY ReadingDef, AdjacentReverse
<1> HIDE DEF c
<1>2. PICK k \in 3 .. Len(c) - 2 :
        n[c[k]] = 2 /\ \A i \in {k - 2, k - 1, k + 1, k + 2} : n[c[i]] = 3
  BY DEF Middle, c
<1> DEFINE j == Len(b) - k + 1
<1>3. j \in 3 .. Len(b) - 2 /\ k \in 1 .. Len(b) /\ k \in Int /\ j \in Int
  BY <1>1
<1>4. n[b[j]] = 2
  BY <1>1, <1>2, <1>3
<1>5. ASSUME NEW i \in {j - 2, j - 1, j + 1, j + 2} PROVE n[b[i]] = 3
  <2> DEFINE h == Len(b) - i + 1
  <2>1. h \in {k - 2, k - 1, k + 1, k + 2} /\ h \in 1 .. Len(b) /\ Len(b) - h + 1 = i
    BY <1>1, <1>3
  <2> HIDE DEF h
  <2>2. n[c[h]] = 3 /\ c[h] = b[Len(b) - h + 1]
    BY <1>1, <1>2, <2>1
  <2>3. QED
    BY <2>1, <2>2, Zenon
<1> HIDE DEF j
<1>6. QED
  BY <1>3, <1>4, <1>5 DEF Middle

LEMMA MiddleRest ==
  ASSUME NEW n, NEW b, <<n, b>> \in Readings, Len(b) >= 3, \A r \in ToSet(b) : n[r] <= 3,
         Middle(Less(n, b), Rest(n, b))
  PROVE  Middle(n, b)
<1> DEFINE l == Less(n, b)
           c == Rest(n, b)
           u == UsedUp(n, b)
<1>1. n \in [Rank -> Nat] /\ b \in Seq(Rank) /\ Len(b) \in Nat
  BY ReadingDef
<1>2. Len(c) = Len(b) - u /\ \A k \in 1 .. Len(b) - u : c[k] = b[u + k]
  BY RestReading
<1>3. u \in 0 .. 3
  BY UsedUpFacts
<1>4. /\ \A i \in 1 .. 3 : b[i] \in Rank /\ l[b[i]] = n[b[i]] - 1
      /\ \A i \in 1 .. Len(b) : i > 3 => l[b[i]] = n[b[i]]
  BY LessFacts
<1>5. ASSUME NEW i \in 1 .. Len(b), l[b[i]] = 3 PROVE i > 3
  <2> SUFFICES ASSUME ~(i > 3) PROVE FALSE
    OBVIOUS
  <2>1. i \in 1 .. 3
    OBVIOUS
  <2>2. b[i] \in ToSet(b)
    BY <1>1 DEF ToSet
  <2>3. n[b[i]] <= 3 /\ n[b[i]] \in Nat /\ l[b[i]] = n[b[i]] - 1
    BY <1>1, <1>4, <2>1, <2>2
  <2> HIDE DEF l
  <2>4. QED
    BY <1>5, <2>3
<1> HIDE DEF l, c, u
<1>6. PICK k \in 3 .. Len(c) - 2 :
        l[c[k]] = 2 /\ \A i \in {k - 2, k - 1, k + 1, k + 2} : l[c[i]] = 3
  BY DEF Middle, l, c
<1>7. k \in Int /\ u \in Int /\ k - 2 \in 1 .. Len(b) - u /\ u + (k - 2) \in 1 .. Len(b) /\ k >= 3
  BY <1>1, <1>2, <1>3
<1>8. u + (k - 2) > 3
  <2>1. l[c[k - 2]] = 3 /\ c[k - 2] = b[u + (k - 2)]
    BY <1>2, <1>6, <1>7
  <2>2. QED
    BY <1>5, <1>7, <2>1
<1>9. ASSUME NEW i \in {k - 2, k - 1, k, k + 1, k + 2} PROVE n[b[u + i]] = l[c[i]] /\ u + i \in 1 .. Len(b)
  <2>1. i \in 1 .. Len(b) - u /\ u + i \in 1 .. Len(b) /\ u + i > 3
    <3>1. i \in Int /\ i >= k - 2 /\ i <= k + 2
      BY <1>7
    <3>2. k + 2 <= Len(b) - u
      BY <1>1, <1>2, <1>3
    <3>3. QED
      BY <1>1, <1>3, <1>7, <1>8, <3>1, <3>2
  <2>2. c[i] = b[u + i] /\ l[b[u + i]] = n[b[u + i]]
    BY <1>2, <1>4, <2>1
  <2>3. QED
    BY <2>1, <2>2, Zenon
<1> DEFINE j == u + k
<1>10. j \in 3 .. Len(b) - 2
  BY <1>1, <1>2, <1>3
<1>11. n[b[j]] = 2
  BY <1>6, <1>9
<1>12. ASSUME NEW i \in {j - 2, j - 1, j + 1, j + 2} PROVE n[b[i]] = 3
  <2>1. i - u \in {k - 2, k - 1, k + 1, k + 2} /\ u + (i - u) = i
    BY <1>7
  <2>2. n[b[u + (i - u)]] = l[c[i - u]] /\ l[c[i - u]] = 3
    BY <1>6, <1>9, <2>1
  <2>3. QED
    BY <2>1, <2>2, Zenon
<1> HIDE DEF j
<1>13. QED
  BY <1>10, <1>11, <1>12 DEF Middle

\* A reading that takes a sequence before it comes to the pair.
LEMMA AfterSequence ==
  ASSUME NEW n, NEW b, <<n, b>> \in Readings,
         Len(b) >= 3 => FoundAfter(n, Tail(b)) /\ FoundEither(Less(n, b), Rest(n, b))
  PROVE  FoundAfter(n, b)
<1> SUFFICES ASSUME NEW q, Readable(n, b, q), Before(n, b, q) PROVE val[<<n, b>>].w <= 1
  BY DEF FoundAfter
<1>1. /\ n \in [Rank -> Nat] /\ b \in Seq(Rank) /\ Adjacent(b) /\ Len(b) \in Nat
      /\ \A k \in 1 .. Len(b) : n[b[k]] > 0
  BY ReadingDef
<1>2. (\A r \in ToSet(b) : n[r] <= 3) /\ Fits(n, ToSet(b), q) /\ ~ Middle(n, b)
  BY DEF Readable
<1>3. PICK i, j \in 1 .. Len(b) : i < j /\ n[b[i]] # 3 /\ b[j] = q
  BY DEF Before
<1>4. \A x, y \in 1 .. Len(b) : b[x] = b[y] => x = y
  BY <1>1, AdjacentDiffer
<1>5. Spared(ToSet(b), q) \in {0, 1} /\ val[<<n, b>>].w \in Nat
  BY ValCases DEF Spared, Weights
<1>6. CASE Len(b) < 3
  <2>1. Late(b, q)
    <3>1. 1 .. Len(b) - 2 = {}
      BY <1>1, <1>6
    <3>2. QED
      BY <3>1 DEF Late
  <2>2. val[<<n, b>>].w <= Spared(ToSet(b), q)
    BY <1>2, <2>1, LateFound DEF Found
  <2>3. QED
    BY <1>5, <2>2
<1>7. CASE Len(b) >= 3
  <2>1. q # b[1] /\ 1 \in 1 .. Len(b)
    <3>1. 1 \in 1 .. Len(b) /\ j # 1
      BY <1>1, <1>3, <1>7
    <3>2. QED
      BY <1>3, <1>4, <3>1
  <2>2. n[b[1]] <= 3 /\ n[b[1]] \in Nat
    <3>1. b[1] \in ToSet(b) /\ b[1] \in Rank
      BY <1>1, <2>1 DEF ToSet
    <3>2. QED
      BY <1>1, <1>2, <3>1
  <2>3. CASE n[b[1]] > 2
    <3> DEFINE d == Tail(b)
    <3>1. n[b[1]] = 3
      BY <2>2, <2>3
    <3>2. Len(d) = Len(b) - 1 /\ \A k \in 1 .. Len(b) - 1 : d[k] = b[k + 1]
      BY <1>7, TailReading
    <3>3. ToSet(b) = {b[1]} \cup ToSet(d)
      BY <1>7, TailParts
    <3>4. Fits(n, ToSet(d), q)
      BY <1>2, <1>7, <2>1, <3>1, FitsTriplet
    <3>5. ~ Middle(n, d)
      BY <1>2, <1>7, MiddleTail
    <3>6. val[<<n, b>>] = val[<<n, d>>]
      BY <1>7, <2>3, ValCases
    <3>7. FoundAfter(n, d)
      BY <1>7
    <3> HIDE DEF d
    <3>8. Before(n, d, q)
      <4>1. i # 1
        BY <1>3, <3>1
      <4>2. i - 1 \in 1 .. Len(b) - 1 /\ j - 1 \in 1 .. Len(b) - 1 /\ i - 1 < j - 1 /\ (i - 1) + 1 = i /\ (j - 1) + 1 = j
        BY <1>1, <1>3, <4>1
      <4>3. d[i - 1] = b[(i - 1) + 1] /\ d[j - 1] = b[(j - 1) + 1]
        BY <3>2, <4>2
      <4>4. d[i - 1] = b[i] /\ d[j - 1] = b[j]
        BY <4>2, <4>3, Zenon
      <4>5. i - 1 \in 1 .. Len(d) /\ j - 1 \in 1 .. Len(d)
        BY <3>2, <4>2
      <4>6. QED
        BY <1>3, <4>2, <4>4, <4>5 DEF Before
    <3>9. val[<<n, d>>].w <= 1
      BY <1>2, <3>3, <3>4, <3>5, <3>7, <3>8 DEF FoundAfter, Readable
    <3>10. QED
      BY <3>6, <3>9, Zenon
  <2>4. CASE ~(n[b[1]] > 2)
    <3> DEFINE l == Less(n, b)
               d == Rest(n, b)
               v == val[<<n, b>>].w
               o == LeftOver(n, b).w
               x == val[<<l, d>>].w
               y == val[<<l, Reverse(d)>>].w
    <3>1. Fits(l, ToSet(d), q) /\ o + Spared(ToSet(d), q) = Spared(ToSet(b), q)
      BY <1>2, <1>7, <2>1, <2>4, FitsSequence
    <3>2. o \in Nat /\ v \in Nat /\ x \in Nat /\ y \in Nat /\ v <= o + x /\ (Len(d) >= 3 => v <= o + y)
      BY <1>7, <2>4, ValAtMost
    <3>3. ~ Middle(l, d)
      BY <1>2, <1>7, MiddleRest
    <3>4. <<l, d>> \in Readings /\ FoundEither(l, d)
      BY <1>7, RestReading
    <3>5. \A r \in ToSet(d) : l[r] <= 3
      <4>1. ToSet(d) \subseteq ToSet(b) /\ ToSet(b) \in SUBSET Rank
        BY <1>7, ReadingParts
      <4>2. l \in [Rank -> Nat] /\ \A r \in Rank : l[r] <= n[r]
        BY <1>7, LessFacts
      <4> HIDE DEF l, d
      <4>3. ASSUME NEW r \in ToSet(d) PROVE l[r] <= 3
        <5>1. r \in Rank /\ n[r] <= 3 /\ l[r] <= n[r] /\ l[r] \in Nat /\ n[r] \in Nat
          BY <1>1, <1>2, <4>1, <4>2
        <5>2. QED
          BY <5>1
      <4>4. QED
        BY <4>3
    <3> HIDE DEF l, d
    <3>6. Len(d) \in Nat
      BY <3>4, ReadingDef
    <3>7. Late(d, q) => x <= Spared(ToSet(d), q)
      BY <3>1, <3>4, <3>5, LateFound DEF Found
    <3>8. x <= 1 \/ y <= 1
      BY <3>1, <3>3, <3>4, <3>5 DEF FoundEither, Readable
    <3> HIDE DEF v, o, x, y
    <3>9. CASE Late(d, q)
      <4>1. Spared(ToSet(d), q) \in {0, 1}
        BY DEF Spared
      <4>2. v <= 1
        BY <1>5, <3>1, <3>2, <3>7, <3>9, <4>1
      <4>3. QED
        BY <4>2 DEF v
    <3>10. CASE ~ Late(d, q)
      <4>1. PICK k \in 1 .. Len(d) - 2 : d[k] = q
        BY <3>10 DEF Late
      <4>2. k \in 1 .. Len(d) /\ Len(d) >= 3
        BY <3>6
      <4>3. q \in ToSet(d)
        <5>1. d \in Seq(Rank)
          BY <3>4, ReadingDef
        <5>2. QED
          BY <4>1, <4>2, <5>1 DEF ToSet
      <4>4. o = 0
        <5>1. Spared(ToSet(d), q) = 1
          BY <4>3 DEF Spared
        <5>2. QED
          BY <1>5, <3>1, <3>2, <5>1
      <4>5. v <= 1
        BY <3>2, <3>8, <4>2, <4>4
      <4>6. QED
        BY <4>5 DEF v
    <3>11. QED
      BY <3>9, <3>10
  <2>5. QED
    BY <2>3, <2>4
<1>8. QED
  BY <1>1, <1>6, <1>7

\* A pair that is met after triplets only, from both ends.
LEMMA EitherEnd ==
  ASSUME NEW n, NEW b, <<n, b>> \in Readings, <<n, Reverse(b)>> \in Readings,
         FoundAfter(n, b), FoundAfter(n, Reverse(b))
  PROVE  FoundEither(n, b)
<1> DEFINE c == Reverse(b)
           T == ToSet(b)
<1> SUFFICES ASSUME NEW q, Readable(n, b, q) PROVE val[<<n, b>>].w <= 1 \/ val[<<n, c>>].w <= 1
  BY DEF FoundEither
<1>1. /\ n \in [Rank -> Nat] /\ b \in Seq(Rank) /\ Adjacent(b) /\ Len(b) \in Nat
      /\ \A k \in 1 .. Len(b) : n[b[k]] > 0
  BY ReadingDef
<1>2. (\A r \in T : n[r] <= 3) /\ Fits(n, T, q) /\ ~ Middle(n, b)
  BY DEF Readable
<1>3. /\ Len(c) = Len(b) /\ ToSet(c) = T /\ \A k \in 1 .. Len(b) : c[k] = b[Len(b) - k + 1]
  BY <1>1, AdjacentReverse
<1>4. \A x, y \in 1 .. Len(b) : b[x] = b[y] => x = y
  BY <1>1, AdjacentDiffer
<1>5. T = {b[k] : k \in 1 .. Len(b)} /\ T \in SUBSET Rank
  BY <1>1 DEF ToSet
<1>6. ~ Middle(n, c)
  BY <1>2, MiddleReverse
<1>7. val[<<n, b>>].w \in Nat /\ val[<<n, c>>].w \in Nat
  BY ValCases DEF Weights
<1>8. FoundAfter(n, b) /\ FoundAfter(n, c)
  OBVIOUS
<1>9. Found(n, b) /\ Found(n, c)
  BY LateFound
<1> HIDE DEF c, T
<1>10. ASSUME NEW p, Fits(n, T, p), Late(b, p) PROVE val[<<n, b>>].w <= 1
  <2>1. val[<<n, b>>].w <= Spared(T, p)
    BY <1>2, <1>9, <1>10 DEF Found, T
  <2>2. Spared(T, p) \in {0, 1}
    BY DEF Spared
  <2>3. QED
    BY <1>7, <2>1, <2>2
<1>11. ASSUME Late(c, q) PROVE val[<<n, c>>].w <= 1
  <2>1. val[<<n, c>>].w <= Spared(T, q)
    BY <1>2, <1>3, <1>9, <1>11 DEF Found
  <2>2. Spared(T, q) \in {0, 1}
    BY DEF Spared
  <2>3. QED
    BY <1>7, <2>1, <2>2
<1>12. Before(n, b, q) => val[<<n, b>>].w <= 1
  BY <1>8 DEF FoundAfter
<1>13. Before(n, c, q) => val[<<n, c>>].w <= 1
  <2>1. Readable(n, c, q)
    BY <1>2, <1>3, <1>6 DEF Readable
  <2>2. QED
    BY <1>8, <2>1 DEF FoundAfter
<1>14. CASE q \notin T
  <2>1. Late(b, q)
    <3>1. \A k \in 1 .. Len(b) - 2 : k \in 1 .. Len(b)
      BY <1>1
    <3>2. QED
      BY <1>5, <1>14, <3>1 DEF Late
  <2>2. QED
    BY <1>2, <1>10, <2>1
<1>15. CASE q \in T
  <2>1. PICK k \in 1 .. Len(b) : q = b[k]
    BY <1>5, <1>15
  <2>2. CASE k > Len(b) - 2
    <3>1. ASSUME NEW i \in 1 .. Len(b) - 2 PROVE b[i] # q
      <4>1. i \in 1 .. Len(b) /\ i # k
        BY <1>1, <2>2
      <4>2. QED
        BY <1>4, <2>1, <4>1
    <3>2. Late(b, q)
      BY <3>1 DEF Late
    <3>3. QED
      BY <1>2, <1>10, <3>2
  <2>3. CASE k < 3
    <3>1. ASSUME NEW i \in 1 .. Len(c) - 2 PROVE c[i] # q
      <4>0. i \in Int /\ 1 <= i /\ i <= Len(b) - 2 /\ k \in Int
        BY <1>1, <1>3
      <4>1. i \in 1 .. Len(b) /\ Len(b) - i + 1 \in 1 .. Len(b) /\ Len(b) - i + 1 # k
        BY <1>1, <2>3, <4>0
      <4>2. c[i] = b[Len(b) - i + 1]
        BY <1>3, <4>1
      <4>3. b[Len(b) - i + 1] # b[k]
        BY <1>4, <4>1
      <4>4. QED
        BY <2>1, <4>2, <4>3, Zenon
    <3>2. Late(c, q)
      BY <3>1 DEF Late
    <3>3. QED
      BY <1>11, <3>2
  <2>4. CASE \E i \in 1 .. Len(b) : i < k /\ n[b[i]] # 3
    <3>1. Before(n, b, q)
      BY <2>1, <2>4 DEF Before
    <3>2. QED
      BY <1>12, <3>1
  <2>5. CASE \E i \in 1 .. Len(b) : i > k /\ n[b[i]] # 3
    <3>1. PICK i \in 1 .. Len(b) : i > k /\ n[b[i]] # 3
      BY <2>5
    <3> DEFINE x == Len(b) - i + 1
               y == Len(b) - k + 1
    <3>2. /\ x \in 1 .. Len(b) /\ y \in 1 .. Len(b) /\ x < y
          /\ Len(b) - x + 1 = i /\ Len(b) - y + 1 = k
      BY <1>1, <3>1
    <3> HIDE DEF x, y
    <3>3. c[x] = b[Len(b) - x + 1] /\ c[y] = b[Len(b) - y + 1]
      BY <1>3, <3>2
    <3>4. c[x] = b[i] /\ c[y] = q
      BY <2>1, <3>2, <3>3, Zenon
    <3>5. n[c[x]] # 3
      BY <3>1, <3>4, Zenon
    <3>6. Before(n, c, q)
      BY <1>3, <3>2, <3>4, <3>5 DEF Before
    <3>7. QED
      BY <1>13, <3>6
  <2>6. CASE /\ k \in 3 .. Len(b) - 2
             /\ \A i \in 1 .. Len(b) : i # k => n[b[i]] = 3
    <3>1. n[b[k]] # 2
      <4> SUFFICES ASSUME n[b[k]] = 2 PROVE FALSE
        OBVIOUS
      <4>1. \A i \in {k - 2, k - 1, k + 1, k + 2} : i \in 1 .. Len(b) /\ i # k
        BY <1>1, <2>6
      <4>2. \A i \in {k - 2, k - 1, k + 1, k + 2} : n[b[i]] = 3
        BY <2>6, <4>1
      <4>3. QED
        BY <1>2, <2>6, <4>2 DEF Middle
    <3>2. n[q] \in 1 .. 3 /\ q \in Rank /\ q \in Int
      <4>1. q \in Rank /\ n[q] <= 3
        BY <1>2, <1>5, <1>15
      <4>2. n[q] \in Nat /\ n[q] > 0
        BY <1>1, <2>1, <4>1
      <4>3. q \in Int
        BY <4>1, RanksAssumption DEF Rank
      <4>4. QED
        BY <4>1, <4>2, <4>3
    <3>3. n[q] # 1
      <4>1. PICK s \in [Rank -> 0 .. 2] : Melded(n, T, q, s)
        BY <1>2 DEF Fits
      <4>2. n[q] - Pair(q, q) - Uses(s, q) \in {0, 3}
        BY <1>15, <4>1 DEF Melded
      <4>3. Pair(q, q) = 2
        BY DEF Pair
      <4>4. s \in [Rank -> Nat]
        OBVIOUS
      <4>5. Uses(s, q) \in Nat
        BY <3>2, <4>4, UsesType
      <4>6. QED
        BY <3>2, <4>2, <4>3, <4>5
    <3>4. n[q] = 3
      <4>1. n[q] # 2
        BY <2>1, <3>1
      <4>2. QED
        BY <3>2, <3>3, <4>1
    <3>5. \A r \in T : n[r] = 3
      BY <1>5, <2>1, <2>6, <3>4
    <3>6. Fits(n, T, None)
      <4> DEFINE s == [r \in Rank |-> 0]
      <4>1. s \in [Rank -> 0 .. 2] /\ s \in [Rank -> Nat] /\ (\A a \in Rank : s[a] = 0)
        OBVIOUS
      <4>2. Inside(s, T)
        BY DEF Inside
      <4> HIDE DEF s
      <4>3. ASSUME NEW r \in T PROVE n[r] - Pair(None, r) - Uses(s, r) \in {0, 3}
        <5>0. r \in Rank
          BY <1>5
        <5>1. r \in Int /\ r # None
          BY <5>0, RanksAssumption DEF Rank, None
        <5>2. Uses(s, r) = 0
          BY <4>1, <5>1, UsesType
        <5>3. Pair(None, r) = 0
          BY <5>1 DEF Pair
        <5>4. QED
          BY <3>5, <5>2, <5>3
      <4>4. Melded(n, T, None, s)
        BY <4>1, <4>2, <4>3 DEF Melded
      <4>5. QED
        BY <4>1, <4>4 DEF Fits
    <3>7. Late(b, None)
      <4>1. \A i \in 1 .. Len(b) - 2 : i \in 1 .. Len(b)
        BY <1>1
      <4>2. \A i \in 1 .. Len(b) : b[i] # None
        BY <1>1, RanksAssumption DEF Rank, None
      <4>3. QED
        BY <4>1, <4>2 DEF Late
    <3>8. QED
      BY <1>10, <3>6, <3>7
  <2>7. \A i \in 1 .. Len(b) : i < k \/ i = k \/ i > k
    BY <1>1
  <2>8. k > Len(b) - 2 \/ k < 3 \/ k \in 3 .. Len(b) - 2
    BY <1>1
  <2>9. QED
    BY <2>2, <2>3, <2>4, <2>5, <2>6, <2>7, <2>8
<1>16. QED
  BY <1>14, <1>15 DEF c

\* One of the two readings of a block recognises melds and a pair.
LEMMA PairFound == \A n, b : <<n, b>> \in Readings => FoundEither(n, b)
<1> DEFINE P == {x \in Readings : FoundAfter(x[1], x[2]) /\ FoundEither(x[1], x[2])}
<1>1. ASSUME NEW m, NEW c, <<m, c>> \in Readings
      PROVE  <<m, c>> \in P <=> FoundAfter(m, c) /\ FoundEither(m, c)
  <2>1. <<m, c>>[1] = m /\ <<m, c>>[2] = c
    OBVIOUS
  <2>2. QED
    BY <1>1, <2>1
<1> HIDE DEF P
<1>2. ASSUME NEW m, NEW c, <<m, c>> \in Readings, NEW z \in Nat, Measure[<<m, c>>] = z,
             \A y \in Readings : Measure[y] < z => y \in P
      PROVE  FoundAfter(m, c)
  <2>1. ASSUME Len(c) >= 3 PROVE FoundAfter(m, Tail(c)) /\ FoundEither(Less(m, c), Rest(m, c))
    <3>1. Measure[<<m, Tail(c)>>] < z /\ Measure[<<Less(m, c), Rest(m, c)>>] < z
      BY <1>2, <2>1, MeasureSmaller
    <3>2. <<m, Tail(c)>> \in Readings /\ <<Less(m, c), Rest(m, c)>> \in Readings
      BY <1>2, <2>1, TailReading, RestReading
    <3>3. <<m, Tail(c)>> \in P /\ <<Less(m, c), Rest(m, c)>> \in P
      BY <1>2, <3>1, <3>2, Zenon
    <3>4. QED
      BY <1>1, <3>2, <3>3, Zenon
  <2>2. QED
    BY <1>2, <2>1, AfterSequence
<1>3. ASSUME NEW x \in Readings, \A y \in Readings : Measure[y] < Measure[x] => y \in P
      PROVE  x \in P
  <2> DEFINE n == x[1]
             b == x[2]
             c == Reverse(b)
  <2>1. x = <<n, b>>
    BY DEF Readings
  <2> HIDE DEF n, b
  <2>2. <<n, b>> \in Readings
    BY <2>1
  <2>3. /\ n \in [Rank -> Nat] /\ b \in Seq(Rank) /\ Adjacent(b) /\ Len(b) \in Nat
        /\ \A k \in 1 .. Len(b) : n[b[k]] > 0
    BY <2>2, ReadingDef
  <2>4. /\ c \in Seq(Rank) /\ Adjacent(c) /\ Len(c) = Len(b)
        /\ \A k \in 1 .. Len(b) : c[k] = b[Len(b) - k + 1]
    BY <2>3, AdjacentReverse
  <2> HIDE DEF c
  <2>5. <<n, c>> \in Readings
    <3>1. ASSUME NEW k \in 1 .. Len(c) PROVE n[c[k]] > 0
      <4>1. k \in 1 .. Len(b) /\ Len(b) - k + 1 \in 1 .. Len(b)
        BY <2>3, <2>4
      <4>2. QED
        BY <2>3, <2>4, <4>1
    <3>2. QED
      BY <2>3, <2>4, <3>1, ReadingDef
  <2>6. Measure[<<n, b>>] = Measure[<<n, c>>] /\ Measure[<<n, b>>] \in Nat
    <3>1. Measure[<<n, b>>] = Total(n) + Len(b) /\ Measure[<<n, c>>] = Total(n) + Len(c)
      BY <2>2, <2>5 DEF Measure
    <3>2. Measure[<<n, b>>] \in Nat
      BY <2>2, MeasureType
    <3>3. QED
      BY <2>4, <3>1, <3>2
  <2> DEFINE z == Measure[<<n, b>>]
  <2>7. \A y \in Readings : Measure[y] < z => y \in P
    BY <1>3, <2>1, Zenon
  <2>8. FoundAfter(n, b) /\ FoundAfter(n, c)
    <3>1. z \in Nat /\ Measure[<<n, b>>] = z /\ Measure[<<n, c>>] = z
      BY <2>6
    <3> HIDE DEF z
    <3>2. QED
      BY <1>2, <2>2, <2>5, <2>7, <3>1, Zenon
  <2>9. FoundEither(n, b)
    BY <2>2, <2>5, <2>8, EitherEnd DEF c
  <2>10. QED
    BY <1>1, <2>1, <2>2, <2>8, <2>9, Zenon
<1>4. Readings \subseteq P
  BY <1>3, ReadingInduction, Zenon
<1>5. QED
  BY <1>1, <1>4
-----------------------------------------------------------------------------
(* Suits of melds, and of melds and a pair.                                *)

\* The weight of a block is that of its cheaper reading.
LEMMA BlockAtMost ==
  ASSUME NEW no \in [Rank -> Nat], NEW a \in Starts(no)
  PROVE  /\ Weighed(no)[a].w \in Nat
         /\ Weighed(no)[a].w <= val[<<no, BlockAt(no, a)>>].w
         /\ Weighed(no)[a].w <= val[<<no, Reverse(BlockAt(no, a))>>].w
<1> DEFINE b == BlockAt(no, a)
           x == val[<<no, b>>]
           y == val[<<no, Reverse(b)>>]
<1>1. <<no, b>> \in Readings /\ <<no, Reverse(b)>> \in Readings
  BY BlockReading
<1>2. x \in Weights /\ y \in Weights
  BY <1>1, ValCases
<1>3. Weighed(no)[a] = GetWeightVal(no, b)
  BY DEF Weighed
<1>4. GetWeightVal(no, b) = IF Len(b) < 3 THEN x ELSE Cheaper(x, y)
  BY Zenon DEF GetWeightVal, WeightVal
<1>5. Len(b) < 3 => x = y
  <2>1. b \in Seq(Rank) /\ Adjacent(b)
    BY <1>1, ReadingDef
  <2>2. Len(Reverse(b)) = Len(b) /\ ToSet(Reverse(b)) = ToSet(b)
    BY <2>1, AdjacentReverse
  <2> HIDE DEF b
  <2>3. ASSUME Len(b) < 3 PROVE x = y
    <3>1. x = Loose(no, ToSet(b))
      BY <1>1, <2>3, ValCases
    <3>2. y = Loose(no, ToSet(Reverse(b)))
      BY <1>1, <2>2, <2>3, ValCases
    <3>3. QED
      BY <2>2, <3>1, <3>2, Zenon
  <2>4. QED
    BY <2>3
<1> HIDE DEF b, x, y
<1>6. Cheaper(x, y) \in Weights /\ Cheaper(x, y).w <= x.w /\ Cheaper(x, y).w <= y.w
  BY <1>2, CheaperType
<1>7. x.w \in Nat /\ y.w \in Nat /\ Cheaper(x, y).w \in Nat
  BY <1>2, <1>6 DEF Weights
<1>8. Weighed(no)[a].w \in Nat /\ Weighed(no)[a].w <= x.w /\ Weighed(no)[a].w <= y.w
  <2>1. CASE Len(b) < 3
    <3>1. Weighed(no)[a] = x /\ x = y
      BY <1>3, <1>4, <1>5, <2>1, Zenon
    <3>2. QED
      BY <1>7, <3>1
  <2>2. CASE ~(Len(b) < 3)
    <3>1. Weighed(no)[a] = Cheaper(x, y)
      BY <1>3, <1>4, <2>2, Zenon
    <3>2. QED
      BY <1>6, <1>7, <3>1
  <2>3. QED
    BY <2>1, <2>2
<1>9. QED
  BY <1>8 DEF b, x, y

\* Melds of a suit are melds of its blocks.
LEMMA BlocksFit ==
  ASSUME NEW no \in [Rank -> Nat], NEW s \in [Rank -> 0 .. 2], NEW q,
         \A r \in Rank : r + 2 \notin Rank => s[r] = 0,
         \A r \in Rank : no[r] - Pair(q, r) - Uses(s, r) \in {0, 3},
         NEW a \in Starts(no)
  PROVE  Fits(no, Span(no, a), q)
<1> DEFINE t == [c \in Rank |-> IF c \in Span(no, a) THEN s[c] ELSE 0]
<1>1. PICK e \in Rank : /\ a \in Rank /\ a <= e /\ Span(no, a) = a .. e
                        /\ \A r \in a .. e : r \in Rank /\ no[r] > 0
                        /\ e + 1 \in Rank => no[e + 1] = 0
  BY BlockReading
<1>2. s \in [Rank -> Nat] /\ \A r \in Rank : r \in Int /\ r >= 0
  BY RanksAssumption DEF Rank
<1>3. a = 0 \/ (a - 1 \in Rank /\ no[a - 1] = 0)
  <2>1. a = 0 \/ no[a - 1] = 0
    BY DEF Starts
  <2>2. a # 0 => a - 1 \in Rank
    BY <1>1, RanksAssumption DEF Rank
  <2>3. QED
    BY <2>1, <2>2
<1>4. ASSUME NEW c \in Rank, s[c] > 0
      PROVE  \A r \in {c, c + 1, c + 2} : r \in Rank /\ no[r] > 0
  <2>1. c + 2 \in Rank
    BY <1>4
  <2>2. c + 1 \in Rank
    BY <2>1, RanksAssumption DEF Rank
  <2>3. ASSUME NEW r \in {c, c + 1, c + 2} PROVE r \in Rank /\ no[r] > 0
    <3>1. r \in Rank /\ r \in Int /\ c \in Int
      BY <1>2, <2>1, <2>2
    <3>2. c \in r - 2 .. r
      BY <2>3, <3>1
    <3>3. Uses(s, r) \in Nat /\ s[c] <= Uses(s, r)
      BY <1>2, <3>1, <3>2, UsesType
    <3>4. s[c] \in Nat /\ no[r] \in Nat /\ Pair(q, r) \in {0, 2}
      BY <1>2, <3>1 DEF Pair
    <3>5. no[r] - Pair(q, r) - Uses(s, r) \in {0, 3}
      BY <3>1
    <3>6. \A x, y, z, v \in Nat : y \in {0, 2} /\ x - y - z \in {0, 3} /\ v > 0 /\ v <= z => x > 0
      OBVIOUS
    <3>7. Pair(q, r) \in Nat
      BY <3>4
    <3>8. no[r] > 0
      BY <1>4, <3>3, <3>4, <3>5, <3>6, <3>7, Zenon
    <3>9. QED
      BY <3>1, <3>8
  <2>4. QED
    BY <2>3
<1>5. t \in [Rank -> 0 .. 2] /\ t \in [Rank -> Nat] /\ \A c \in Rank : t[c] > 0 => c \in Span(no, a) /\ s[c] > 0
  OBVIOUS
<1>6. Inside(t, Span(no, a))
  <2>1. ASSUME NEW c \in Rank, t[c] > 0
        PROVE  c \in Span(no, a) /\ c + 1 \in Span(no, a) /\ c + 2 \in Span(no, a)
    <3>1. c \in a .. e /\ \A r \in {c, c + 1, c + 2} : r \in Rank /\ no[r] > 0
      BY <1>1, <1>4, <1>5, <2>1
    <3>2. c \in Int /\ a \in Int /\ e \in Int
      BY <1>1, <1>2
    <3>3. c # e /\ c + 1 # e
      <4>1. ~(no[e + 1] > 0) \/ e + 1 \notin Rank
        BY <1>1
      <4>2. c = e => no[e + 1] > 0 /\ e + 1 \in Rank
        BY <3>1
      <4>3. c + 1 = e => no[e + 1] > 0 /\ e + 1 \in Rank
        <5>1. c + 1 = e => e + 1 = c + 2
          BY <3>2
        <5>2. QED
          BY <3>1, <5>1
      <4>4. QED
        BY <4>1, <4>2, <4>3
    <3>4. c + 1 \in a .. e /\ c + 2 \in a .. e
      BY <3>1, <3>2, <3>3
    <3>5. QED
      BY <1>1, <3>1, <3>4
  <2> HIDE DEF t
  <2>2. QED
    BY <2>1 DEF Inside
<1>7. ASSUME NEW r \in Span(no, a) PROVE no[r] - Pair(q, r) - Uses(t, r) \in {0, 3}
  <2>1. r \in Rank /\ r \in a .. e /\ r \in Int /\ a \in Int /\ e \in Int
    BY <1>1, <1>2
  <2>2. ASSUME NEW c \in Rank, c \in r - 2 .. r PROVE t[c] = s[c]
    <3>1. CASE c \in a .. e
      BY <1>1, <3>1
    <3>2. CASE c \notin a .. e
      <4>1. t[c] = 0
        BY <1>1, <3>2
      <4>2. ~(s[c] > 0)
        <5> SUFFICES ASSUME s[c] > 0 PROVE FALSE
          OBVIOUS
        <5>1. \A x \in {c, c + 1, c + 2} : x \in Rank /\ no[x] > 0
          BY <1>4
        <5>2. c \in Int /\ c >= 0
          BY <1>2
        <5>3. a # 0 /\ a - 1 \in {c, c + 1, c + 2}
          BY <2>1, <2>2, <3>2, <5>2
        <5>4. no[a - 1] > 0 /\ no[a - 1] = 0
          BY <1>3, <5>1, <5>3
        <5>5. QED
          BY <5>4
      <4>3. s[c] \in Nat
        BY <1>2
      <4>4. QED
        BY <4>1, <4>2, <4>3
    <3>3. QED
      BY <3>1, <3>2
  <2> HIDE DEF t
  <2>3. Uses(t, r) = Uses(s, r)
    <3> DEFINE f == [c \in Rank |-> IF c \in r - 2 .. r THEN s[c] ELSE 0]
               g == [c \in Rank |-> IF c \in r - 2 .. r THEN t[c] ELSE 0]
    <3>1. f = g
      BY <2>2
    <3>2. Uses(s, r) = Total(f) /\ Uses(t, r) = Total(g)
      BY DEF Uses, SumOf
    <3> HIDE DEF f, g
    <3>3. QED
      BY <3>1, <3>2, Zenon
  <2>4. no[r] - Pair(q, r) - Uses(s, r) \in {0, 3}
    BY <2>1
  <2>5. QED
    BY <2>3, <2>4, Zenon
<1> HIDE DEF t
<1>8. QED
  BY <1>5, <1>6, <1>7 DEF Fits, Melded

\* A suit that consists of melds, with three tiles of a rank at most, weighs
\* nothing.
THEOREM MeldsWeigh ==
  ASSUME NEW no \in [Rank -> Nat], NoFour(no), IsMelds(no)
  PROVE  SetWeight(no).w = 0
<1>1. PICK s \in [Rank -> 0 .. 2] :
        /\ \A r \in Rank : r + 2 \notin Rank => s[r] = 0
        /\ \A r \in Rank : no[r] - Uses(s, r) \in {0, 3}
  BY DEF IsMelds, Uses
<1>2. \A r \in Rank : r # None /\ Pair(None, r) = 0
  BY RanksAssumption DEF Rank, None, Pair
<1>3. ASSUME NEW r \in Rank PROVE no[r] - Pair(None, r) - Uses(s, r) \in {0, 3}
  <2>1. no[r] - 0 = no[r]
    OBVIOUS
  <2>2. QED
    BY <1>1, <1>2, <2>1, Zenon
<1>4. ASSUME NEW a \in Starts(no) PROVE Weighed(no)[a].w = 0
  <2> DEFINE b == BlockAt(no, a)
  <2>1. Fits(no, Span(no, a), None)
    BY <1>1, <1>3, BlocksFit
  <2>2. Span(no, a) \subseteq Rank /\ ToSet(b) = Span(no, a)
    BY BlocksPart DEF Span
  <2>3. <<no, b>> \in Readings
    BY BlockReading
  <2>4. b \in Seq(Rank)
    BY <2>3, ReadingDef
  <2>5. Weighed(no)[a].w \in Nat /\ Weighed(no)[a].w <= val[<<no, b>>].w
    BY BlockAtMost
  <2>6. val[<<no, b>>].w \in Nat
    BY <2>3, ValCases DEF Weights
  <2> HIDE DEF b
  <2>7. Late(b, None)
    <3>1. Len(b) \in Nat /\ \A k \in 1 .. Len(b) : b[k] # None
      BY <1>2, <2>4
    <3>2. \A k \in 1 .. Len(b) - 2 : k \in 1 .. Len(b)
      BY <3>1
    <3>3. QED
      BY <3>1, <3>2 DEF Late
  <2>8. \A r \in ToSet(b) : no[r] <= 3
    BY <2>2 DEF NoFour
  <2>9. val[<<no, b>>].w <= Spared(ToSet(b), None)
    BY <2>1, <2>2, <2>3, <2>7, <2>8, LateFound DEF Found
  <2>10. Spared(ToSet(b), None) = 0
    BY <1>2, <2>2 DEF Spared
  <2>11. QED
    BY <2>5, <2>6, <2>9, <2>10
<1> DEFINE f == [r \in Rank |-> IF r \in Starts(no) THEN Weighed(no)[r].w ELSE 0]
<1>5. f \in [Rank -> Nat] /\ SetWeight(no).w = Total(f)
  BY SuitWeight
<1>6. \A r \in Rank : f[r] = 0
  BY <1>4
<1> HIDE DEF f
<1>7. QED
  BY <1>5, <1>6, TotalNat

\* A suit of melds and a pair weighs 1, if the pair is not in the middle.
THEOREM CompleteWeighs ==
  ASSUME NEW no \in [Rank -> Nat], NoFour(no), IsComplete(no), ~ PairInTheMiddle(no)
  PROVE  SetWeight(no).w = 1
<1>1. PICK p \in Rank : no[p] >= 2 /\ IsMelds([no EXCEPT ![p] = @ - 2])
  BY DEF IsComplete
<1> DEFINE m == [no EXCEPT ![p] = @ - 2]
<1>2. m \in [Rank -> Nat] /\ \A r \in Rank : m[r] = no[r] - Pair(p, r) /\ m[r] <= no[r]
  BY <1>1 DEF Pair
<1>3. SumLen(m) = SumLen(no) - 2 /\ SumLen(no) \in Nat
  <2>1. no \in [Rank -> Int] /\ -2 \in Int
    OBVIOUS
  <2>2. Total([no EXCEPT ![p] = @ + (-2)]) = Total(no) + (-2)
    BY <2>1, TotalChange
  <2>3. m = [no EXCEPT ![p] = @ + (-2)]
    OBVIOUS
  <2>4. Total(no) \in Nat
    BY TotalNat
  <2> HIDE DEF m
  <2>5. QED
    BY <2>2, <2>3, <2>4 DEF SumLen
<1>4. IsMelds(m)
  BY <1>1
<1> HIDE DEF m
<1>5. NoFour(m)
  BY <1>2 DEF NoFour
<1>6. SetWeight(m).w = 0
  BY <1>2, <1>4, <1>5, MeldsWeigh
<1>7. (0 + SumLen(m)) % 3 = 0
  <2>1. (SetWeight(m).w + SumLen(m)) % 3 = 0
    BY <1>2, <1>5, SuitThree
  <2>2. QED
    BY <1>6, <2>1, Zenon
<1>8. (SetWeight(no).w + SumLen(no)) % 3 = 0
  BY SuitThree
<1> DEFINE f == [r \in Rank |-> IF r \in Starts(no) THEN Weighed(no)[r].w ELSE 0]
<1>9. f \in [Rank -> Nat] /\ SetWeight(no).w = Total(f)
  BY SuitWeight
<1>10. PICK s \in [Rank -> 0 .. 2] :
        /\ \A r \in Rank : r + 2 \notin Rank => s[r] = 0
        /\ \A r \in Rank : m[r] - Uses(s, r) \in {0, 3}
  BY <1>4 DEF IsMelds, Uses
<1>11. \A r \in Rank : no[r] - Pair(p, r) - Uses(s, r) \in {0, 3}
  BY <1>2, <1>10, Zenon
<1>12. ASSUME NEW a \in Starts(no) PROVE Weighed(no)[a].w <= Spared(Span(no, a), p) /\ Weighed(no)[a].w \in Nat
  <2> DEFINE b == BlockAt(no, a)
             x == val[<<no, b>>].w
             y == val[<<no, Reverse(b)>>].w
  <2>1. Fits(no, Span(no, a), p)
    BY <1>10, <1>11, BlocksFit
  <2>2. Span(no, a) \subseteq Rank /\ ToSet(b) = Span(no, a)
    BY BlocksPart DEF Span
  <2>3. <<no, b>> \in Readings /\ <<no, Reverse(b)>> \in Readings
    BY BlockReading
  <2>4. Weighed(no)[a].w \in Nat /\ Weighed(no)[a].w <= x /\ Weighed(no)[a].w <= y
    BY BlockAtMost
  <2>5. x \in Nat /\ y \in Nat
    BY <2>3, ValCases DEF Weights
  <2>6. \A r \in ToSet(b) : no[r] <= 3
    BY <2>2 DEF NoFour
  <2>7. CASE p \in Span(no, a)
    <3>1. ~ Middle(no, b)
      <4> SUFFICES ASSUME Middle(no, b) PROVE FALSE
        OBVIOUS
      <4>1. PICK e \in Rank : /\ a \in Rank /\ a <= e /\ \A r \in a .. e : r \in Rank /\ no[r] > 0
                              /\ b = Run(a, e)
        BY BlockEnd
      <4>2. a \in Int /\ e \in Int /\ a >= 0 /\ e <= Ranks - 1 /\ Ranks \in Int
        BY <4>1, RanksAssumption DEF Rank
      <4>3. b \in Seq(Rank) /\ Len(b) \in Nat
        BY <2>3, ReadingDef
      <4>4. DOMAIN b = 1 .. e - a + 1 /\ \A k \in 1 .. e - a + 1 : b[k] = a + k - 1
        BY <4>1 DEF Run
      <4>5. Len(b) = e - a + 1
        <5>1. DOMAIN b = 1 .. Len(b)
          BY <4>3
        <5>2. e - a + 1 \in Nat
          BY <4>1, <4>2
        <5> HIDE DEF b
        <5>3. QED
          BY <4>3, <4>4, <5>1, <5>2
      <4> HIDE DEF b
      <4>6. PICK k \in 3 .. Len(b) - 2 :
              no[b[k]] = 2 /\ \A i \in {k - 2, k - 1, k + 1, k + 2} : no[b[i]] = 3
        BY DEF Middle
      <4> DEFINE r == a + k - 1
      <4>7. k \in Int /\ k >= 3 /\ k <= e - a - 1
        BY <4>2, <4>5
      <4>8. r \in 2 .. Ranks - 3 /\ k \in 1 .. e - a + 1 /\ r \in Int
        BY <4>2, <4>7
      <4>9. no[r] = 2
        BY <4>4, <4>6, <4>8
      <4>10. ASSUME NEW q \in {r - 2, r - 1, r + 1, r + 2} PROVE no[q] = 3
        <5> DEFINE i == q - a + 1
        <5>1. i \in {k - 2, k - 1, k + 1, k + 2} /\ i \in 1 .. e - a + 1 /\ a + i - 1 = q
          BY <4>2, <4>7
        <5> HIDE DEF i
        <5>2. no[b[i]] = 3 /\ b[i] = a + i - 1
          BY <4>4, <4>6, <5>1
        <5>3. QED
          BY <5>1, <5>2, Zenon
      <4> HIDE DEF r
      <4>11. QED
        BY <4>8, <4>9, <4>10 DEF PairInTheMiddle
    <3>2. Readable(no, b, p)
      BY <2>1, <2>2, <2>6, <3>1 DEF Readable
    <3>3. x <= 1 \/ y <= 1
      BY <2>3, <3>2, PairFound DEF FoundEither
    <3>4. Spared(Span(no, a), p) = 1
      BY <2>7 DEF Spared
    <3> HIDE DEF x, y
    <3>5. QED
      BY <2>4, <2>5, <3>3, <3>4
  <2>8. CASE p \notin Span(no, a)
    <3>1. b \in Seq(Rank)
      BY <2>3, ReadingDef
    <3> HIDE DEF b
    <3>2. Late(b, p)
      <4>1. Len(b) \in Nat /\ \A k \in 1 .. Len(b) : b[k] \in ToSet(b)
        BY <3>1 DEF ToSet
      <4>2. \A k \in 1 .. Len(b) - 2 : k \in 1 .. Len(b)
        BY <4>1
      <4>3. QED
        BY <2>2, <2>8, <4>1, <4>2 DEF Late
    <3>3. x <= Spared(ToSet(b), p)
      BY <2>1, <2>2, <2>3, <2>6, <3>2, LateFound DEF Found
    <3>4. Spared(ToSet(b), p) = 0 /\ Spared(Span(no, a), p) = 0
      BY <2>2, <2>8 DEF Spared
    <3> HIDE DEF x, y
    <3>5. QED
      BY <2>4, <2>5, <3>3, <3>4
  <2>9. QED
    BY <2>7, <2>8
<1>13. PICK z \in Starts(no) : p \in Span(no, z)
  <2>1. no[p] > 0
    BY <1>1
  <2>2. QED
    BY <2>1, BlocksPart
<1>14. z \in Rank /\ f[z] <= 1
  <2>1. z \in Rank
    BY BlocksPart
  <2>2. Spared(Span(no, z), p) = 1
    BY <1>13 DEF Spared
  <2>3. QED
    BY <1>12, <2>1, <2>2
<1>15. ASSUME NEW r \in Rank \ {z} PROVE f[r] = 0
  <2>1. CASE r \in Starts(no)
    <3>1. p \notin Span(no, r)
      BY <1>13, <2>1, BlocksPart
    <3>2. Spared(Span(no, r), p) = 0
      BY <3>1 DEF Spared
    <3>3. Weighed(no)[r].w <= 0 /\ Weighed(no)[r].w \in Nat
      BY <1>12, <2>1, <3>2
    <3>4. f[r] = Weighed(no)[r].w
      BY <2>1
    <3> HIDE DEF f
    <3>5. QED
      BY <3>3, <3>4
  <2>2. CASE r \notin Starts(no)
    BY <2>2
  <2>3. QED
    BY <2>1, <2>2
<1> HIDE DEF f
<1>16. f[z] \in Nat /\ f \in [Rank -> Int]
  BY <1>9, <1>14
<1>17. Total(f) = f[z]
  BY <1>14, <1>15, <1>16, TotalSingle
<1>18. SetWeight(no).w \in 0 .. 1
  BY <1>9, <1>14, <1>16, <1>17
<1>19. QED
  BY <1>3, <1>7, <1>8, <1>18
=============================================================================
