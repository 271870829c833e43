----------------------------- MODULE MahjongPlay -----------------------------
(***************************************************************************)
(* A mahjong game after the opening: on its own turn the client asks what  *)
(* to do with its hand (functions 3, 4 and 6: InitNow and Outs), it        *)
(* reports what the others discard (function 10: SetSeeList), and asks     *)
(* whether to take that (function 5: SeeOuts).  The client is GameRun's    *)
(* Scmj; of functions 4 and 6, which differ in calling SelfSee, it sends   *)
(* only 6 today (Send_4 has no caller), the model has both.                *)
(*                                                                         *)
(* The player's picture of the hand, `now', is only replaced by InitNow.   *)
(* Outs does not take the tile out that it answers (the code that did is   *)
(* commented out), and SelfSee and SeeOuts do not undo their trials, so    *)
(* SeeOuts judges by a hand the client no longer holds.  Every function    *)
(* refreshes a block before the block is read again: blocks always belong  *)
(* to `now' here.  Which of several equally good tiles is answered depends *)
(* on the tiles seen, which the model leaves open.                         *)
(*                                                                         *)
(* The session may be replaced by a new one in the middle of the game: the *)
(* server was restarted, or ClearServer took the session for idle.  The    *)
(* client does not notice.                                                 *)
(***************************************************************************)
EXTENDS MahjongBlock

CONSTANTS
  HandSize,  \* tiles of a hand with the drawn one (14 in the code)
  Pairs,     \* pairs that make a full hand (7 in the code)
  Kinds,     \* the tiles of the game, as i * Ranks + j
  Isf        \* the values of GetFullVal, what a win has to be worth

(* Four triplets or sequences and a pair are as many tiles as seven pairs, *)
(* and the codes of the tiles are below those of the other answers.        *)
ASSUME PlayAssumption ==
  /\ Pairs \in Nat /\ Pairs >= 2
  /\ HandSize = 2 * Pairs /\ HandSize % 3 = 2
  /\ 3 * Ranks <= 32
  /\ Kinds \subseteq 0 .. 3 * Ranks - 1
  /\ Isf \subseteq Int

Kind == {TileOf(k) : k \in Kinds}
Unseen == <<>>

VARIABLES
  hand,    \* what the client holds
  melds,   \* how many of each tile it has laid down, none, three or four
  lack,    \* the suit it has told the game it plays without
  inv,     \* Public[3].Inv, None in a new session (Blocks are nil then)
  now,     \* Public[3].Now
  down,    \* Public[3].Down
  gone,    \* tiles the client put down since it last sent its hand, all
           \* copies of them: what it sends along with function 3
  heard,   \* another player's discard while it can be taken (GetLastSee)
  ans,     \* the last answer: its function, the hand it was given for, the
           \* options of function 5 and what it says
  phase    \* what happens next in the game

vars == <<hand, melds, lack, inv, now, down, gone, heard, ans, phase>>

Copies(h, t) == h[t[1]][t[2]]
HeldTiles(h) == {t \in Tile : Copies(h, t) > 0}

(* A NewBlock after Update, with what checkFull counts in it: its tiles,   *)
(* weight and grains, and how many ranks have four, two and one tile.  All *)
(* suits are numbered and weighed once.                                    *)
Number(no) ==
  LET k[n \in 0 .. Ranks] == IF n = 0 THEN 0 ELSE 5 * k[n - 1] + no[n - 1]
  IN  k[Ranks]
Numbers == {Number(no) : no \in SuitHand}
Numbered(k) == CHOOSE no \in SuitHand : Number(no) = k
Blocks ==
  LET with(no, n) == Cardinality({r \in Rank : no[r] = n})
      block(no, s) == [len |-> SumLen(no), w |-> s.w, o |-> s.o,
                       four |-> with(no, 4), two |-> with(no, 2), one |-> with(no, 1)]
  IN  [k \in Numbers |-> block(Numbered(k), SetWeight(Numbered(k)))]
Block(no) == Blocks[Number(no)]

(* The same for the reference. *)
Shapes ==
  [k \in Numbers |-> [melds |-> IsMelds(Numbered(k)), complete |-> IsComplete(Numbered(k))]]
Shape(no) == Shapes[Number(no)]

Player == [inv |-> inv, down |-> down]

(***************************************************************************)
(* What the player knows besides the hand: p.inv and p.down.               *)
(* checkFull: what the hand is worth, 0 if it is not full.                 *)
(***************************************************************************)
Empty(h, i) == h[i] = NoTile
Sums(h) ==
  LET sum(a, b, c) == [len  |-> a.len + b.len + c.len,    w   |-> a.w + b.w + c.w,
                       four |-> a.four + b.four + c.four, two |-> a.two + b.two + c.two,
                       one  |-> a.one + b.one + c.one]
  IN  sum(Block(h[0]), Block(h[1]), Block(h[2]))

\* Mutant of Complete: two single tiles left over pass for a pair.
CompleteLoose(s) == s.w \in {1, 4}

(* Only a pair is left over. *)
Complete(s) == s.w = 1

Worth(h, s, p, max) ==
  LET dui  == s.two + 2 * s.four
      qing == Cardinality({i \in Suit : ~ Empty(h, i) \/ ~ Empty(p.down, i)})
      f    == IF qing = 1 \/ dui = Pairs THEN 4 ELSE 1 + s.four
      extra == Cardinality({t \in Tile : Copies(p.down, t) > 2 \/ (Copies(p.down, t) = 2 /\ Copies(h, t) > 0)})
  IN  IF ~ (Complete(s) \/ dui = Pairs) THEN 0
      ELSE (IF s.one = 0 /\ dui = 1 THEN 2 * f ELSE f) + extra + (IF max THEN 1 ELSE 0)

checkFull(h, p, max) == IF ~ Empty(h, p.inv) THEN 0 ELSE Worth(h, Sums(h), p, max)

Enough(f, isf) == f > 0 /\ f >= isf

(* CheckJiao: the tiles that would make the hand full and worth isf. *)
CheckJiao(h, p, isf) ==
  IF ~ Empty(h, p.inv) THEN {}
  ELSE {t \in Tile :
          /\ t[1] # p.inv
          /\ Copies(h, t) # 4
          /\ Enough(checkFull(Put(h, t, 1), p, TRUE), isf)}

(* CheckAllJiao: the tiles to discard for a hand that waits for one tile. *)
CheckAllJiao(h, p, isf) ==
  LET kn == IF isf > 0 THEN 1 ELSE 2
      jiao(ready) ==
        LET few == {t \in ready : Copies(h, t) <= kn}
        IN  IF few # {} THEN few ELSE IF isf <= 0 THEN ready ELSE {}
  IN  jiao({t \in HeldTiles(h) : CheckJiao(Put(h, t, -1), p, isf) # {}})

(* No answer. *)
Nil == [fn |-> 10, sent |-> NoTiles, keys |-> {}, out |-> None]

Full == 33
Kong == 32
Panic == 255   \* EasyOuts takes the first of no tiles

(***************************************************************************)
(* SelfSee: win, or a fourth tile to a triplet, or else what Outs had.     *)
(* The tiles are looked at in order; one that is put to the test leaves    *)
(* `now' and does not come back.                                           *)
(***************************************************************************)
\* Mutant of Look: every single tile is taken for the fourth of a triplet.
LookUnmarked(h, isf, s, t) ==
  LET n == Copies(h, t)
  IN  IF s.out = Kong \/ t[1] = s.p.inv \/ n = 0 THEN s
      ELSE IF n = 4 THEN [s EXCEPT !.out = Kong]
      ELSE IF n > 1 THEN [s EXCEPT !.p.down = Put(@, t, -Copies(@, t))]
      ELSE IF CheckJiao(s.now, s.p, isf) = {} THEN [s EXCEPT !.out = Kong]
      ELSE LET less == Put(s.now, t, -1)
           IN  [s EXCEPT !.now = less,
                         !.out = IF CheckJiao(less, s.p, isf) # {} THEN Kong ELSE @]

Look(h, isf, s, t) ==
  LET n == Copies(h, t)
  IN  IF s.out = Kong \/ t[1] = s.p.inv \/ n = 0 THEN s
      ELSE IF n = 4 THEN [s EXCEPT !.out = Kong]
      ELSE IF Copies(s.p.down, t) = 0 THEN s
      ELSE IF n > 1 THEN [s EXCEPT !.p.down = Put(@, t, -Copies(@, t))]
      ELSE IF CheckJiao(s.now, s.p, isf) = {} THEN [s EXCEPT !.out = Kong]
      ELSE LET less == Put(s.now, t, -1)
           IN  [s EXCEPT !.now = less,
                         !.out = IF CheckJiao(less, s.p, isf) # {} THEN Kong ELSE @]

SelfSee(h, p, isf, cOut) ==
  LET start == [out |-> cOut, now |-> h, p |-> p]
      seen[k \in 0 .. 3 * Ranks] ==
        IF k = 0 THEN start ELSE Look(h, isf, seen[k - 1], TileOf(k - 1))
  IN  IF cOut = None /\ checkFull(h, p, TRUE) > 0 THEN [start EXCEPT !.out = Full]
      ELSE seen[3 * Ranks]

(***************************************************************************)
(* Outs: the possible results, the answer with `now' and `down' after it.  *)
(***************************************************************************)
(* A suit with less than three tiles goes first when a win has to be worth *)
(* something: blocks in the order InitNow gave them, down to one whose     *)
(* suit has tiles on the table.                                            *)
First(h, i) == <<i, Min({r \in Rank : h[i][r] > 0})>>
ShortSuit(sent, h, p) ==
  LET short(i) == Block(h[i]).len < 3
      open(i)  == \E r \in Rank : p.down[i][r] > 0
      goes(i)  == short(i) /\ ~ open(i) /\ ~ Empty(h, i)
  IN  {First(h, i) : i \in {a \in Suit \ {p.inv} :
         /\ goes(a)
         /\ \E b \in Suit \ {p.inv, a} :
              \/ Block(sent[a]).len <= Block(sent[b]).len
              \/ (Block(sent[b]).len <= Block(sent[a]).len /\ ~ goes(b) /\ ~ (short(b) /\ open(b)))}}

(* The grains with the fewest copies left. *)
Grains(h) ==
  LET all == UNION {{<<<<i, g[1]>>, g[2]>> : g \in Block(h[i]).o} : i \in Suit}
  IN  {g[1] : g \in {a \in all : \A b \in all : a[2] <= b[2]}}

Pick(sent, h, p, isf) ==
  LET of(all, few, gr) ==
        IF all # {} THEN all
        ELSE IF isf > 0 /\ few # {} THEN few
        ELSE IF gr = {} THEN EasyOuts(h, h)
        ELSE IF isf > 0 THEN {t \in gr : Copies(h, t) <= 1}
                               \cup (IF \E t \in gr : Copies(h, t) > 1 THEN EasyOuts(h, h) ELSE {})
        ELSE gr
  IN  of(CheckAllJiao(h, p, isf), ShortSuit(sent, h, p), Grains(h))

Choose(sent, h, p, isf) ==
  IF HeldTiles(h) = {} THEN {Panic} ELSE {Code(t) : t \in Pick(sent, h, p, isf)}

Outs(h, p, isf, no30) ==
  LET first == IF ~ Empty(h, p.inv) THEN Code(First(h, p.inv)) ELSE None
      go(s) == IF s.out # None THEN {s}
               ELSE {[s EXCEPT !.out = k] : k \in Choose(h, s.now, s.p, isf)}
  IN  go(IF no30 THEN SelfSee(h, p, isf, first) ELSE [out |-> first, now |-> h, p |-> p])

(***************************************************************************)
(* SeeOuts: the best of the offered answers 3 (win), 2 and 1 (take the     *)
(* tile) that the hand allows, else 0.                                     *)
(***************************************************************************)
SeeOuts(t, keys, isf) ==
  LET more == IF 3 \in keys THEN Put(now, t, 1) ELSE now
      f    == checkFull(more, Player, FALSE)
      none == Put(more, t, -Copies(more, t))
  IN  IF 3 \in keys /\ (f = 0 \/ f >= isf) THEN [out |-> 3, now |-> more]
      ELSE IF 2 \in keys THEN [out |-> 2, now |-> more]
      ELSE IF 1 \notin keys THEN [out |-> 0, now |-> more]
      ELSE IF Copies(more, t) < 2 \/ CheckJiao(more, Player, isf) = {} THEN [out |-> 1, now |-> more]
      ELSE IF CheckAllJiao(none, Player, isf) # {} THEN [out |-> 1, now |-> none]
      ELSE [out |-> 0, now |-> none]

-----------------------------------------------------------------------------
(* After function 2, which was sent the hand. *)
Init ==
  /\ hand \in Deals(HandSize - 1, Kind)
  /\ melds = [t \in Kind |-> 0]
  /\ lack \in {GetDiscard(hand, SortNewBlock(hand, o)) : o \in Orders}
  /\ inv = lack
  /\ now = hand
  /\ down = NoTiles
  /\ gone = {}
  /\ heard = Unseen
  /\ ans = [fn |-> 2, sent |-> hand, keys |-> {}, out |-> inv]
  /\ phase \in {"draw", "table"}

Left(h, t) == 4 - Copies(h, t) - melds[t]
CanKong(h) == {t \in Kind : Copies(h, t) = 4 \/ (Copies(h, t) = 1 /\ melds[t] = 3)}

(* The client does what the answer says; the game is over after a win, and *)
(* when it cannot do that.                                                 *)
Obey(h, out) ==
  \/ /\ out \in {Code(t) : t \in HeldTiles(h)}
     /\ hand' = Put(h, TileOf(out), -1)
     /\ phase' = "table"
     /\ gone' = {}
     /\ UNCHANGED melds
  \/ /\ out = Kong
     /\ \E t \in CanKong(h) : /\ hand' = Put(h, t, -Copies(h, t))
                             /\ melds' = [melds EXCEPT ![t] = 4]
                             /\ gone' = {t}
     /\ phase' = "draw"
  \/ /\ out \notin {Code(t) : t \in HeldTiles(h)}
     /\ out = Kong => CanKong(h) = {}
     /\ hand' = h
     /\ phase' = "over"
     /\ gone' = {}
     /\ UNCHANGED melds

(* Public[3].Inv after InitNow. *)
InitNow(h) ==
  IF inv # None THEN inv ELSE GetDiscard(h, SortNewBlock(h, <<0, 1, 2>>))

(* ScmjFuncLib[3], [4] and [6]: SetPublicDown, InitNow(h), Outs. *)
Ask(fn, h, isf) ==
  LET d == IF fn # 3 THEN down
           ELSE [i \in Suit |-> [r \in Rank |-> IF <<i, r>> \in gone THEN 1 ELSE down[i][r]]]
  IN  \E s \in Outs(h, [inv |-> InitNow(h), down |-> d], isf, fn # 6) :
        /\ now' = s.now
        /\ inv' = s.p.inv
        /\ down' = s.p.down
        /\ ans' = [fn |-> fn, sent |-> h, keys |-> {}, out |-> s.out]
        /\ Obey(h, s.out)

(* Send_3 after a button, if the screen shows the next tile in time, else  *)
(* Send_4_1.  Function 3 with no tile gone is function 4.                  *)
Turns == IF gone = {} THEN {4, 6} ELSE {3, 6}

(* Own turn: a tile is drawn. *)
Draw ==
  /\ phase = "draw"
  /\ \E t \in Kind, fn \in Turns, isf \in Isf :
       /\ Left(hand, t) > 0
       /\ Ask(fn, Put(hand, t, 1), isf)
  /\ UNCHANGED <<lack, heard>>

(* After a discard was taken, a tile has to go without one being drawn. *)
Claimed ==
  /\ phase = "claimed"
  /\ \E fn \in Turns, isf \in Isf : Ask(fn, hand, isf)
  /\ UNCHANGED <<lack, heard>>

(* Another player discards and the client reports it (ScmjFuncLib[10]).    *)
(* The copies in `now' were all held or offered since the last InitNow: a  *)
(* fifth one does not exist.                                               *)
See ==
  /\ phase = "table"
  /\ heard' \in {t \in Kind : Left(hand, t) > 0 /\ Copies(now, t) < 4}
  /\ phase' = "offered"
  /\ ans' = Nil
  /\ UNCHANGED <<hand, melds, lack, inv, now, down, gone>>

(* The client is not asked, or its turn has come. *)
Pass ==
  /\ phase = "offered"
  /\ phase' \in {"table", "draw"}
  /\ heard' = Unseen
  /\ UNCHANGED <<hand, melds, lack, inv, now, down, gone, ans>>

(* What the game lets the client do with a discard. *)
FullHand(h) ==
  /\ Empty(h, lack)
  /\ \/ \E i \in Suit : Shape(h[i]).complete /\ \A k \in Suit \ {i} : Shape(h[k]).melds
     \/ Sums(h).len = 2 * Pairs /\ \A t \in HeldTiles(h) : Copies(h, t) \in {2, 4}
Keys(t) ==
  {k \in 1 .. 3 : \/ k = 1 /\ Copies(hand, t) >= 2
                  \/ k = 2 /\ Copies(hand, t) = 3
                  \/ k = 3 /\ FullHand(Put(hand, t, 1))}

(* ScmjFuncLib[5].  Without LastSee the answer is 0, which is Pass. *)
Offer ==
  /\ phase = "offered" /\ heard # Unseen
  /\ Keys(heard) # {}
  /\ inv = None => 3 \notin Keys(heard)
  /\ \E isf \in Isf :
       LET s == SeeOuts(heard, Keys(heard), isf)
       IN  /\ now' = s.now
           /\ ans' = [fn |-> 5, sent |-> now, keys |-> Keys(heard), out |-> s.out]
           /\ hand' = IF s.out \in {1, 2} THEN Put(hand, heard, -1 - s.out) ELSE hand
           /\ melds' = IF s.out \in {1, 2} THEN [melds EXCEPT ![heard] = 2 + s.out] ELSE melds
           /\ gone' = {t \in HeldTiles(hand) : Copies(hand', t) = 0}
           /\ \/ s.out = 0 /\ phase' \in {"table", "draw"}
              \/ s.out = 1 /\ phase' = "claimed"
              \/ s.out = 2 /\ phase' = "draw"
              \/ s.out = 3 /\ phase' = "over"
  /\ heard' = Unseen
  /\ UNCHANGED <<lack, inv, down>>

(* The same in a session that was not sent a hand yet: SeeOuts tries the   *)
(* win with blocks that are nil, and the server ends.                      *)
OfferPanics ==
  /\ phase = "offered" /\ heard # Unseen
  /\ inv = None /\ 3 \in Keys(heard)
  /\ phase' = "over"
  /\ ans' = Nil
  /\ UNCHANGED <<hand, melds, lack, inv, now, down, gone, heard>>

(* GetHost finds no session under the client's key and makes a new one. *)
Replaced ==
  /\ phase # "over" /\ inv # None
  /\ inv' = None
  /\ now' = NoTiles
  /\ down' = NoTiles
  /\ heard' = Unseen
  /\ ans' = Nil
  /\ UNCHANGED <<hand, melds, lack, gone, phase>>

Next == Draw \/ Claimed \/ See \/ Pass \/ Offer \/ OfferPanics \/ Replaced

Spec == Init /\ [][Next]_vars

-----------------------------------------------------------------------------
(* The counts of a tile stay between none and four, the hand keeps its     *)
(* size with the tiles it has put down.                                    *)
TypeOK ==
  /\ hand \in Hand
  /\ melds \in [Kind -> {0, 3, 4}]
  /\ lack \in Suit
  /\ inv \in Suit \cup {None}
  /\ now \in Hand
  /\ down \in [Suit -> [Rank -> 0 .. 1]]
  /\ gone \subseteq Kind
  /\ heard \in Kind \cup {Unseen}
  /\ phase \in {"draw", "table", "offered", "claimed", "over"}

Asked == ans.fn \in {3, 4, 6}

(* A tile that is answered is held, and as long as the hand has tiles of   *)
(* the suit to lose it is one of those.                                    *)
DiscardHeld ==
  Asked /\ ans.out \notin {Kong, Full} =>
    \E t \in HeldTiles(ans.sent) :
      /\ ans.out = Code(t)
      /\ ~ Empty(ans.sent, inv) => t[1] = inv

NoFours(h) == \A i \in Suit : NoFour(h[i])

(* A win is called for full hands only, as long as no tile is held four    *)
(* times and the session was not replaced by one that took another suit.   *)
WinReal ==
  Asked /\ ans.out = Full /\ NoFours(ans.sent) /\ inv = lack => FullHand(ans.sent)

(* A full hand is not broken up: on its own turn the player calls the win  *)
(* whatever it is worth, but for the one shape of a suit it misses.        *)
WinTaken ==
  /\ ans.fn \in {3, 4} /\ NoFours(ans.sent) /\ FullHand(ans.sent) /\ inv = lack
  /\ \A i \in Suit : ~ PairInTheMiddle(ans.sent[i])
  => ans.out = Full

(* A fourth tile is only laid down when the hand has four of a kind, or    *)
(* the fourth of a triplet on the table: what SelfSee knows of the table   *)
(* are the marks that earlier calls of function 3 left.  (The client gives *)
(* up when it cannot do what the answer says.)                             *)
KongReal == Asked /\ ans.out = Kong => phase # "over"

(* What the player answers on its own turn can be done. *)
AnswerDoable == DiscardHeld /\ KongReal

(* A discard that completes the hand is taken, once the player has had its *)
(* turn, and what a win has to be worth (isf) does not matter: the tile    *)
(* that was discarded is still in `now', or the trial of an earlier offer, *)
(* the tiles do not add up to a full hand, and SeeOuts lets a win pass     *)
(* only when it can value it.                                              *)
OfferedWinTaken ==
  /\ ans.fn = 5 /\ 3 \in ans.keys
  /\ Sums(ans.sent).len % 3 # 1
  /\ \A t \in Tile : Copies(ans.sent, t) < 3
  /\ Cardinality({t \in Tile : Copies(ans.sent, t) = 2}) < Pairs - 1
  => ans.out = 3

(* Wins are called when there are some and only then, of hands without     *)
(* four equal tiles.                                                       *)
WinRight == WinReal /\ WinTaken /\ OfferedWinTaken
=============================================================================
