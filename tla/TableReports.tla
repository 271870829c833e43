---------------------------- MODULE TableReports ----------------------------
(***************************************************************************)
(* How the mahjong player learns what the others do.  The client looks at  *)
(* the screen from time to time (Scmj::game): whose turn the marker shows, *)
(* the tile that player has discarded, how many tiles the wall has left.   *)
(* ScreenOther decides by what it saw last whether to report that          *)
(* (function 10), the server drops a request that equals the last one      *)
(* (GetRecvData), and SetSeeList counts the discards and concludes from    *)
(* two reports with the same wall that the discard in between was taken.   *)
(*                                                                         *)
(* The game itself is external; the client reads the screen without error  *)
(* and may look at any time, or too late.  A report with no tile says -1,  *)
(* as does the code (255 as a byte).  The fourth field of a report, the    *)
(* money, does not change while a tile lies there and is left out.         *)
(***************************************************************************)
EXTENDS Integers, Sequences, FiniteSets, SequencesExt

CONSTANTS
  Tile,        \* the tiles of the game, as codes below 27
  MaxWall,     \* tiles of the wall when the game begins (55 in the code)
  MaxDiscards  \* bound on the discards of a behaviour

Other == 0 .. 2
Self == 3
None == -1
Own == <<>>    \* some request of an own turn

VARIABLES
  turn,     \* the player the marker shows
  shown,    \* the tile it has discarded, or None
  wall,
  discards, \* how many there were
  took,     \* who has taken which tile
  lastn,    \* ScreenOther: the player seen last, or n << 8 | tile
  last,     \* UserBase.LastForData[0]
  seeList,  \* Ai.SeeList, the reports with a tile (no search stops at another)
  see,      \* Public[n].See
  down,     \* Public[n].Down
  eyes,     \* history: the player of the last report, or Self
  looked,   \* history: this turn was looked at
  caught,   \* history: this discard was looked at
  caughts,  \* history: how many discards were looked at
  skipped,  \* history: two turns of a player and no report in between
  hidden,   \* history: a discard since the last one that was looked at
  claim     \* history: who discarded the tile taken for this turn, and the tile

game == <<turn, shown, wall, discards, took>>
server == <<last, seeList, see, down>>
vars == <<game, lastn, server, eyes, looked, caught, caughts, skipped, hidden, claim>>

NoClaim == <<>>
Zero == [n \in Other |-> [t \in Tile |-> 0]]

(* After the opening: ScreenSelf has set lastN and lastn. *)
Init ==
  /\ turn \in 0 .. 3
  /\ shown = None
  /\ wall = MaxWall
  /\ discards = 0
  /\ took = {}
  /\ lastn = Self
  /\ last = Own
  /\ seeList = <<>>
  /\ see = Zero
  /\ down = Zero
  /\ eyes = Self
  /\ looked = FALSE
  /\ caught = FALSE
  /\ caughts = Zero
  /\ skipped = FALSE
  /\ hidden = FALSE
  /\ claim = NoClaim

-----------------------------------------------------------------------------
(* The game. *)
(* What the client itself does, it does on the answer to a request. *)
Asks(p) ==
  IF p = Self THEN lastn' = Self /\ last' = Own /\ eyes' = Self
  ELSE UNCHANGED <<lastn, last, eyes>>

Discard(t) ==
  /\ shown = None
  /\ discards < MaxDiscards
  /\ Asks(turn)
  /\ shown' = t
  /\ discards' = discards + 1
  /\ caught' = FALSE
  /\ hidden' = (hidden \/ turn = Self)
  /\ claim' = NoClaim
  /\ UNCHANGED <<turn, wall, took, seeList, see, down, looked, caughts, skipped>>

(* A turn ends; its discard is no longer shown. *)
Pass(p) ==
  /\ shown # None
  /\ turn' = p
  /\ shown' = None
  /\ looked' = FALSE
  /\ caught' = FALSE
  /\ hidden' = (hidden \/ ~ caught)

(* The next player draws a tile. *)
Draw ==
  /\ wall > 0
  /\ Pass((turn + 1) % 4)
  /\ wall' = wall - 1
  /\ claim' = NoClaim
  /\ UNCHANGED <<discards, took, lastn, server, eyes, caughts, skipped>>

(* Another player takes the discard, the first of its kind that is taken:  *)
(* there are four.                                                         *)
Claim(p) ==
  /\ p # turn
  /\ \A q \in 0 .. 3 : <<q, shown>> \notin took
  /\ Pass(p)
  /\ Asks(p)
  /\ took' = took \cup {<<p, shown>>}
  /\ claim' = IF hidden' THEN NoClaim ELSE <<turn, shown>>
  /\ UNCHANGED <<wall, discards, seeList, see, down, caughts, skipped>>

(* Four of a kind: the player draws one more. *)
Kong ==
  /\ shown = None
  /\ wall > 0
  /\ wall' = wall - 1
  /\ claim' = NoClaim
  /\ UNCHANGED <<turn, shown, discards, took, lastn, server, eyes, looked, caught, caughts, skipped, hidden>>

-----------------------------------------------------------------------------
(* SetSeeList with a report <<n, wall, tile>>. *)
\* Mutant of SetSeeList: the wall is not compared.
SetSeeListWall(b) ==
  LET i == SelectLastInSeq(seeList, LAMBDA s : s[1] # b[1])
  IN  /\ see' = IF b[3] # None THEN [see EXCEPT ![b[1]][b[3]] = @ + 1] ELSE see
      /\ down' = IF b[3] = None /\ i > 0
                 THEN [down EXCEPT ![b[1]][seeList[i][3]] = 2] ELSE down
      /\ seeList' = IF b[3] # None THEN Append(seeList, b) ELSE seeList

SetSeeList(b) ==
  LET i == SelectLastInSeq(seeList, LAMBDA s : s[1] # b[1])
  IN  /\ see' = IF b[3] # None THEN [see EXCEPT ![b[1]][b[3]] = @ + 1] ELSE see
      /\ down' = IF b[3] = None /\ i > 0 /\ seeList[i][2] = b[2]
                 THEN [down EXCEPT ![b[1]][seeList[i][3]] = 2] ELSE down
      /\ seeList' = IF b[3] # None THEN Append(seeList, b) ELSE seeList

\* Mutant of GetRecvData: a request is run whatever the last one was.
GetRecvDataAll(b) ==
  /\ last' = b
  /\ SetSeeList(b)

(* A request that equals the last one is not run again. *)
GetRecvData(b) ==
  /\ last' = b
  /\ IF b = last THEN UNCHANGED <<seeList, see, down>> ELSE SetSeeList(b)

(* Another player's turn is looked at: a player that was not seen last, or *)
(* its discard, is reported.                                               *)
ScreenOther ==
  \/ /\ lastn < 4 \/ lastn \div 256 # turn
     /\ shown # None \/ lastn # turn
     /\ lastn' = IF shown # None THEN 256 * turn + shown ELSE turn
     /\ GetRecvData(<<turn, wall, shown>>)
  \/ /\ IF lastn < 4 THEN shown = None /\ lastn = turn ELSE lastn \div 256 = turn
     /\ UNCHANGED <<lastn, server>>

(* An own turn is looked at; that leads to a request or to none. *)
ScreenSelf ==
  /\ lastn' = Self
  /\ last' \in {last, Own}
  /\ UNCHANGED <<seeList, see, down>>

(* One round of the loop in Scmj::game. *)
Look ==
  /\ IF turn = Self THEN ScreenSelf ELSE ScreenOther
  /\ eyes' = IF turn = Self \/ last' # last THEN turn ELSE eyes
  /\ looked' = TRUE
  /\ caught' = (shown # None)
  /\ caughts' = IF turn # Self /\ shown # None /\ ~ caught
                THEN [caughts EXCEPT ![turn][shown] = @ + 1] ELSE caughts
  /\ skipped' = (skipped \/ (~ looked /\ eyes = turn /\ turn # Self))
  /\ hidden' = (hidden /\ (turn = Self \/ shown = None))
  /\ UNCHANGED <<game, claim>>

Next ==
  \/ \E t \in Tile : Discard(t)
  \/ Draw
  \/ \E p \in 0 .. 3 : Claim(p)
  \/ Kong
  \/ Look

Spec == Init /\ [][Next]_vars

-----------------------------------------------------------------------------
(* The wall, the screen and what the server has made of them. *)
TypeOK ==
  /\ turn \in 0 .. 3
  /\ shown \in Tile \cup {None}
  /\ wall \in 0 .. MaxWall
  /\ lastn \in 0 .. 3 \cup {256 * n + t : n \in Other, t \in Tile}
  /\ last = Own \/ last \in Other \X (0 .. MaxWall) \X (Tile \cup {None})
  /\ seeList \in Seq(Other \X (0 .. MaxWall) \X Tile)
  /\ down \in [Other -> [Tile -> {0, 2}]]

(* Every discard is counted once, however often the client looks while it  *)
(* lies there.  (What player 0 discards is kept as 0 << 8 | tile, which    *)
(* for the tiles 0 to 3 looks like a player, so that ScreenOther reports   *)
(* it at every look: it takes GetRecvData to drop the repeats.)  None that *)
(* was looked at is left out, unless it takes two turns of a player for    *)
(* one, having reported nobody else in between.                            *)
CountedOnce ==
  \A n \in Other, t \in Tile :
    /\ see[n][t] <= caughts[n][t]
    /\ ~ skipped => see[n][t] = caughts[n][t]

(* A player is taken to have laid down a tile only if it has taken it, or  *)
(* there was a discard the server did not hear of: one the client missed,  *)
(* or its own, which it does not report.                                   *)
MarkReal ==
  [][ \A n \in Other, t \in Tile :
        down'[n][t] # down[n][t] => <<n, t>> \in took \/ hidden \/ skipped ]_vars

(* When a player takes a discard that was reported, and the client looks   *)
(* before the wall gets shorter, the tile is marked: except when player 0  *)
(* discarded the tile whose code is the number of the player that took it. *)
ClaimMarked ==
  /\ looked /\ shown = None /\ turn # Self
  /\ claim # NoClaim /\ ~ skipped
  => claim = <<0, turn>> \/ down[turn][claim[2]] = 2

(* So the server knows a claim when there was one and it heard of the      *)
(* discard, and concludes one wrongly only around a discard it did not.    *)
ClaimsRight == MarkReal /\ []ClaimMarked
=============================================================================
