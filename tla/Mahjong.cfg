\* Play: hands of eight tiles, two triplets or sequences and a pair or four
\* pairs, of five kinds: a sequence of one suit, one tile each of the others.  A
\* win has to be worth nothing, or more than a plain one is.  A game is followed
\* until the second meld (FewMelds).
\* Opening: seven tiles of three ranks; like thirteen or fourteen, seven is not a
\* multiple of three, and the shortest suit may have none, one or two tiles.
SPECIFICATION MCSpec
CONSTANTS
  Ranks = 3
  HandSize = 8
  Pairs = 4
  Kinds = {0, 1, 2, 3, 6}
  Isf = {0, 5}
  OpeningSize = 7
  Give = 3
INVARIANTS
    AnswerDoable  InvIsBest OfferSound
CHECK_DEADLOCK FALSE
