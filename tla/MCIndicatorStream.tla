------------------------- MODULE MCIndicatorStream -------------------------
(***************************************************************************)
(* Values for TLC: bars that rise, fall, engulf the bar before them, gap   *)
(* and stand still, with and without volume.                               *)
(***************************************************************************)
EXTENDS IndicatorStream

Bar(o, h, l, c, v) ==
  [o |-> Int2Q(o), h |-> Int2Q(h), l |-> Int2Q(l), c |-> Int2Q(c), v |-> Int2Q(v),
   day |-> 0, from |-> 0, to |-> 0]

Rise == Bar(2, 3, 2, 3, 1)
Fall == Bar(3, 3, 1, 1, 2)
Engulf == Bar(2, 5, 1, 4, 1)
Flat == Bar(4, 4, 4, 4, 0)

MCMinutes == {3, 4, 5}
MCBars == [m \in MCMinutes |-> CASE m = 3 -> {Rise, Fall}
                               [] m = 4 -> {Rise, Flat}
                               [] m = 5 -> {Fall, Engulf}]
MCOtherCloses == [m \in MCMinutes |-> IF m = 4 THEN {Zero, Int2Q(5)} ELSE IF m = 5 THEN {Int2Q(5)} ELSE {Zero}]
=============================================================================
