------------------------------ MODULE FillRules ------------------------------
(***************************************************************************)
(* The fill-price rules of dqengine/runtime/core/fills.py: pure functions  *)
(* of a bar and an order's levels, shared by every engine.  A price is a   *)
(* positive integer; None is the "no fill" (and "no level") of the code.   *)
(* Every breach is strict: a bar that only touches a level fills nothing.  *)
(***************************************************************************)
EXTENDS Integers

None == 0

Prices == Nat \ {0}

\* A bar: its extremes enclose its open and its close.
Bars == [o : Prices, h : Prices, l : Prices, c : Prices]

WellFormed(b) == b.l <= b.o /\ b.l <= b.c /\ b.o <= b.h /\ b.c <= b.h

Lower(x, y)  == IF x < y THEN x ELSE y
Higher(x, y) == IF x > y THEN x ELSE y

\* limit_fill: a buy fills on a dip below its limit, a sell on a rise above,
\* at the limit or at a better open.
LimitFill(buy, b, limit) ==
  IF limit # None /\ (IF buy THEN b.l < limit ELSE b.h > limit)
  THEN IF buy THEN Lower(b.o, limit) ELSE Higher(b.o, limit)
  ELSE None

\* stop_fill: the mirror; a gap through the stop fills at the worse open.
StopFill(buy, b, stop) ==
  IF stop # None /\ (IF buy THEN b.h > stop ELSE b.l < stop)
  THEN IF buy THEN Higher(b.o, stop) ELSE Lower(b.o, stop)
  ELSE None

\* stop_triggered: the trigger of a stop-limit, from the adverse side.
StopTriggered(buy, b, stop) ==
  stop # None /\ (IF buy THEN b.h > stop ELSE b.l < stop)

\* touch_triggered: the trigger of a limit-if-touched, from the other side.
TouchTriggered(buy, b, trigger) ==
  trigger # None /\ (IF buy THEN b.l < trigger ELSE b.h > trigger)

\* The ratchet of a trailing stop with an absolute trail (check_resting):
\* anchored on the first bar, then moved in the protecting direction only.
Ratchet(buy, b, stop, trail) ==
  LET level == IF buy THEN b.l + trail ELSE b.h - trail
  IN  IF stop = None THEN level
      ELSE IF buy THEN Lower(stop, level) ELSE Higher(stop, level)
=============================================================================
