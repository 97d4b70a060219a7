---------------------------- MODULE MCBarExports ----------------------------
(***************************************************************************)
(* Instances of BarExports for TLC: two sessions of two minutes.  A day is *)
(* complete after the first of them, so a reach of one lets a candle or a  *)
(* correction come after the day was exported.                             *)
(***************************************************************************)
EXTENDS BarExports

Regime(corrections, refreshes, faults, reach) ==
    [corrections |-> corrections, refreshes |-> refreshes,
     faults |-> faults, reach |-> reach]

\* A candle restated after its day and a worker that dies; a refresh of both
\* days around a late candle and a worker that dies; and a refresh of a day
\* that is restated under it.
MCRegimes == {Regime(1, 0, 1, 1), Regime(0, 1, 1, 1), Regime(1, 1, 0, 0)}
=============================================================================
