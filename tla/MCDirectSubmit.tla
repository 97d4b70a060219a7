--------------------------- MODULE MCDirectSubmit ---------------------------
(* Instances of DirectSubmit for TLC: an ordinary stretch of the day with  *)
(* orders refused or unanswered at two epochs; unanswered reads near the   *)
(* close and away from it, with a book lost or stale, for one order; and   *)
(* one thread whose book is lost between a first order and a second.       *)
EXTENDS DirectSubmit

CONSTANTS t1, t2

Ordinary(ts, e, f) ==
  [threads |-> ts, close |-> FALSE, silent |-> FALSE, epoch |-> e, signals |-> 1,
   faults |-> f, restarts |-> 0]
Troubled(ts, near, r) ==
  [threads |-> ts, close |-> near, silent |-> TRUE, epoch |-> 0, signals |-> 1,
   faults |-> 0, restarts |-> r]
Twice(run) == [run EXCEPT !.epoch = 1, !.signals = 2]

MCRegimes ==
  {Ordinary({t1}, 1, 1), Twice(Ordinary({t1}, 1, 1)), Ordinary(Sweeps, 1, 0),
   Ordinary(Sweeps, 0, 1), Troubled(Sweeps, TRUE, 0), Troubled(Sweeps, FALSE, 1),
   Twice(Troubled({t1}, TRUE, 1)), Twice(Troubled({t1}, FALSE, 2))}

=============================================================================
