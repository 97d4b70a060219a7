---------------------------- MODULE MCOrderJournal --------------------------
(* Instances of OrderJournal for TLC. *)
EXTENDS OrderJournal, TLC

CONSTANTS b1, b2, s1, p1, p2

MCSide == [i \in Intents |-> IF i = s1 THEN "sell" ELSE "buy"]
MCQtyOne == [i \in Intents |-> 1]
MCQtyTwo == [i \in Intents |-> IF i = b1 THEN 2 ELSE 1]
MCQtyRest == [i \in Intents |-> IF i = s1 THEN 2 ELSE 1]
PassSymmetry == Permutations(Passes)
=============================================================================
