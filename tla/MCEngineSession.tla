---------------------------- MODULE MCEngineSession ----------------------------
(* Instances of EngineSession for TLC. *)
EXTENDS EngineSession, TLC

CONSTANTS worker, poll
CallerSymmetry == Permutations(Callers)
=============================================================================
