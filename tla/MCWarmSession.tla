---------------------------- MODULE MCWarmSession ----------------------------
(* Instances of WarmSession for TLC. *)
EXTENDS WarmSession

CONSTANTS a, b

\* b trades from the first bar on, a from the second.
MCPrints == [s \in Syms |-> IF s = b THEN Ends ELSE Ends \ {1}]
MCPrintsAll == [s \in Syms |-> Ends]
=============================================================================
