--------------------------- MODULE MCFeedSession ---------------------------
(* Instances of FeedSession for TLC. *)
EXTENDS FeedSession

CONSTANTS spy, qqq

\* One feed grows to carry the second symbol, the other drops it.
MCStarts == {<<"alpaca", {spy}>>, <<"schwab", {spy, qqq}>>}
=============================================================================
