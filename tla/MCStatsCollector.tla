-------------------------- MODULE MCStatsCollector --------------------------
(***************************************************************************)
(* Traffic for TLC: a burst of one byte, and one of more packets than two. *)
(***************************************************************************)
EXTENDS StatsCollector

Small == {[packets |-> 1, bytes |-> 1], [packets |-> 3, bytes |-> 2]}
=============================================================================
