---------------------------- MODULE MCEpochSync ----------------------------
(***************************************************************************)
(* Two shards and a small number of nodes in each.                         *)
(***************************************************************************)
EXTENDS EpochSync, TLC

CONSTANTS s0, s1, n0, n1

-----------------------------------------------------------------------------
(***************************************************************************)
(* The schedule that keeps the run epochs small.                           *)
(***************************************************************************)

\* What node n of shard s has done so far.
Of(s, n) == <<ModifiedMap[s][n], receiving[s][n], PartitionOn[s][n],
              committed[s][n], vote[s][n]>>

\* One shard has a backup that lags behind as far as it likes, the other a
\* backup that never acts (the quorum of two nodes is one).
OneActiveBackup == UNCHANGED Of(s1, n1)

=============================================================================
