---------------------------- MODULE MCPartition ----------------------------
(***************************************************************************)
(* Three shards and four accounts with transactions between them.          *)
(***************************************************************************)
EXTENDS Partition, TLC

CONSTANTS a, b, c, d, fake, p, q

MCAddr2Shard == a :> 0 @@ b :> 1 @@ c :> 2 @@ d :> 0 @@ fake :> 1
MCPrefix == a :> p @@ b :> p @@ c :> q @@ d :> q @@ fake :> q

=============================================================================
