------------------------------ MODULE MCBroker ------------------------------
(***************************************************************************)
(* Two shards and a broker that lives in the first one; the file has two   *)
(* transactions across the shards, one of the broker itself and one inside *)
(* a shard, and the configuration asks for all of them or for one more.    *)
(***************************************************************************)
EXTENDS Broker

CONSTANTS a, b, c, k, t1, t2, t3, t4

MCRows == <<t1, t2, t3, t4>>
MCSender == t1 :> a @@ t2 :> b @@ t3 :> k @@ t4 :> c
MCRecipient == t1 :> b @@ t2 :> a @@ t3 :> b @@ t4 :> a
MCAddr2Shard == a :> 0 @@ b :> 1 @@ c :> 0 @@ k :> 0
MCBrokers == <<k>>

=============================================================================
