----------------------------- MODULE MCReshard -----------------------------
(***************************************************************************)
(* Two shards, an account in each, and a transaction in each direction.    *)
(***************************************************************************)
EXTENDS Reshard

CONSTANTS a, b, t1, t2

MCSender     == t1 :> a @@ t2 :> b
MCRecipient  == t1 :> b @@ t2 :> a
MCValue      == t1 :> 1 @@ t2 :> 2
MCAddr2Shard == a :> 0 @@ b :> 1

\* The first account goes to the other shard and comes back; in between the
\* second one moves too.
AwayAndBack == << a :> 1, a :> 0 @@ b :> 0 >>

\* The instance is one that theorem PaidInOrder of ReshardProofs is about.
ASSUME MoneyAssumption == EnoughMoney(2)

=============================================================================
