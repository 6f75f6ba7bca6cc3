---------------------------- MODULE ShardLedger ----------------------------
(***************************************************************************)
(* What a shard promises: one log of blocks, and every node of the shard   *)
(* has a prefix of it.  An entry is added to the log only on top of what   *)
(* at least one node has applied completely, so the log is at most one     *)
(* entry longer than the longest prefix; a node applies the next entry of  *)
(* the log, never another one.                                             *)
(***************************************************************************)
EXTENDS Naturals, Sequences

CONSTANTS Nodes, Blocks

VARIABLES
  log,     \* the blocks ever proposed, in their order
  ledger   \* ledger[n]: the blocks node n has added to its chain

vars == <<log, ledger>>

Init ==
  /\ log = <<>>
  /\ ledger = [n \in Nodes |-> <<>>]

\* A block is proposed on top of the chain of a node that has all others.
Extend ==
  /\ \E n \in Nodes : ledger[n] = log
  /\ \E b \in Blocks : log' = Append(log, b)
  /\ UNCHANGED ledger

\* Node n adds the next block of the log to its chain.
Apply(n) ==
  /\ Len(ledger[n]) < Len(log)
  /\ ledger' = [ledger EXCEPT ![n] = Append(@, log[Len(@) + 1])]
  /\ UNCHANGED log

Next == Extend \/ \E n \in Nodes : Apply(n)

Spec == Init /\ [][Next]_vars

=============================================================================
