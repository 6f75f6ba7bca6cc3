------------------------------- MODULE MCPbft -------------------------------
(***************************************************************************)
(* A shard of the four nodes of the default configuration (f = 1).         *)
(***************************************************************************)
EXTENDS Pbft, TLC

CONSTANTS n0, n1, n2, n3

MCSucc == n0 :> n1 @@ n1 :> n2 @@ n2 :> n3 @@ n3 :> n0

\* While no view changes, the nodes that do not lead are interchangeable.
Backups == Permutations({n1, n2, n3})

-----------------------------------------------------------------------------
(***************************************************************************)
(* The schedule of the run about view changes.  The nodes n1, n2 and n3    *)
(* time out, and change the view without n0.                               *)
(***************************************************************************)
Others == {n1, n2, n3}

\* One step of the view change after the other.
WithoutN0 ==
  /\ viewChangeMap' # viewChangeMap => \A n \in Others : timeouts[n] = 1
  /\ newViewMap' # newViewMap => \A n \in Others : viewChangeNet[n] = {}
  /\ viewChangeMap'[n0] = {} /\ newViewMap'[n0] = {}

\* The first request is committed by the leader n0 only, the Commit messages
\* to the others are slow.
SlowCommits ==
  /\ WithoutN0
  /\ \A n \in Others : cntCommitConfirm'[n][1] = 0
  /\ timeouts' # timeouts =>
       chain[n0] # <<>> /\ \A n \in Others : 1 \in isCommitBordcast[n]
  /\ queued'[n1] > 0 => \A n \in Others : view[n] = n1
  /\ 2 \notin requestPool'[n0]
  /\ queued'[n0] > 0 => request' = <<>>

=============================================================================
