----------------------------- MODULE EpochSync -----------------------------
(***************************************************************************)
(* The epochs of the resharding protocol: the committee of the supervisor  *)
(* (supervisor/committee/committee_clpa.go) sends the partition map of the *)
(* next epoch to every node of every shard and waits until all shards have *)
(* reported a block of that epoch; a shard agrees on a partition request   *)
(* (pbftInside_moduleCLPA.go, accountTransfer_module.go) and goes over to  *)
(* the epoch.                                                              *)
(*                                                                         *)
(* The consensus of a shard is the one of module Pbft with its first       *)
(* leader and with its messages handled in their order: the leader         *)
(* proposes one request at a time, a node prepares the request after those *)
(* it has committed, or refuses it, and commits it once a quorum has       *)
(* prepared it.  A node that refuses a request does not prepare it later,  *)
(* and so commits neither this request nor a later one.  The partition map *)
(* of epoch e is the number e; the accounts and transactions that move     *)
(* with it are not part of this module, nor is the PartitionReady exchange *)
(* before the proposal, which delays the leader and decides nothing.       *)
(***************************************************************************)
EXTENDS Naturals, Sequences, FiniteSets

CONSTANTS
  Shards,       \* the shards; with one only, no map is ever sent
  Nodes,        \* the nodes of every shard
  Leader,       \* the node that leads every shard
  Quorum,       \* 2f+1
  MaxEpochs,    \* the epochs after which MsgSendingControl returns
  MaxBlocks     \* bound on the blocks of a shard between two partitions

ASSUME EpochAssumption ==
  /\ IsFiniteSet(Shards) /\ Cardinality(Shards) > 1
  /\ IsFiniteSet(Nodes) /\ Leader \in Nodes
  /\ Quorum \in Nat /\ MaxEpochs \in Nat /\ MaxBlocks \in Nat

Epochs == 1 .. MaxEpochs

VARIABLES
  clpaCnt, waiting,      \* MsgSendingControl: the last epoch sent; its wait loop
  curEpoch,
  epochShardAcks,        \* by epoch, {} where the map has no entry
  ModifiedMap,           \* the maps a node received, in the order it did
  receiving,             \* handlePartitionMsg: before PartitionOn = true
  PartitionOn, AccountTransferRound,
  request,               \* the requests proposed in a shard
  committed,             \* how many of them a node has committed
  vote,                  \* what a node made of the next request
  partitionNet,          \* CPartitionMsg on the way to a node
  blockInfoNet           \* CBlockInfo on the way to the supervisor

supervisorVars == <<clpaCnt, waiting, curEpoch, epochShardAcks>>
nodeVars == <<ModifiedMap, receiving, PartitionOn, AccountTransferRound>>
pbftVars == <<request, committed, vote>>
netVars  == <<partitionNet, blockInfoNet>>
vars == <<supervisorVars, nodeVars, pbftVars, netVars>>

-----------------------------------------------------------------------------
(***************************************************************************)
(* The committee.                                                          *)
(***************************************************************************)

\* Mutant of clpaMapSend: one epoch more.
clpaMapSendOneMore ==
  /\ ~waiting
  /\ clpaCnt <= MaxEpochs
  /\ clpaCnt' = clpaCnt + 1
  /\ waiting' = TRUE
  /\ partitionNet' = [s \in Shards |-> [n \in Nodes |->
                        partitionNet[s][n] \cup {clpaCnt + 1}]]
  /\ UNCHANGED <<curEpoch, epochShardAcks, nodeVars, pbftVars, blockInfoNet>>

\* MsgSendingControl, once clpaFreq has passed: clpaMapSend to every node.
clpaMapSend ==
  /\ ~waiting
  /\ clpaCnt < MaxEpochs
  /\ clpaCnt' = clpaCnt + 1
  /\ waiting' = TRUE
  /\ partitionNet' = [s \in Shards |-> [n \in Nodes |->
                        partitionNet[s][n] \cup {clpaCnt + 1}]]
  /\ UNCHANGED <<curEpoch, epochShardAcks, nodeVars, pbftVars, blockInfoNet>>

\* Mutant of nextEpochBegins: it does not wait for the epoch it has sent.
nextEpochUnconfirmed ==
  /\ waiting
  /\ waiting' = FALSE
  /\ UNCHANGED <<clpaCnt, curEpoch, epochShardAcks, nodeVars, pbftVars, netVars>>

\* Its loop ends when the epoch it has sent is confirmed.
nextEpochBegins ==
  /\ waiting
  /\ curEpoch >= clpaCnt
  /\ waiting' = FALSE
  /\ UNCHANGED <<clpaCnt, curEpoch, epochShardAcks, nodeVars, pbftVars, netVars>>

\* The loop of recordEpochAck: the last epoch of an unbroken run of epochs
\* after stable that all shards have acknowledged.
advance(acks, stable) ==
  CHOOSE e \in stable .. MaxEpochs :
    /\ \A k \in stable + 1 .. e : acks[k] = Shards
    /\ e < MaxEpochs => acks[e + 1] # Shards

\* Mutant of recordEpochAck: any shard's message moves the epoch on, as the
\* compare-and-swap of committee_clpa_broker.go does.
recordFirstAck(s, epoch) ==
  /\ curEpoch' = IF epoch = curEpoch + 1 THEN epoch ELSE curEpoch
  /\ UNCHANGED epochShardAcks

\* Mutant of recordEpochAck: the next epoch counts as an old one.
recordLaterAck(s, epoch) ==
  IF epoch <= curEpoch + 1
  THEN UNCHANGED <<curEpoch, epochShardAcks>>
  ELSE /\ epochShardAcks' = [epochShardAcks EXCEPT ![epoch] = @ \cup {s}]
       /\ UNCHANGED curEpoch

\* recordEpochAck: the acknowledgement is noted unless it is old, and the
\* epochs that are complete are passed in their order and forgotten.
recordEpochAck(s, epoch) ==
  IF epoch <= curEpoch
  THEN UNCHANGED <<curEpoch, epochShardAcks>>
  ELSE LET acks == [epochShardAcks EXCEPT ![epoch] = @ \cup {s}]
           next == advance(acks, curEpoch)
       IN /\ curEpoch' = next
          /\ epochShardAcks' =
               [e \in Epochs |-> IF e \in curEpoch + 1 .. next THEN {} ELSE acks[e]]

\* HandleBlockInfo of a BlockInfoMsg.
HandleBlockInfo(b) ==
  /\ b \in blockInfoNet
  /\ blockInfoNet' = blockInfoNet \ {b}
  /\ recordEpochAck(b.shard, b.epoch)
  /\ UNCHANGED <<clpaCnt, waiting, nodeVars, pbftVars, partitionNet>>

-----------------------------------------------------------------------------
(***************************************************************************)
(* A node of a shard.                                                      *)
(***************************************************************************)

\* handlePartitionMsg, in a goroutine of its own: the map is appended, ...
handlePartitionMsg(s, n, e) ==
  /\ e \in partitionNet[s][n]
  /\ partitionNet' = [partitionNet EXCEPT ![s][n] = @ \ {e}]
  /\ ModifiedMap' = [ModifiedMap EXCEPT ![s][n] = Append(@, e)]
  /\ receiving' = [receiving EXCEPT ![s][n] = @ + 1]
  /\ UNCHANGED <<supervisorVars, PartitionOn, AccountTransferRound, pbftVars,
                 blockInfoNet>>

\* ... and then PartitionOn is set, with no lock held.
setPartitionOn(s, n) ==
  /\ receiving[s][n] > 0
  /\ receiving' = [receiving EXCEPT ![s][n] = @ - 1]
  /\ PartitionOn' = [PartitionOn EXCEPT ![s][n] = TRUE]
  /\ UNCHANGED <<supervisorVars, ModifiedMap, AccountTransferRound, pbftVars,
                 netVars>>

\* The blocks of a shard since its last partition.
blocksOfEpoch(s) ==
  {k \in 1 .. Len(request[s]) :
     \A j \in k .. Len(request[s]) : request[s][j].kind = "block"}

\* The leader has sequenceLock: its last request is committed.
leaderFree(s) ==
  /\ committed[s][Leader] = Len(request[s])
  /\ PartitionOn[s][Leader] \/ Cardinality(blocksOfEpoch(s)) < MaxBlocks

\* Mutant of newRequest: the number of the round, not of the maps.
requestOfRound(s) ==
  IF PartitionOn[s][Leader]
  THEN [kind |-> "partition",
        map  |-> ModifiedMap[s][Leader][1],
        atid |-> Len(ModifiedMap[s][Leader])]
  ELSE [kind |-> "block", map |-> 0, atid |-> 0]

\* What HandleinPropose makes: while a partition is on, proposePartition with
\* the map of the round, and a block otherwise.
newRequest(s) ==
  IF PartitionOn[s][Leader]
  THEN [kind |-> "partition",
        map  |-> ModifiedMap[s][Leader][AccountTransferRound[s][Leader] + 1],
        atid |-> Len(ModifiedMap[s][Leader])]
  ELSE [kind |-> "block", map |-> 0, atid |-> 0]

HandleinPropose(s) ==
  /\ leaderFree(s)
  /\ request' = [request EXCEPT ![s] = Append(@, newRequest(s))]
  /\ UNCHANGED <<supervisorVars, nodeVars, committed, vote, netVars>>

\* The request a node works on, the one after those it has committed.
current(s, n) == request[s][committed[s][n] + 1]

\* HandleinPrePrepare: a partition request is refused by a node that has not
\* got the map yet.
HandleinPrePrepare(s, n) == current(s, n).kind = "partition" => PartitionOn[s][n]

\* handlePrePrepare, once per node and request.
handlePrePrepare(s, n) ==
  /\ committed[s][n] < Len(request[s])
  /\ vote[s][n] = "none"
  /\ vote' = [vote EXCEPT ![s][n] =
                IF HandleinPrePrepare(s, n) THEN "prepare" ELSE "refuse"]
  /\ UNCHANGED <<supervisorVars, nodeVars, request, committed, netVars>>

\* The nodes that prepared, and so confirm, request k of the shard.
prepared(s, k) ==
  {n \in Nodes : \/ committed[s][n] >= k
                 \/ committed[s][n] + 1 = k /\ vote[s][n] \in {"prepare", "transfer"}}

\* handleCommit has a quorum of confirmations for the next request.
canCommit(s, n) ==
  /\ committed[s][n] < Len(request[s])
  /\ vote[s][n] = "prepare"
  /\ Cardinality(prepared(s, committed[s][n] + 1)) >= Quorum

\* The end of handleCommit.
commitNext(s, n) ==
  /\ committed' = [committed EXCEPT ![s][n] = @ + 1]
  /\ vote' = [vote EXCEPT ![s][n] = "none"]
  /\ UNCHANGED <<supervisorVars, request, partitionNet>>

\* HandleinCommit of a block: the leader reports it with its epoch.
commitBlock(s, n) ==
  /\ canCommit(s, n)
  /\ current(s, n).kind = "block"
  /\ commitNext(s, n)
  /\ blockInfoNet' = IF n = Leader
                     THEN blockInfoNet \cup
                            {[shard |-> s, epoch |-> AccountTransferRound[s][n]]}
                     ELSE blockInfoNet
  /\ UNCHANGED nodeVars

\* HandleinCommit of a partition request, accountTransfer_do: a node that has
\* not got the number of maps the leader had appends the map of the request,
accountTransfer(s, n) ==
  LET r == current(s, n)
  IN /\ canCommit(s, n)
     /\ r.kind = "partition"
     /\ ModifiedMap' = IF Len(ModifiedMap[s][n]) # r.atid
                       THEN [ModifiedMap EXCEPT ![s][n] = Append(@, r.map)]
                       ELSE ModifiedMap
     /\ vote' = [vote EXCEPT ![s][n] = "transfer"]
     /\ UNCHANGED <<supervisorVars, receiving, PartitionOn,
                    AccountTransferRound, request, committed, netVars>>

\* Mutant of endTransfer: the epoch is the number of the node's own maps.
endTransferOwnMaps(s, n) ==
  /\ vote[s][n] = "transfer"
  /\ AccountTransferRound' =
       [AccountTransferRound EXCEPT ![s][n] = Len(ModifiedMap[s][n])]
  /\ PartitionOn' = [PartitionOn EXCEPT ![s][n] = FALSE]
  /\ commitNext(s, n)
  /\ UNCHANGED <<ModifiedMap, receiving, blockInfoNet>>

\* and is then in the epoch of the request, with no partition on.
endTransfer(s, n) ==
  /\ vote[s][n] = "transfer"
  /\ AccountTransferRound' =
       [AccountTransferRound EXCEPT ![s][n] = current(s, n).atid]
  /\ PartitionOn' = [PartitionOn EXCEPT ![s][n] = FALSE]
  /\ commitNext(s, n)
  /\ UNCHANGED <<ModifiedMap, receiving, blockInfoNet>>

-----------------------------------------------------------------------------

Everywhere(v) == [s \in Shards |-> [n \in Nodes |-> v]]

Init ==
  /\ clpaCnt = 0 /\ waiting = FALSE
  /\ curEpoch = 0 /\ epochShardAcks = [e \in Epochs |-> {}]
  /\ ModifiedMap = Everywhere(<<>>) /\ receiving = Everywhere(0)
  /\ PartitionOn = Everywhere(FALSE)
  /\ AccountTransferRound = Everywhere(0)
  /\ request = [s \in Shards |-> <<>>]
  /\ committed = Everywhere(0) /\ vote = Everywhere("none")
  /\ partitionNet = Everywhere({}) /\ blockInfoNet = {}

NodeStep(s, n) ==
  \/ \E e \in partitionNet[s][n] : handlePartitionMsg(s, n, e)
  \/ setPartitionOn(s, n)
  \/ handlePrePrepare(s, n)
  \/ commitBlock(s, n)
  \/ accountTransfer(s, n)
  \/ endTransfer(s, n)

Next ==
  \/ clpaMapSend
  \/ nextEpochBegins
  \/ \E b \in blockInfoNet : HandleBlockInfo(b)
  \/ \E s \in Shards : HandleinPropose(s) \/ \E n \in Nodes : NodeStep(s, n)

Spec == Init /\ [][Next]_vars

\* Time passes, messages arrive, and every goroutine that can go on does.
Fairness ==
  /\ WF_vars(clpaMapSend) /\ WF_vars(nextEpochBegins)
  /\ \A s \in Shards, e \in 0 .. MaxEpochs :
       WF_vars(HandleBlockInfo([shard |-> s, epoch |-> e]))
  /\ \A s \in Shards :
       /\ WF_vars(HandleinPropose(s))
       /\ \A n \in Nodes :
            /\ \A e \in Epochs : WF_vars(handlePartitionMsg(s, n, e))
            /\ WF_vars(setPartitionOn(s, n))
            /\ WF_vars(handlePrePrepare(s, n))
            /\ WF_vars(commitBlock(s, n))
            /\ WF_vars(accountTransfer(s, n) \/ endTransfer(s, n))

FairSpec == Spec /\ Fairness

-----------------------------------------------------------------------------
(***************************************************************************)
(* Properties.                                                             *)
(***************************************************************************)

Requests == [kind : {"block", "partition"}, map : Nat, atid : Nat]

\* The types of the committee's fields, of Data_supportCLPA and of the
\* messages; no epoch that was not sent is ever acknowledged.
TypeOK ==
  /\ clpaCnt \in 0 .. MaxEpochs /\ waiting \in BOOLEAN
  /\ curEpoch \in 0 .. MaxEpochs /\ epochShardAcks \in [Epochs -> SUBSET Shards]
  /\ ModifiedMap \in [Shards -> [Nodes -> Seq(Nat)]]
  /\ receiving \in [Shards -> [Nodes -> Nat]]
  /\ PartitionOn \in [Shards -> [Nodes -> BOOLEAN]]
  /\ AccountTransferRound \in [Shards -> [Nodes -> Nat]]
  /\ request \in [Shards -> Seq(Requests)]
  /\ committed \in [Shards -> [Nodes -> Nat]]
  /\ vote \in [Shards -> [Nodes -> {"none", "prepare", "refuse", "transfer"}]]
  /\ partitionNet \in [Shards -> [Nodes -> SUBSET Epochs]]
  /\ blockInfoNet \subseteq [shard : Shards, epoch : 0 .. MaxEpochs]

\* recordEpochAck is there so that one shard that reports epoch N first does
\* not move curEpoch on for the others: the leader of every shard is in
\* the current epoch, or past it.
EpochConfirmed ==
  \A s \in Shards : curEpoch <= AccountTransferRound[s][Leader]

\* The shards move together: no leader is two epochs ahead of another one.
LeadersTogether ==
  \A s, t \in Shards :
    AccountTransferRound[s][Leader] <= AccountTransferRound[t][Leader] + 1

\* proposePartition takes the map from the place of the current round and the
\* number of the epoch from the length of the list: they belong together, so
\* that every shard goes over to epoch e with the map of epoch e.
MapOfEpoch ==
  \A s \in Shards : \A k \in 1 .. Len(request[s]) :
    request[s][k].map = request[s][k].atid

\* A leader with a map it has not executed knows of it: PartitionOn is set, or
\* about to be, and no second map comes before accountTransfer_do clears it.
LeaderKnows ==
  \A s \in Shards :
    Len(ModifiedMap[s][Leader]) =
      AccountTransferRound[s][Leader] +
        (IF PartitionOn[s][Leader] \/ receiving[s][Leader] > 0 THEN 1 ELSE 0)

\* Nodes of a shard that have committed the same requests are in the same
\* epoch, also one that has got more maps than the leader had, or fewer.
SameEpoch ==
  \A s \in Shards : \A m, n \in Nodes :
    committed[s][m] = committed[s][n] =>
      AccountTransferRound[s][m] = AccountTransferRound[s][n]

\* MsgSendingControl gets through all its epochs and returns.
AllEpochsRun == <>(clpaCnt = MaxEpochs /\ ~waiting)

-----------------------------------------------------------------------------
(***************************************************************************)
(* The parts of the inductive invariant from which the properties of the   *)
(* leaders are proved.                                                     *)
(***************************************************************************)

\* The committee is at most one epoch ahead of what is confirmed, and that
\* only while it waits.
OneEpochAhead ==
  /\ curEpoch <= clpaCnt /\ clpaCnt <= curEpoch + 1
  /\ waiting \/ curEpoch = clpaCnt

\* A report names no epoch its leader has not entered.
AcksEarned ==
  /\ \A e \in Epochs : \A s \in epochShardAcks[e] :
       e <= AccountTransferRound[s][Leader]
  /\ \A b \in blockInfoNet : b.epoch <= AccountTransferRound[b.shard][Leader]

\* A leader has got the maps of all epochs, each once and in their order,
\* except perhaps the last one, which is then on its way.
LeaderMaps ==
  \A s \in Shards :
    /\ partitionNet[s][Leader] \subseteq {clpaCnt}
    /\ Len(ModifiedMap[s][Leader]) =
         IF partitionNet[s][Leader] = {} THEN clpaCnt ELSE clpaCnt - 1
    /\ \A i \in 1 .. Len(ModifiedMap[s][Leader]) : ModifiedMap[s][Leader][i] = i

\* While a leader's partition request is not committed, its partition is on.
LeaderPartition ==
  \A s \in Shards :
    /\ PartitionOn[s][Leader] => receiving[s][Leader] = 0
    /\ Len(request[s]) <= committed[s][Leader] + 1
    /\ committed[s][Leader] < Len(request[s]) /\ current(s, Leader).kind = "partition" =>
         /\ PartitionOn[s][Leader]
         /\ current(s, Leader).atid = Len(ModifiedMap[s][Leader])

\* A node executes only partition requests.
Transfers ==
  \A s \in Shards, n \in Nodes :
    /\ committed[s][n] <= Len(request[s])
    /\ vote[s][n] = "transfer" =>
         committed[s][n] < Len(request[s]) /\ current(s, n).kind = "partition"

\* A leader receives one map at a time.
OneMapAtATime == \A s \in Shards : receiving[s][Leader] <= 1

\* The epoch that the first k requests of a shard lead to: that of the last
\* partition among them.
leadsTo(s, k, e) ==
  \/ e = 0 /\ \A j \in 1 .. k : request[s][j].kind = "block"
  \/ \E i \in 1 .. k :
       /\ request[s][i].kind = "partition" /\ request[s][i].atid = e
       /\ \A j \in i + 1 .. k : request[s][j].kind = "block"

\* Every node is in the epoch that its committed requests lead to.
EpochOfCommitted ==
  \A s \in Shards, n \in Nodes :
    leadsTo(s, committed[s][n], AccountTransferRound[s][n])

EpochInv ==
  /\ TypeOK /\ OneEpochAhead /\ AcksEarned /\ EpochConfirmed /\ LeaderMaps
  /\ LeaderKnows /\ LeaderPartition /\ OneMapAtATime /\ Transfers /\ MapOfEpoch

=============================================================================
