# A TLA+ model of the sharded blockchain

The repository is an emulator of a sharded blockchain (Go). A *supervisor*
injects transactions and decides which account belongs to which shard; every
*shard* is a group of nodes that agree on blocks with a PBFT of their own; from
time to time the supervisor sends a new *partition map* and the shards go over
to it. This directory holds TLA+ modules for the parts that carry this logic,
the TLC configurations that check them on small instances, and proofs checked
by TLAPS. File names below are relative to `src/`; `pbft_all` stands for
`consensus_shard/pbft_all`.

## 1. The system

| Component | State | Operations | Talks to |
|---|---|---|---|
| PBFT node (`pbft_all/pbft.go`, `messageHandle.go`, `view_change.go`) | `sequenceID`, `pbftStage`, `view`, request pool, counters of confirmations, `sequenceLock`, `askForLock`, chain | propose, three phases, ask for and send old requests, view change, stage monitor, start | the other nodes of its shard, over TCP |
| CLPA modules of a node (`pbft_all/pbftInside_moduleCLPA.go`, `pbftOutside_moduleCLPA.go`, `accountTransfer_module.go`, `dataSupport`) | list of maps, `PartitionOn`, `AccountTransferRound`, account states and transactions received | receive a map, propose a partition, execute it, relay transactions, report a block | PBFT node (call-backs), other shards, supervisor |
| Blockchain, pool, storage (`chain`, `core`, `storage`) | current block, partition map, transaction queue, relay pool, state trie, block database | make, check and add a block, add accounts, pack transactions | called by the node |
| CLPA committee (`supervisor/committee/committee_clpa.go`) | `curEpoch`, acknowledgements by epoch, the graph of transactions | send transactions, send a map, wait for the epoch, take reports | all nodes |
| Supervisor, stop signal (`supervisor`) | number of empty reports in a row | take reports, stop the shards | committee, nodes |
| Broker committees (`committee_broker.go`, `committee_clpa_broker.go`, `broker`) | pending two-step transactions, `curEpoch` | send first half, confirm, send second half | nodes |
| Partition algorithm (`partition`) | graph, edge counts per shard | move vertices between shards | committee |
| Networks, messages, parameters, measurement, queries | connection pool; constants | deliver messages; statistics | everyone |

`NewPbftNode` installs the CLPA modules whatever consensus method is configured
(`pbft.go` 136-139), so the node side of the Relay and Broker variants is not
reached as the program stands; the broker protocol is modelled with the modules
that are written for it.

What is hard here:

* **Concurrency.** Every PrePrepare, Prepare and Commit is handled by a
  goroutine of its own that waits on a condition variable until the node's
  stage allows it; the proposer, the monitor, the catch-up handlers and the view
  change run without the lock the phases use.
* **Order.** Messages of one round overtake those of another; maps, partition
  requests and reports of several epochs are on their way together.
* **Failure.** View change timeouts, the monitor's resets, restarts on stored
  data, nodes left behind.
* **Waiting.** `sequenceLock` is given back only when the leader's own round
  ends, `askForLock` only when an answer comes, and the committee goes on only
  when every shard has reported.

What makes each part correct: a shard has one chain, one request is outstanding
at a time, blocks are backed by a quorum, locks are released and never released
twice, rounds end; an epoch is confirmed only when every shard is in it, all
shards execute the map of that epoch, no map is forgotten, epochs end; blocks on
disk are readable after a crash; no transaction is executed twice or lost and no
money appears when accounts move; a split transaction pays once and the
supervisor stops when, and only when, everything is done; the incremental edge
counts are the true ones and the shards are told the partition that was found.

## 2. Modules

| Module | Contents |
|---|---|
| `ShardLedger` | what a shard promises: one log, every node holds a prefix |
| `Pbft` | one shard: proposer, phases, catching up, view change, monitor, restart; its properties, the parts of its inductive invariants and the mapping to `ShardLedger` |
| `MCPbft` | four nodes, symmetry, the schedule of the run `fork` |
| `PbftProofs` | type correctness; the invariants of the view change and what follows from them |
| `PbftSafety` | the invariant of a shard that keeps its leader and what follows from it, the refinement included |
| `EpochSync` | the committee's epochs and the partition requests of all shards |
| `MCEpochSync` | two shards, the schedules that keep the runs small |
| `EpochProofs` | the invariant of `EpochSync` and what follows from it |
| `Reshard`, `MCReshard` | accounts, balances and transactions of all shards: injection, blocks, relay, and the accounts that move with a partition |
| `ReshardProofs` | the invariant of `Reshard` (its parts are at the end of that module) and what follows from it |
| `BlockStore`, `MCBlockStore` | the writes of a block, the end of the process between them, and the restart |
| `BlockStoreProofs` | the invariant of `BlockStore` and what follows from it |
| `Broker`, `MCBroker` | the supervisor with the broker committee: both of its goroutines, the two legs of a transaction, the measure modules, the stop signal |
| `BrokerProofs` | the invariant of `Broker` (stated in that module as `BrokerInv`) and what follows from it |
| `Partition`, `MCPartition` | the graph of accounts, CLPA_Partition and AERO_Partition, the committee's map |
| `PartitionProofs` | the invariants of `Partition` (the counted vertices, the sums over edges) and what follows from them |
| `SumTheorems` | induction in the form of sets, and sums over finite sets |

Operators called "Mutant of X" are wrong forms of X; no specification uses them.
Each property of a passing run fails when one of them takes the place of X.

### Pbft

A request is named by its digest, numbered in the order of proposal (the digest
hashes the proposal time, so no two requests share one). `request[d]` keeps what
the code reads of it. Messages are in one of the `Net` variables until the
goroutine of the message gets past its wait loop; what follows the wait runs
under `pbftLock` and is one step. Where the code is *not* under that lock the
model has several steps: `BeginRound`/`Propose`/`SetPrepareStage` for the three
parts of the proposer goroutine (leader check; `sequenceLock` to broadcast;
`pbftStage.Store(2)`), and `handleSendOldSeq`/`applyOldRequest`/`endSendOldSeq`
for catching up. The maps of confirmations have pointers of freshly decoded
messages as keys, so they count messages; the model's counters do the same.
`crashed` records the unlock of a mutex that is not locked, which ends a Go
program. `RestartShard` ends all processes and their connections and calls
`NewPbftNode` on the stored chains.

Left out: a handler that waits for `askForLock` keeps `pbftLock`, so the other
handlers of that node wait too (the model lets them go on, which only adds
behaviours); the contents of blocks; partition requests.

### EpochSync

The committee is `clpaMapSend` (once `clpaFreq` has passed),
`nextEpochBegins` (the end of its wait) and `HandleBlockInfo`. A node receives a
map in two steps (`handlePartitionMsg`, `setPartitionOn`), as no lock is held
between them, and executes a partition in two (`accountTransfer`,
`endTransfer`). The consensus of the shard is reduced to what `PbftSafety` proves
of it: one request at a time, in order, with a quorum; the messages of a round
are taken in their order here. The map of epoch *e* is the number *e*. Several
maps can be on the way to a slow backup, in any order, since each is sent and
handled by its own goroutine.

Left out: accounts and transactions that move, which are in `Reshard`, and the
`PartitionReady` exchange before a proposal, which only delays the leader
(`SendPartitionReady` reaches the own shard only, so the wait ends at its limit).

### Reshard

One level up: a shard is one ledger that works on one request at a time, which
is what `PbftSafety` proves, and a partition is on exactly while a map was
received that is not executed, which is `LeaderKnows` of `EpochSync`. In exchange
there are balances (`trie`), queues, relayed transactions with their proofs, and
the account messages. `sendAccounts_and_Txs` and `proposePartition` are two steps
of one proposal, so that the messages of other leaders may come between them;
`HandleinCommit` and `accountTransfer_do` are the two kinds of commit. `debits` and
`credits` count what blocks did to each transaction; `reset` and `late` record
the accounts and transactions whose message came after the proposal that should
have taken them.

*Assumption on time* (`injectedInTime`): a transaction that was sent before a map
has arrived before the partition of that map is proposed. The leader sleeps 6 s
(`messageHandle.go` 128) between the two, the committee sends within a second.

Also seen while translating: a transaction whose sender has not got the money is
passed over (`blockchain.go` 113-117) but relayed all the same, and credited in
the other shard. `Init_Balance` is larger than anything ever spent, and the
instance has it so too. And a transaction whose account message comes after the
partition it was for stays in `AccountStateTx` until the next one, where
`ModifiedMap[round][account]` is 0 for an account that map does not mention
(`accountTransfer_module.go` 146-156): shard 0 takes it, cannot debit a sender it
does not have, and relays or credits it all the same. This takes a third map that
is silent about the account. `PaidOnce` therefore leaves out, for the order of
debit and credit only, the transactions recorded in `late`.

### BlockStore

One node. `AddBlock` is `executeBlock` (commits the trie), `setCurrentBlock`, then
the three bolt transactions `putBlock`, `AddBlockHeader`, `UpdateNewestBlock`;
`Crash` may come between any two, and `NewBlockChain` starts from what is on disk.
A state is named after the first block that has it. What the other nodes do is in
`tip`: the leader's newest block, which this node may still lack.

### Broker

The sender goroutine is `dealTxByBroker`, `sendTx1s`, `sendRest`, `StopGap_Reset`
and in the end `stop`; a handler is `handleBlockInfos`, `handleBrokerType2Mes`
(which sleeps while it sends) and `handleTx2ConfirmMag`, and `tcpLock` lets one in
at a time. A transaction of the file and its legs are told apart by `leg`. A shard
is its leader, which packs, commits and reports in one step.

*Assumption on time* (`inSync`, a choice of the initial state; only `StopWhenDone`
depends on it): all shards make a block in each `Block_Interval`, and messages and
handlers are through within it. A shard that is far faster than the others can
report empty blocks until the threshold is reached while others still work.

Also seen: the legs are made with `HasBroker` false, so the balance of a broker
changes only in the shard of its own address, although `docs/en/BrokerChain.md`
has it that a broker has an account in every shard. The rows of a batch that is
not full when the file ends are not sent (`committee_broker.go` 117-120).

### Partition

`EdgeSet[u][v]` is how often *v* is in *u*'s list. A vertex of an iteration is one
step (`changeShard` or `stay`), in any order, as Go's maps have none. Scores are
compared multiplied by their common denominator; among equal ones any may win.
The agent, a Python process, is `agentAnswers` with any migrations its code can
write, or `agentFails`. `clpaMapSend` enters the moves into the committee's map,
counts the epoch and starts a new graph (`clpaReset`).

Also seen: with a shard that has no edges `MinEdges2Shard` is 0, all scores are
minus infinity and label propagation moves nothing. `CurrentShard` of a prefix is
the shard of whichever of its vertices comes first, so the load of a prefix with
vertices in several shards is booked to one of them, though the comment above the
sums (`partition_AERO.go` 91) calls them exact; the totals are (`PayloadExact`).

## 3. Runs

Deadlock is checked in `reshard`, where every shard can always make another
block. The other runs end when the bounded proposals, epochs, blocks or edges are
used up or the supervisor has stopped, hence `CHECK_DEADLOCK FALSE`.

| Run | Instance | Shows |
|---|---|---|
| `stable` | 4 nodes, 2 requests | `Agreement`, `SequenceAhead`, `LockIffOutstanding`, `AskIsServed`, `LedgerSpec` in every order of the messages, nodes left behind and caught up included |
| `faults` | 4 nodes, 1 request, 1 reset per node, 1 restart | `TypeOK`, `QuorumBacked`, `NoFatalUnlock` |
| `views` | 4 nodes, three of which time out once | `ViewBacked`, `OneViewChange` |
| `live` | 4 nodes, 1 request, fair | `BackupsCommit` |
| `epochs` | 2 shards of 2 nodes, 2 epochs | `TypeOK`, `EpochConfirmed`, `LeadersTogether`, `MapOfEpoch`, `LeaderKnows`, `SameEpoch` |
| `epochs_live` | 2 shards of 1 node, 3 epochs, fair | `AllEpochsRun` |
| `reshard` | 2 shards, 2 accounts that move away and back, 2 transactions, fair | `OnePlace`: no transaction is in two pools, blocks or messages; `PaidOnce`: each is debited and credited once at most, and in this order unless it was moved and late; `BalanceKept`: a balance follows its account, unless its message was late; `Delivered`: every transaction is credited, unless it was moved and late |
| `store` | 4 blocks, 2 crashes | `NoPanic`, `ChainReadable`, `NewestGrows` |
| `broker` | 2 shards, 4 transactions, batches of 3, a file that has enough rows or one too few, fair | `PaidOnce`, `BooksRight`, `LatencyFound`; `Stops`; in sync, `StopWhenDone` |
| `clpa` | 3 shards, 4 accounts, 2 prefixes, 4 edges, 2 epochs, either algorithm | `CountsExact`, `ScoreDefined`, `VertexsCounted`, `ShardsNotEmptied`, `MapComplete`, `PayloadExact` |

Runs in which the code does not do what a comment says of it:

| Run | Property | What happens |
|---|---|---|
| `fork` | `Agreement` | the view change forgets a block the old leader has committed |
| `accounts` | `AccountsHandled` | the partition is proposed without the account states that are on their way, which are then dropped |

`fork` restricts the schedule to the one described in `MCPbft` so that the search
is short; the behaviour found is one of the unrestricted specification.

Other disagreements between code and comments, met while modelling, which the
modules contain as the code has them:

* a PrePrepare carries no view, so one of the old leader that is handled after a
  view change makes the new leader unlock a `sequenceLock` it never took
  (`messageHandle.go` 374; the comment at 84-85 warns of this);
* a node left behind asks from `sequenceID + 1` (348), one block too late, and
  moves its sequence number past the gap: it keeps a correct but shorter chain;
* `pbftStage.Store(2)` of the proposer (172) may undo the stage its own handlers
  have reached, and its round then never ends; `BackupsCommit` is therefore about
  the backups;
* a backup that gets a partition request before the map refuses it for good
  (`pbftInside_moduleCLPA.go` 76: "waiting for the retry", which nobody makes), so
  `AllEpochsRun` is checked where the leader is a quorum of its own;
* `accountTransfer_do` sets `PartitionOn` to false (211) although a backup may have
  got the next map; `LeaderKnows` says that this cannot happen to a leader.

**Bounds.** Four nodes is the default `NodesInShard` and the smallest number
with f = 1, where a quorum (3) is not everyone. Two requests are the fewest for
which messages of different rounds meet and a node can be left behind. Two
epochs are the fewest for which a map can overtake the partition of another one.
In `epochs` the shards have two nodes (f = 0, quorum 1), so that a backup may lag
as far as it likes, and the backup of the second shard does nothing
(`OneActiveBackup`); the proofs cover the general case. In `views` there are no proposals, and three nodes time out: that is
a quorum exactly, and a node that enters the view by the NewView messages of the
others still gets its last ViewChange late. `MaxBlocks` of `EpochSync` counts the
blocks between two partitions, so that a bound never keeps a partition from being
proposed.
In `reshard` an account leaves and returns, the fewest moves for which a shard has
an old record of it, and the other one moves in between; the two transactions go
in opposite directions, so each can be queued, in a block or relayed at each move.
In `store` two crashes allow one inside the recovery from another, and four blocks
two of the same height with successors. In `broker` the file has two cross-shard
transactions, one of the broker and one inner one, more than a batch and a block
hold; `MaxGap` lets the count of empty reports go one past the threshold. In `clpa`
four edges are the fewest that give three shards an edge each and one to move;
`MaxIterations` and `MaxUpdates` are 100 and 50 in the code and 2 here, and the
proofs hold for any value.

**Symmetry** of the nodes that do not lead is used in safety runs without view
changes only.

**Fairness.** `Pbft`: weak fairness of the proposer, of the handlers of each
request, and of catching up: TCP delivers, and the Go scheduler runs every
goroutine that can go on. Timeouts, resets and restarts are not assumed to
happen. `EpochSync`: weak fairness of every step; the committee's timer expires,
and a leader proposes a block every `BlockInterval` as long as its stage is 1.
`Reshard`: weak fairness of each shard's proposals and commits and of the delivery
of each kind of message to it; a relayed or injected transaction waits in a queue
from whose head every block takes. `Broker`: weak fairness of the sender, of the
handlers, of each shard and of delivery.

## 4. Proofs

`PbftProofs!TypeCorrect` holds for all constants, with view changes, resets and
restarts.

`PbftSafety` assumes `MaxTimeouts = 0`: the shard keeps its first leader. The shipped
`paramsConfig.json` sets `PbftViewChangeTimeOut` to 99999999 ms, so this is how the
program runs; the run `fork` shows that `Agreement` needs the assumption, and late
PrePrepares (section 3) that `NoFatalUnlock` does. Nodes, requests, queued proposers,
resets and restarts are unbounded; in particular the leader keeps `sequenceLock`
through every reset of the monitor, whose own `Unlock` (`messageHandle.go` 87) is never
reached. The inductive invariant is `LeaderInv`. A restart loses all messages and
maps, starts from chains of different lengths and gives old sequence numbers out
again, so the invariant speaks of the requests of this life of the shard: `live`, what
the leader has in its pool.

* `FirstView`: nobody but `Node0` leads or proposes;
* `LiveRequests`: a live request has a sequence number of its own, which is the number
  of its block, is at most `highest` (the leader's chain, and one more while it holds
  `sequenceLock`), and fits on the leader's chain as long as it is not in it;
  `OnlyLive`: no pool, message or count is about another request;
* `SequenceAhead`: the leader is exactly one ahead of its chain, so what it commits is
  the request it holds the lock for (`LeaderCommits`), which is why it may unlock;
* `BackupStage`, `AskStage`, `AskRange`, `AskOnce`: why a node that skips a block
  cannot put a later one in its place, and why an answer always finds
  `askForLock` held: what is asked for begins after the node's own sequence
  number, that number does not move while it asks, and one exchange is under way
  at a time.

From it follow `LocksHeld`, `AskersServed` and `SequenceIsAhead`. `CommitsBacked`
(`QuorumBacked`) needs `CommitsHaveSenders` besides: each confirmation counted or
on its way has a sender of its own, since a node sends a Commit of a live request once.

`Agreement`, `LockIffOutstanding` and the refinement assume `MaxRestarts = 0` as well:
a shard restarted while one node is a block ahead agrees on another block of that
height (`docs/FAQ.md` tells users to delete the data before a run). `StableInv` adds to
`LeaderInv` that request *d* has sequence and number *d* and parent *d*-1 and every
chain is 1, 2, 3, ... (`NumberedChains`), which gives `ChainsAgree`.
`ShardImplementsLedger` maps the log to the requests proposed so far: `Propose`
is `Extend` (the leader's chain is the whole log when it gets the lock), adding a
block is `Apply`, everything else is a stutter.

The second half of `PbftProofs` is about shards that do change their leader. `ViewsBacked` holds for all
constants, with any number of timeouts, resets and restarts: a node is still in the
first view, or a quorum of nodes has timed out. Its invariant is `MessagesBacked`: a
ViewChange has a sender that timed out, and where there is a NewView a quorum did.
`OneChange` (`OneViewChange`) assumes that no node times out twice
(`MaxTimeouts <= 1`) and `2 * Quorum > N`. Both are needed: nodes that time out
twice may well go two views on, and so may two disjoint quorums. With the integer
division of the code the second assumption holds for 1, 4 (the default), 5 and at
least 7 nodes and fails for 2, 3 and 6. The argument: a node sends one ViewChange,
and since it reaches exactly a quorum of equal ones once, one NewView
(`NewViewOnce`); nobody is past the first view, or asks for another than the second,
before a quorum has asked for the second (`SecondViewFirst`); a quorum for a third
one would share a sender with it.

`EpochProofs` has no assumption but finite sets of at least two shards. The
invariant `EpochInv` says that the committee is one epoch ahead of the confirmed
one at most and only while it waits (`OneEpochAhead`), that no report names an
epoch its leader has not entered (`AcksEarned`), and that a leader has all maps
but perhaps the last, in order (`LeaderMaps`). So when a map reaches a leader its
last partition is executed, which is why `PartitionOn` and the length of the list
can be trusted there (`LeaderKnows`, `LeaderPartition`, `MapOfEpoch`) although
they cannot at a backup. For the backups there is `EpochOfCommitted`: the epoch of a
node is what the requests it has committed lead to (`leadsTo`: that of the last
partition among them), whatever maps it has or lacks. Two nodes that have
committed the same requests are therefore in the same epoch (`NodesInSameEpoch`).

`BlockStoreProofs` has no assumption but natural bounds: any number of blocks and
crashes. `StoreInv` adds to the three properties that a trie is on disk before
anything names its block (`TriesFirst`), where the writer is relative to the newest
block on disk (`WriterAt`: the current block *is* the newest one until
`setCurrentBlock`, and built on it afterwards), and that only blocks that were made
are named (`NamesMade`). From it: `RestartSafe`, `StoredChain`, `NewestOnlyGrows`.

`PartitionProofs` assumes only `PartitionAssumption` (finite accounts, a map of each
account to a shard, natural bounds). The invariant adds to the types and
`VertexsCounted` where a partition stands (`Progress`) and that the moves recorded so
far lead from the committee's map to the map of the graph (`MovesKept`, for all
accounts and not only those of the graph, since `clpaReset` keeps the map and empties
the graph). The counting rests on two lemmas about cardinalities, one for a move
(`MoveCounted`) and one for new vertices (`NewCounted`). `NoShardEmptied` then follows
from `mayLeave`: a shard counted with more than one vertex has another one.

The sums have an invariant of their own on top of this one, `GraphInv`: the neighbour
lists are `Symmetric`, and `CountsExact` and `PayloadExact` hold. A count of edges is a
sum of list entries over a set of pairs of vertices (`entries`), half of it where both
ends are in the set; the halves are exact because of the symmetry. When a vertex moves,
`changeShardRecompute` adds and subtracts along its list what `border` and `inside`
of the two shards gain and lose, and the sums over the disjoint parts that do not
change cancel; this gives `CountsAreExact`. `ScoresDefined` follows: an edge to a vertex
of a shard puts one entry across its border or two inside it. `PayloadIsExact` sums the
same entries by prefix and by shard (`SumClasses`: the sum over a set is the sum of the
sums over its classes).

`BrokerProofs` assumes only `BrokerAssumption`, which types the file and the list of
brokers: any number of shards, rows, batches and blocks, with shards in step or not.
`BrokerInv` follows a leg from the committee to the report of its block. It is in
exactly one place: `made` and not sent, `waiting` in the pool or on the way to it, in
one report (`Reports`), or dealt with and `confirming` (`Queues`). `FirstLeg` and
`SecondLeg` say which of these the two legs of one transaction are in together: the
second is made only after a report of the first was handled, and the books of the
broker change between them. `Known` says that what is under way was read from the
file, each row once, and `Measured` that a leg is in the latency map of the measure
module from the report on. A report is handed to the measure modules and the
committee by one holder of `tcpLock`, so the second leg's report cannot be measured
before the first one's, which is `LatencyFound`.

`StopsWhenDone` needs three more parts, stated at the end of `Broker`. `NotLost`: a leg
is not sent yet, waiting, executed and in a report, or dealt with, and nothing else, so
nothing drops out between two of these. `NumbersRight`: the three numbers of the measure
module are the numbers of executed legs by kind that are no longer in a report. `Paced`
says why the stop gap is trusted, for shards in sync: whatever makes new work resets the
gap in the same round, so while there is such work (`fresh`) the empty reports in a row
are of this round, and while there is any (`busy`) of this and the last round at most.
These are at most `2 * ShardNums`, and the supervisor stops at `3 * ShardNums`: when it
stops nothing is under way, by `NotLost` all that was sent is executed and in the
books, and by `NumbersRight` it was counted.

`ReshardProofs` is about any shards, accounts, transactions, block size and list of
partition maps (`ReshardAssumption` gives their types, that the transactions are
finitely many, and that no one pays himself). Its parts:

* `Typed` and `OnePlace` are inductive together: a block may be executed only because
  its transactions are distinct, and they are because `PackTxs`, `RelayMsgSend` and
  `sendAccounts_and_Txs` take what they hand on out of where it was. One lemma
  (`Rearranged`) says what a step may do to the places; each action is shown to do
  that. This gives `ReshardTypes` and `InOnePlace`.
* `Counted`: what is still in a place was not credited, and debited only if it is a
  relayed one. So a block can count a transaction once more at most (`MovedOnce`).
* `Routed`: a transaction that was not debited is in the shard its sender is in by the
  map of that shard's next block, or is on its way there. A transaction that is
  injected, or moved and in time, comes to the shard of its sender; the blocks between
  the proposal of a partition and its execution do not exist; after the execution the
  map is the one the transactions were moved by.
* `DebitedFirst` and `Funded`: no transaction is passed over for want of money, so
  every relayed one was debited. This needs `EnoughMoney(v)`: no transaction is of more
  than *v*, and *v* times their number is at most `InitBalance` (10^44 in
  `params/static_config.go`; `MCReshard` assumes it of its instance). `Funded` is a
  bound and not a balance: an account has at least `InitBalance` less *v* for every
  transaction it was debited for, in every copy of its state, the old record of a
  shard it left and the account messages included. This gives `PaidInOrder`.
* `Balanced`, for every account whose state was not late, and without any assumption on
  money: the shard that holds the account has what `InitBalance` and the transactions
  counted so far make of it (`balanceRight`). While it moves, each copy in a message, in
  `AccountStateTx` or in a partition request has that balance too (`CopiesRight`), which
  stays true because a shard that has handed the account over has proposed the partition
  and executes no block before that (`HandedOver`, `onItsWay`), and a copy in a message
  is the only one (`OneCopy`). Shards that have executed the same partitions have the same
  map (`SameMaps`), so the account has one holder of the newest round. This gives
  `BalancesKept`.

What the loops of the code compute (`filter`, `ReceivedNewTx`,
`GetUpdateStatusTrie`) is proved by induction on their length. The provers cannot
instantiate the library's induction theorems, which have a predicate as a parameter,
but they can use a set in its place: `InductionOnSet` of `SumTheorems` is derived from
the well-foundedness of the natural numbers, and each loop defines the set of lengths
for which it is right. The same holds of finite sets (`FiniteInduction`), from which
`SumTheorems` shows that `SumFunctionOnSet` of the community modules, a fold that takes
the elements in the order of CHOOSE, adds up over disjoint sets in any order.

Every invariant that a passing run checks is also a theorem. Only model-checked are the
liveness properties (`BackupsCommit`, `AllEpochsRun`, `Delivered`, `Stops`), since
fairness is out of the prover's reach.

## 5. Not modelled, and the plan

Next, in this order:

1. `Pbft`: proposals during a view change on more schedules; the condition
   variable itself (wake-ups that nobody sends).
2. The broker committee with resharding (`committee_clpa_broker.go` and the node
   modules `*CLPABroker.go`, `accountTransfermod_Broker.go`). It moves `curEpoch` on
   with a compare-and-swap at the first report of any shard (257);
   `recordFirstAck` in `EpochSync` is that rule, and it breaks `EpochConfirmed` and
   `LeadersTogether`. No node runs the modules it needs.

Left out for good: the relay committee (it sends by address and ignores reports:
`Reshard` without a map), the relay node modules (the CLPA modules without a
partition), the remaining statistics and the queries (nothing in the protocol reads
them), how the Python agent decides, rate limits and the connection pool, file
formats, start-up scripts, the VRF (unused).
