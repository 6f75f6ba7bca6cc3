------------------------------ MODULE Reshard ------------------------------
(***************************************************************************)
(* Accounts and transactions of all shards: the committee routes a         *)
(* transaction to the shard of its sender, the blocks of that shard debit  *)
(* the sender and relay the transaction to the shard of the recipient,     *)
(* and a partition moves accounts and the transactions that wait for them  *)
(* (pbftInside_moduleCLPA.go, pbftOutside_moduleCLPA.go,                   *)
(* accountTransfer_module.go, chain/blockchain.go, core/txpool.go).        *)
(*                                                                         *)
(* A shard is one ledger here: module Pbft is about its nodes, and what    *)
(* PbftSafety proves is used: a shard works on one request at a time, and  *)
(* no block is executed between the proposal of a partition and its        *)
(* execution.  The maps come as in EpochSync (LeaderKnows): a partition is *)
(* on exactly while a map was received that is not executed.               *)
(***************************************************************************)
EXTENDS Integers, SequencesExt

CONSTANTS
  ShardNums,            \* the shards are 0 .. ShardNums - 1
  Accounts,
  Txs,                  \* the transactions of the data file
  Sender, Recipient,    \* their accounts and values, as functions on Txs
  Value,
  Addr2Shard,           \* the shard of an account that no map mentions
  Maps,                 \* the partition maps of the epochs, in their order
  InitBalance,          \* Init_Balance, far more than what is ever spent
  BlockSize,
  RelayWithMerkleProof  \* relays carry a proof of each transaction

Shards == 0 .. ShardNums - 1

ASSUME ReshardAssumption ==
  /\ ShardNums \in Nat \ {0} /\ IsFiniteSet(Txs)
  /\ Sender \in [Txs -> Accounts] /\ Recipient \in [Txs -> Accounts]
  /\ \A t \in Txs : Sender[t] # Recipient[t]
  /\ Value \in [Txs -> Nat] /\ InitBalance \in Nat
  /\ Addr2Shard \in [Accounts -> Shards]
  /\ Len(Maps) \in Nat
  /\ \A i \in 1 .. Len(Maps) : \A a \in DOMAIN Maps[i] :
       a \in Accounts /\ Maps[i][a] \in Shards
  /\ BlockSize \in Nat \ {0} /\ RelayWithMerkleProof \in BOOLEAN

VARIABLES
  \* the committee
  unsent,         \* transactions not sent yet
  epoch,          \* number of maps sent
  modifiedMap,    \* its own partition of the accounts
  \* each shard
  received,       \* number of maps received, the length of ModifiedMap
  AccountTransferRound,
  PartitionMap,
  trie,           \* balances of the accounts that are in the state trie
  TxQueue,
  AccountStateTx, \* what the other shards sent for the next partition
  request,        \* what the shard has proposed and not yet committed
  \* messages
  injectNet, relayNet, accountNet,
  \* history: how often each transaction was debited and credited, the
  \* accounts whose state was not there when their new shard took them over,
  \* and the transactions that were moved and not taken over
  debits, credits, reset, late

committeeVars == <<unsent, epoch, modifiedMap>>
chainVars == <<PartitionMap, trie>>
dataVars == <<received, AccountTransferRound, AccountStateTx>>
netVars == <<injectNet, relayNet, accountNet>>
history == <<debits, credits, reset, late>>
vars == <<committeeVars, chainVars, dataVars, TxQueue, request, netVars, history>>

\* Go maps: one with no keys, an assignment to a key, and the assignments to all
\* keys of another map.
EmptyMap == <<>>

put(m, k, v) == [x \in DOMAIN m \cup {k} |-> IF x = k THEN v ELSE m[x]]

putAll(m, new) ==
  [x \in DOMAIN m \cup DOMAIN new |-> IF x \in DOMAIN new THEN new[x] ELSE m[x]]

\* The entries of a list that are in S, in their order: a loop with an append.
filter(q, S) ==
  LET kept[i \in 0 .. Len(q)] ==
        IF i = 0 THEN <<>>
        ELSE IF q[i] \in S THEN Append(kept[i - 1], q[i]) ELSE kept[i - 1]
  IN kept[Len(q)]

\* A transaction in a pool, a block or a message.
Tx(t, relayed) == [id |-> t, Relayed |-> relayed]

-----------------------------------------------------------------------------
(***************************************************************************)
(* The committee.                                                          *)
(***************************************************************************)

\* It sends no transactions while it waits for an epoch to be confirmed.
waiting == \E s \in Shards : AccountTransferRound[s] < epoch

\* txSending: to the shard of the sender, by the committee's own map.
txSending(t) ==
  /\ t \in unsent /\ ~waiting
  /\ unsent' = unsent \ {t}
  /\ injectNet' = injectNet \cup {[to |-> modifiedMap[Sender[t]], tx |-> t]}
  /\ UNCHANGED <<epoch, modifiedMap, chainVars, dataVars, TxQueue, request,
                 relayNet, accountNet, history>>

\* clpaMapSend, and the committee's own map.
clpaMapSend ==
  /\ epoch < Len(Maps) /\ ~waiting
  /\ epoch' = epoch + 1
  /\ modifiedMap' = putAll(modifiedMap, Maps[epoch + 1])
  /\ UNCHANGED <<unsent, chainVars, dataVars, TxQueue, request, netVars, history>>

-----------------------------------------------------------------------------
(***************************************************************************)
(* Receiving, in goroutines of their own.                                  *)
(***************************************************************************)

\* AddTxs2Pool.
AddTxs2Pool(s, txs) == TxQueue' = [TxQueue EXCEPT ![s] = @ \o txs]

handleInjectTx(m) ==
  /\ m \in injectNet
  /\ injectNet' = injectNet \ {m}
  /\ AddTxs2Pool(m.to, <<Tx(m.tx, FALSE)>>)
  /\ UNCHANGED <<committeeVars, chainVars, dataVars, request, relayNet,
                 accountNet, history>>

\* TxProofVerify: the proof was found, and leads to the root of its block.
TxProofVerify(proof) == proof.Found /\ proof.tx \in proof.TxRoot

\* handleRelayWithProof takes the transactions only if every proof is right.
proofsCorrect(m) == RelayWithMerkleProof => \A p \in m.TxProofs : TxProofVerify(p)

handleRelay(m) ==
  /\ m \in relayNet
  /\ relayNet' = relayNet \ {m}
  /\ IF proofsCorrect(m) THEN AddTxs2Pool(m.to, m.txs) ELSE UNCHANGED TxQueue
  /\ UNCHANGED <<committeeVars, chainVars, dataVars, request, injectNet,
                 accountNet, history>>

\* Mutant of handlePartitionMsg: a map is taken twice.
handlePartitionMsgTwice(s) ==
  /\ received[s] <= epoch
  /\ received' = [received EXCEPT ![s] = @ + 1]
  /\ UNCHANGED <<committeeVars, chainVars, AccountTransferRound, AccountStateTx,
                 TxQueue, request, netVars, history>>

\* handlePartitionMsg, at the leader, from which on PartitionOn is set.
handlePartitionMsg(s) ==
  /\ received[s] < epoch
  /\ received' = [received EXCEPT ![s] = @ + 1]
  /\ UNCHANGED <<committeeVars, chainVars, AccountTransferRound, AccountStateTx,
                 TxQueue, request, netVars, history>>

PartitionOn(s) == received[s] > AccountTransferRound[s]

\* The transactions that a message of accounts loses when it is handled: its
\* own, if its partition is proposed already, or else those of a message that
\* it takes the place of.
lostBy(m) ==
  LET proposed == AccountTransferRound[m.to] >= m.epoch \/ request[m.to].kind = "partition"
      old == AccountStateTx[m.to]
  IN (IF proposed THEN {tx.id : tx \in Range(m.Txs)} ELSE {})
     \cup (IF request[m.to].kind # "partition" /\ m.from \in DOMAIN old
           THEN {tx.id : tx \in Range(old[m.from].Txs)} ELSE {})

\* handleAccountStateAndTxMsg: the last message of a shard counts.
handleAccountStateAndTxMsg(m) ==
  /\ m \in accountNet
  /\ accountNet' = accountNet \ {m}
  /\ AccountStateTx' = [AccountStateTx EXCEPT ![m.to] = put(@, m.from, m)]
  /\ late' = late \cup lostBy(m)
  /\ UNCHANGED <<committeeVars, chainVars, received, AccountTransferRound,
                 TxQueue, request, injectNet, relayNet, debits, credits, reset>>

-----------------------------------------------------------------------------
(***************************************************************************)
(* Proposing.                                                              *)
(***************************************************************************)

Idle == [kind |-> "none"]

\* PackTxs: the first transactions of the queue.
PackTxs(s) == SubSeq(TxQueue[s], 1, IF Len(TxQueue[s]) < BlockSize
                                    THEN Len(TxQueue[s]) ELSE BlockSize)

\* Mutant of GenerateBlock: the packed transactions stay in the queue.
GenerateBlockKeep(s) ==
  /\ request[s] = Idle /\ ~PartitionOn(s)
  /\ request' = [request EXCEPT ![s] = [kind |-> "block", txs |-> PackTxs(s)]]
  /\ UNCHANGED <<committeeVars, chainVars, dataVars, TxQueue, netVars, history>>

\* HandleinPropose with no partition on: GenerateBlock.
GenerateBlock(s) ==
  /\ request[s] = Idle /\ ~PartitionOn(s)
  /\ request' = [request EXCEPT ![s] = [kind |-> "block", txs |-> PackTxs(s)]]
  /\ TxQueue' = [TxQueue EXCEPT ![s] = SubSeq(@, Len(PackTxs(s)) + 1, Len(@))]
  /\ UNCHANGED <<committeeVars, chainVars, dataVars, netVars, history>>

\* A balance in the state trie, that of a new account if there is none.
BalanceOf(st, a) == IF a \in DOMAIN st THEN st[a] ELSE InitBalance

\* The accounts that the last map takes from the shard.
accountToFetch(s) ==
  LET m == Maps[received[s]]
  IN {a \in DOMAIN m : m[a] # s /\ PartitionMap[s][a] = s}

\* The account whose move takes a transaction along: the recipient of one that
\* was debited already, the sender of any other.
travelsWith(tx) == IF tx.Relayed THEN Recipient[tx.id] ELSE Sender[tx.id]

\* What sendAccounts_and_Txs has for shard i.
accountMsg(s, i) ==
  LET addrs == {a \in accountToFetch(s) : Maps[received[s]][a] = i}
  IN [from |-> s, to |-> i, epoch |-> received[s],
      AccountState |-> [a \in addrs |-> BalanceOf(trie[s], a)],
      Txs |-> filter(TxQueue[s], {tx \in Range(TxQueue[s]) : travelsWith(tx) \in addrs})]

\* The transactions of the data file come within a second, and a leader waits
\* for 6 s between a map and its partition: none is on its way any more.
injectedInTime(s) == \A m \in injectNet : m.to # s

\* HandleinPropose while a partition is on, first part: accounts and the
\* transactions that go with them are sent to the leaders of their new shards,
sendAccounts_and_Txs(s) ==
  /\ request[s] = Idle /\ PartitionOn(s) /\ injectedInTime(s)
  /\ accountNet' = accountNet \cup {accountMsg(s, i) : i \in Shards \ {s}}
  /\ TxQueue' = [TxQueue EXCEPT ![s] =
                   filter(@, {tx \in Range(@) : travelsWith(tx) \notin accountToFetch(s)})]
  /\ request' = [request EXCEPT ![s] = [kind |-> "sent"]]
  /\ UNCHANGED <<committeeVars, chainVars, dataVars, injectNet, relayNet, history>>

\* ModifiedMap[round][a], which is 0 for an account the map does not mention.
newShard(s, a) ==
  LET m == Maps[AccountTransferRound[s] + 1]
  IN IF a \in DOMAIN m THEN m[a] ELSE 0

\* The shards that have sent something for the next partition.
collected(s) == DOMAIN AccountStateTx[s]

\* ReceivedNewTx: the transactions of all of them.
ReceivedNewTx(s) ==
  LET upTo[i \in 0 .. ShardNums] ==
        IF i = 0 THEN <<>>
        ELSE IF i - 1 \in collected(s) THEN upTo[i - 1] \o AccountStateTx[s][i - 1].Txs
        ELSE upTo[i - 1]
  IN upTo[ShardNums]

\* Mutant of validTxs: those that do not belong here by the map in force.
validTxsOldMap(s) ==
  filter(ReceivedNewTx(s),
         {tx \in Range(ReceivedNewTx(s)) : PartitionMap[s][travelsWith(tx)] = s})

\* ReceivedNewTx without those that do not belong here by the new map.
validTxs(s) ==
  filter(ReceivedNewTx(s),
         {tx \in Range(ReceivedNewTx(s)) : newShard(s, travelsWith(tx)) = s})

\* ReceivedNewAccountState: one of the states sent for each account.
newAccountStates(s) ==
  LET addrs == UNION {DOMAIN AccountStateTx[s][i].AccountState : i \in collected(s)}
  IN {[a \in addrs |-> AccountStateTx[s][src[a]].AccountState[a]] :
        src \in {f \in [addrs -> collected(s)] :
                   \A a \in addrs : a \in DOMAIN AccountStateTx[s][f[a]].AccountState}}

\* second part: proposePartition with what has come by now (CollectOver is not
\* asked).
proposePartition(s) ==
  /\ request[s].kind = "sent"
  /\ \E states \in newAccountStates(s) :
       request' = [request EXCEPT ![s] =
                     [kind |-> "partition", map |-> Maps[AccountTransferRound[s] + 1],
                      ATid |-> received[s], AccountState |-> states]]
  /\ AddTxs2Pool(s, validTxs(s))
  /\ UNCHANGED <<committeeVars, chainVars, dataVars, netVars, history>>

-----------------------------------------------------------------------------
(***************************************************************************)
(* Committing.                                                             *)
(***************************************************************************)

\* What a block has done so far: the balances and the two counts.
debitOf(s, st, tx) ==
  IF tx.Relayed \/ PartitionMap[s][Sender[tx.id]] # s THEN st
  ELSE [st EXCEPT !.trie = put(@, Sender[tx.id], BalanceOf(@, Sender[tx.id]) - Value[tx.id]),
                  !.debits[tx.id] = @ + 1]

creditOf(s, st, tx) ==
  IF PartitionMap[s][Recipient[tx.id]] # s THEN st
  ELSE [st EXCEPT !.trie = put(@, Recipient[tx.id], BalanceOf(@, Recipient[tx.id]) + Value[tx.id]),
                  !.credits[tx.id] = @ + 1]

\* A sender that has not got the money: the transaction is passed over.
unfunded(s, st, tx) ==
  /\ ~tx.Relayed /\ PartitionMap[s][Sender[tx.id]] = s
  /\ BalanceOf(st.trie, Sender[tx.id]) < Value[tx.id]

\* Mutant of execute: a relayed transaction debits its sender again.
executeRelayedAgain(s, st, tx) ==
  creditOf(s, debitOf(s, st, [tx EXCEPT !.Relayed = FALSE]), tx)

\* One transaction in GetUpdateStatusTrie.
execute(s, st, tx) ==
  IF unfunded(s, st, tx) THEN st ELSE creditOf(s, debitOf(s, st, tx), tx)

\* GetUpdateStatusTrie.
GetUpdateStatusTrie(s, txs) ==
  LET after[i \in 0 .. Len(txs)] ==
        IF i = 0 THEN [trie |-> trie[s], debits |-> debits, credits |-> credits]
        ELSE execute(s, after[i - 1], txs[i])
  IN after[Len(txs)]

\* The relay pool of a block for shard i.
RelayPool(s, txs, i) ==
  LET out == filter(txs, {tx \in Range(txs) : PartitionMap[s][Recipient[tx.id]] = i})
  IN [k \in DOMAIN out |-> [out[k] EXCEPT !.Relayed = TRUE]]

\* TxProofBatchGenerateOnBlock: a proof of each transaction in the tree of the
\* block's transactions.
TxProofBatchGenerateOnBlock(txs, block) ==
  {[Found |-> tx.id \in {b.id : b \in Range(block)},
    tx |-> tx.id, TxRoot |-> {b.id : b \in Range(block)}] : tx \in Range(txs)}

\* RelayMsgSend and RelayWithProofSend; a message with nothing in it changes
\* nothing where it arrives, and is left out.
RelayMsgSend(s, txs) ==
  {[to |-> i, txs |-> RelayPool(s, txs, i),
    TxProofs |-> IF RelayWithMerkleProof
                 THEN TxProofBatchGenerateOnBlock(RelayPool(s, txs, i), txs) ELSE {}] :
     i \in {j \in Shards \ {s} : RelayPool(s, txs, j) # <<>>}}

\* HandleinCommit of a block: AddBlock, and the leader relays what has a
\* recipient in another shard.
HandleinCommit(s) ==
  LET st == GetUpdateStatusTrie(s, request[s].txs)
  IN /\ request[s].kind = "block"
     /\ trie' = [trie EXCEPT ![s] = st.trie]
     /\ debits' = st.debits /\ credits' = st.credits
     /\ relayNet' = relayNet \cup RelayMsgSend(s, request[s].txs)
     /\ request' = [request EXCEPT ![s] = Idle]
     /\ UNCHANGED <<committeeVars, PartitionMap, dataVars, TxQueue, injectNet,
                    accountNet, reset, late>>

\* Mutant of AddAccounts: an account the shard has seen before keeps its record.
AddAccountsOnce(s, map, states) ==
  putAll(Restrict(states, {a \in DOMAIN states : map[a] = s}), trie[s])

\* AddAccounts: of the accounts in the request those that are now here.
AddAccounts(s, map, states) ==
  putAll(trie[s], Restrict(states, {a \in DOMAIN states : map[a] = s}))

\* HandleinCommit of a partition: accountTransfer_do.
accountTransfer_do(s) ==
  LET r   == request[s]
      map == putAll(PartitionMap[s], r.map)
  IN /\ r.kind = "partition"
     /\ PartitionMap' = [PartitionMap EXCEPT ![s] = map]
     /\ trie' = [trie EXCEPT ![s] = AddAccounts(s, map, r.AccountState)]
     /\ AccountTransferRound' = [AccountTransferRound EXCEPT ![s] = r.ATid]
     /\ AccountStateTx' = [AccountStateTx EXCEPT ![s] = EmptyMap]
     /\ request' = [request EXCEPT ![s] = Idle]
     /\ reset' = reset \cup {a \in Accounts : /\ map[a] = s /\ PartitionMap[s][a] # s
                                             /\ a \notin DOMAIN r.AccountState}
     /\ UNCHANGED <<committeeVars, received, TxQueue, netVars, debits, credits, late>>

-----------------------------------------------------------------------------

Init ==
  /\ unsent = Txs /\ epoch = 0 /\ modifiedMap = Addr2Shard
  /\ received = [s \in Shards |-> 0] /\ AccountTransferRound = [s \in Shards |-> 0]
  /\ PartitionMap = [s \in Shards |-> Addr2Shard]
  /\ trie = [s \in Shards |-> EmptyMap]
  /\ TxQueue = [s \in Shards |-> <<>>]
  /\ AccountStateTx = [s \in Shards |-> EmptyMap]
  /\ request = [s \in Shards |-> Idle]
  /\ injectNet = {} /\ relayNet = {} /\ accountNet = {}
  /\ debits = [t \in Txs |-> 0] /\ credits = [t \in Txs |-> 0]
  /\ reset = {} /\ late = {}

Deliver ==
  \/ \E m \in injectNet : handleInjectTx(m)
  \/ \E m \in relayNet : handleRelay(m)
  \/ \E m \in accountNet : handleAccountStateAndTxMsg(m)
  \/ \E s \in Shards : handlePartitionMsg(s)

ShardStep(s) ==
  \/ GenerateBlock(s)
  \/ HandleinCommit(s)
  \/ sendAccounts_and_Txs(s)
  \/ proposePartition(s)
  \/ accountTransfer_do(s)

Next ==
  \/ \E t \in Txs : txSending(t)
  \/ clpaMapSend
  \/ Deliver
  \/ \E s \in Shards : ShardStep(s)

Spec == Init /\ [][Next]_vars

\* Messages arrive, and a shard goes on with its requests.
FairSpec ==
  /\ Spec
  /\ WF_vars(clpaMapSend) /\ WF_vars(\E t \in Txs : txSending(t))
  /\ \A s \in Shards :
       /\ WF_vars(ShardStep(s))
       /\ WF_vars(handlePartitionMsg(s))
       /\ WF_vars(\E m \in injectNet : m.to = s /\ handleInjectTx(m))
       /\ WF_vars(\E m \in relayNet : m.to = s /\ handleRelay(m))
       /\ WF_vars(\E m \in accountNet : m.to = s /\ handleAccountStateAndTxMsg(m))

-----------------------------------------------------------------------------
(***************************************************************************)
(* Properties.                                                             *)
(***************************************************************************)

\* The fields of the committee, of a shard's leader and of the messages keep
\* their types; the balance of an account never falls below zero.
TypeOK ==
  /\ unsent \subseteq Txs /\ epoch \in 0 .. Len(Maps)
  /\ modifiedMap \in [Accounts -> Shards]
  /\ received \in [Shards -> 0 .. epoch] /\ AccountTransferRound \in [Shards -> 0 .. epoch]
  /\ PartitionMap \in [Shards -> [Accounts -> Shards]]
  /\ \A s \in Shards : DOMAIN trie[s] \subseteq Accounts /\ Range(trie[s]) \subseteq Nat
  /\ \A s \in Shards :
       /\ Range(TxQueue[s]) \subseteq [id : Txs, Relayed : BOOLEAN]
       /\ request[s].kind \in {"none", "block", "sent", "partition"}
  /\ debits \in [Txs -> Nat] /\ credits \in [Txs -> Nat]

\* A transaction takes the money from its sender once and gives it to its
\* recipient once, in this order, whatever shards it is relayed to or moved
\* between, and also where HandleinCommit lets one pass whose account has moved.
\* The order can fail for one that was moved and came late (lostBy): newShard is
\* 0 for an account the next map does not mention, so shard 0 takes such a
\* transaction, and it relays or credits what it cannot debit.
PaidOnce ==
  \A t \in Txs : /\ debits[t] <= 1 /\ credits[t] <= 1
                 /\ t \in late \/ credits[t] <= debits[t]

\* What the account should have, when d and c count the debits and the credits,
\* and what it should have by the transactions executed so far.
valueOf(count) == [t \in Txs |-> count[t] * Value[t]]

expectedBy(d, c, a) ==
  InitBalance + SumFunctionOnSet(valueOf(c), {t \in Txs : Recipient[t] = a})
              - SumFunctionOnSet(valueOf(d), {t \in Txs : Sender[t] = a})

expected(a) == expectedBy(debits, credits, a)

\* The shard that answers for the account: while a partition is under way two
\* may hold it, and the one that has executed the partition counts.
owns(s, a) ==
  /\ PartitionMap[s][a] = s
  /\ \A i \in Shards : PartitionMap[i][a] = i => AccountTransferRound[i] <= AccountTransferRound[s]

balanceRight(a) == \A s \in Shards : owns(s, a) => BalanceOf(trie[s], a) = expected(a)

\* FetchAccounts, AddAccounts and the blocks keep the balance of an account
\* that moves: no shard debits it after it was sent, an older record of a shard
\* the account comes back to is replaced, and only an account whose state was
\* late (AccountStateTx at proposePartition) can be wrong.
BalanceKept == \A a \in Accounts \ reset : balanceRight(a)

\* "leaders send the infos about the accounts to be transferred to other
\* leaders, and handle them" (accountTransfer_module.go): an account that moves
\* keeps its balance.
AccountsHandled == \A a \in Accounts : balanceRight(a)

\* Every transaction of the data file is credited in the end, however often
\* its recipient moves while it is relayed, unless it was moved with an account
\* and its new shard had proposed the partition before it came.
Delivered == \A t \in Txs : <>(credits[t] = 1 \/ t \in late)

-----------------------------------------------------------------------------
(***************************************************************************)
(* What holds of the transactions that are under way: the parts of the     *)
(* inductive invariant from which PaidOnce is proved.                      *)
(***************************************************************************)

TxRec == [id : Txs, Relayed : BOOLEAN]

AccountStates == UNION {[A -> Nat] : A \in SUBSET Accounts}

AccountMsgs ==
  [from : Shards, to : Shards, epoch : Nat, AccountState : AccountStates, Txs : Seq(TxRec)]

Requests ==
  {Idle, [kind |-> "sent"]} \cup [kind : {"block"}, txs : Seq(TxRec)]
  \cup [kind : {"partition"}, map : {Maps[i] : i \in 1 .. Len(Maps)}, ATid : Nat,
        AccountState : AccountStates]

\* The types of what TypeOK leaves open.
MessagesOK ==
  /\ DOMAIN trie = Shards /\ \A s \in Shards : trie[s] \in AccountStates
  /\ TxQueue \in [Shards -> Seq(TxRec)]
  /\ request \in [Shards -> Requests]
  /\ injectNet \subseteq [to : Shards, tx : Txs]
  /\ \A m \in relayNet :
       m.to \in Shards /\ m.txs \in Seq(TxRec) /\ \A x \in Range(m.txs) : x.Relayed
  /\ accountNet \subseteq AccountMsgs
  /\ DOMAIN AccountStateTx = Shards
  /\ \A s \in Shards : /\ collected(s) \subseteq Shards
                       /\ \A i \in collected(s) : /\ AccountStateTx[s][i] \in AccountMsgs
                                                  /\ AccountStateTx[s][i].from = i
                                                  /\ AccountStateTx[s][i].to = s

\* From its proposal to its execution a shard is at the partition of the last
\* map, which is the next one for it.
moving(s) == request[s].kind \in {"sent", "partition"}

MapsInStep ==
  \A s \in Shards :
    /\ AccountTransferRound[s] <= received[s] /\ epoch <= AccountTransferRound[s] + 1
    /\ moving(s) => received[s] = AccountTransferRound[s] + 1
    /\ request[s].kind = "partition" =>
         request[s].ATid = received[s] /\ request[s].map = Maps[received[s]]
    /\ modifiedMap = IF AccountTransferRound[s] = epoch THEN PartitionMap[s]
                     ELSE putAll(PartitionMap[s], Maps[epoch])

\* The transactions a shard has: those of its block and those that wait.
own(s) == (IF request[s].kind = "block" THEN request[s].txs ELSE <<>>) \o TxQueue[s]

\* The messages of the other shards that are still to be taken over.
held == UNION {{AccountStateTx[s][i] : i \in collected(s)} :
                 s \in {r \in Shards : request[r].kind # "partition"}}

\* Where transactions are: with a shard, relayed, moved, or moved and arrived.
place(at, of, txs) == [at |-> at, of |-> of, txs |-> txs]

places ==
  {place("own", s, own(s)) : s \in Shards} \cup {place("relay", m, m.txs) : m \in relayNet}
  \cup {place("net", m, m.Txs) : m \in accountNet} \cup {place("held", m, m.Txs) : m \in held}

\* The transactions that no shard has seen.
outside == unsent \cup {m.tx : m \in injectNet}

ids(q) == {x.id : x \in Range(q)}

distinct(q) == \A i, j \in DOMAIN q : q[i].id = q[j].id => i = j

\* Each transaction is in one place, and there once.
single(P, O) ==
  /\ \A p \in P : distinct(p.txs) /\ ids(p.txs) \cap O = {}
  /\ \A p, q \in P : p # q => ids(p.txs) \cap ids(q.txs) = {}

\* A transaction is with the committee, in one message, in one pool or in one
\* block, and there once: PackTxs, the relay pools of HandleinCommit and the
\* account messages hand it on and keep no copy, whatever epochs they meet in.
OnePlace ==
  /\ \A m, n \in injectNet : m.tx = n.tx => m = n
  /\ \A m \in injectNet : m.tx \notin unsent
  /\ single(places, outside)

\* A transaction that is somewhere is not credited, and debited at most if it
\* is a relayed one.
Counted ==
  /\ \A t \in Txs : debits[t] <= 1 /\ credits[t] <= 1
  /\ \A t \in outside : debits[t] = 0 /\ credits[t] = 0
  /\ \A p \in places : \A x \in Range(p.txs) :
       credits[x.id] = 0 /\ (~x.Relayed => debits[x.id] = 0)

\* The map a shard's next block goes by.
mapOf(s) ==
  IF moving(s) THEN putAll(PartitionMap[s], Maps[received[s]]) ELSE PartitionMap[s]

\* A message of accounts goes to where its map sends them.
byItsMap(m) ==
  /\ m.epoch \in 1 .. Len(Maps) /\ m.epoch <= epoch
  /\ \A x \in Range(m.Txs) : /\ travelsWith(x) \in DOMAIN Maps[m.epoch]
                             /\ Maps[m.epoch][travelsWith(x)] = m.to

\* A transaction that was not debited is with the shard of its sender, or on
\* its way there, unless it came late.
InjectedHome ==
  \A m \in injectNet : ~moving(m.to) /\ PartitionMap[m.to][Sender[m.tx]] = m.to

OwnHome ==
  \A s \in Shards : \A x \in Range(own(s)) :
    ~x.Relayed /\ x.id \notin late => mapOf(s)[Sender[x.id]] = s

HeldInTime ==
  \A m \in held : m.epoch = AccountTransferRound[m.to] + 1 \/ ids(m.Txs) \subseteq late

Routed ==
  /\ InjectedHome /\ OwnHome /\ HeldInTime
  /\ \A m \in accountNet \cup held : byItsMap(m)

\* A relayed transaction was debited, unless it came late.
DebitedFirst ==
  /\ \A t \in Txs \ late : credits[t] <= debits[t]
  /\ \A p \in places : \A x \in Range(p.txs) :
       x.Relayed /\ x.id \notin late => debits[x.id] = 1

\* No transaction is of more than v, and InitBalance is enough for all of them.
EnoughMoney(v) ==
  /\ IsFiniteSet(Txs) /\ \A t \in Txs : Value[t] <= v
  /\ v * Cardinality(Txs) <= InitBalance

\* What an account has left of InitBalance, when no transaction is of more than
\* v and d counts the debits.
spent(d, a) == {t \in Txs : Sender[t] = a /\ d[t] # 0}

fundsLeft(d, v, balances) ==
  \A a \in DOMAIN balances : balances[a] + v * Cardinality(spent(d, a)) >= InitBalance

Funded(v) ==
  /\ \A s \in Shards : fundsLeft(debits, v, trie[s])
  /\ \A m \in accountNet : fundsLeft(debits, v, m.AccountState)
  /\ \A s \in Shards : \A i \in collected(s) :
       fundsLeft(debits, v, AccountStateTx[s][i].AccountState)
  /\ \A s \in Shards : request[s].kind = "partition" =>
       fundsLeft(debits, v, request[s].AccountState)

-----------------------------------------------------------------------------
(***************************************************************************)
(* Where the balance of an account is: the parts of the inductive          *)
(* invariant from which BalanceKept is proved.                             *)
(***************************************************************************)

\* Shards that have executed the same partitions have the same map.
SameMaps ==
  \A s, i \in Shards :
    AccountTransferRound[s] = AccountTransferRound[i] => PartitionMap[s] = PartitionMap[i]

\* A balance on its way to shard i: it is what the account should have, the
\* shard has not taken the account over, and one that still holds the account
\* executes no block before it gives the account up.
onItsWay(a, i, balance) ==
  /\ modifiedMap[a] = i /\ PartitionMap[i][a] # i
  /\ balance = expected(a)
  /\ \A s \in Shards : PartitionMap[s][a] = s => moving(s)

inNet(a, m) == m \in accountNet /\ a \in DOMAIN m.AccountState
inStore(a, s, i) == i \in collected(s) /\ a \in DOMAIN AccountStateTx[s][i].AccountState
inRequest(a, s) == request[s].kind = "partition" /\ a \in DOMAIN request[s].AccountState

CopiesRight(a) ==
  /\ \A m \in accountNet : inNet(a, m) => onItsWay(a, m.to, m.AccountState[a])
  /\ \A s, i \in Shards :
       inStore(a, s, i) => onItsWay(a, s, AccountStateTx[s][i].AccountState[a])
  /\ \A s \in Shards : inRequest(a, s) => onItsWay(a, s, request[s].AccountState[a])

\* A balance in a message is nowhere else.
OneCopy(a) ==
  \A m \in accountNet : inNet(a, m) =>
    /\ \A n \in accountNet : inNet(a, n) => n = m
    /\ \A i \in Shards : ~inStore(a, m.to, i)
    /\ ~inRequest(a, m.to)

\* A shard that still holds an account which another one has taken over has
\* proposed the partition.
HandedOver(a) ==
  \A s, i \in Shards :
    /\ PartitionMap[s][a] = s /\ PartitionMap[i][a] = i
    /\ AccountTransferRound[s] < AccountTransferRound[i]
    => moving(s)

AccountKept(a) == balanceRight(a) /\ HandedOver(a) /\ CopiesRight(a) /\ OneCopy(a)

\* The accounts whose state came in time.
Balanced == SameMaps /\ \A a \in Accounts \ reset : AccountKept(a)

=============================================================================
