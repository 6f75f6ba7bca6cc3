------------------------------- MODULE Broker -------------------------------
(***************************************************************************)
(* The supervisor with its broker committee: it sends the transactions of  *)
(* the data file, splits a cross-shard one into a leg from the sender to a *)
(* broker and a leg from the broker to the recipient, follows the legs by  *)
(* the block reports of the shards, counts them, and stops the system      *)
(* after enough empty reports in a row (supervisor.go, signal/,            *)
(* committee_broker.go, broker.go, measure/; pbftInside_moduleBroker.go    *)
(* and pbftOutside_moduleBroker.go at the nodes).                          *)
(*                                                                         *)
(* Two goroutines of the supervisor run at the same time: the sender       *)
(* (SupervisorTxHandling) and the handlers of its messages, which tcpLock  *)
(* lets in one at a time.  A shard is its leader, which packs a block,     *)
(* commits it and reports it in one step; what goes on inside a shard is   *)
(* in module Pbft.  The epoch is always 0, as no account moves.  Each      *)
(* transaction is injected by a message of its own (InjectSpeed = 1).      *)
(***************************************************************************)
EXTENDS Integers, SequencesExt, FiniteSetsExt

CONSTANTS
  ShardNums,         \* the shards are 0 .. ShardNums - 1
  Accounts,
  BrokerAddress,     \* the brokers, the first one being the one in use
  Rows,              \* the transactions of the data file, in its order
  Sender, Recipient, \* their accounts
  Addr2Shard,
  dataTotalNums,     \* how many transactions the configuration may ask for
  batchDataNum,
  BlockSize

Shards == 0 .. ShardNums - 1
Txs == Range(Rows)

ASSUME BrokerAssumption ==
  /\ ShardNums \in Nat \ {0} /\ batchDataNum \in Nat \ {0} /\ BlockSize \in Nat \ {0}
  /\ Len(BrokerAddress) > 0 /\ Range(BrokerAddress) \subseteq Accounts
  /\ Rows \in Seq(Txs) /\ BrokerAddress \in Seq(Accounts)
  /\ IsInjective(Rows) /\ dataTotalNums \subseteq Nat \ {0}
  /\ Sender \in [Txs -> Accounts] /\ Recipient \in [Txs -> Accounts]
  /\ \A t \in Txs : Sender[t] # Recipient[t]
  /\ Addr2Shard \in [Accounts -> Shards]

VARIABLES
  dataTotalNum,       \* the one it asks for
  inSync,             \* the shards make their blocks at the same pace
  \* the sender: rows read, where it is, and what dealTxByBroker left to send
  nowDataNum, pc, itx,
  \* the broker's books
  BrokerRawMegs, brokerConfirm1Pool, brokerConfirm2Pool, RawTx2BrokerTx,
  \* the handlers that have taken a report and are not through with it
  handling,
  stopGap,
  \* what the measure modules have counted
  broker1TxNum, broker2TxNum, normalTxNum, brokerTxMap,
  missing,            \* "Missing a broker1 tx." was printed
  \* the shards and the messages
  TxQueue, injectNet, reportNet, emptyReports,
  reported,           \* shards that have made a block in this round
  \* history: how often a transaction was debited and credited
  debits, credits

senderVars == <<nowDataNum, pc, itx>>
brokerVars == <<BrokerRawMegs, brokerConfirm1Pool, brokerConfirm2Pool, RawTx2BrokerTx>>
measureVars == <<broker1TxNum, broker2TxNum, normalTxNum, brokerTxMap, missing>>
shardVars == <<TxQueue, reported, debits, credits>>
netVars == <<injectNet, reportNet, emptyReports>>
config == <<dataTotalNum, inSync>>
vars == <<config, senderVars, brokerVars, handling, stopGap, measureVars, shardVars, netVars>>

-----------------------------------------------------------------------------
(***************************************************************************)
(* Transactions: leg 0 is one of the data file, legs 1 and 2 are its       *)
(* broker transactions.  n tells several second legs apart, which have     *)
(* hashes of their own.                                                    *)
(***************************************************************************)

Broker == BrokerAddress[1]

IsBroker(a) == a \in Range(BrokerAddress)

NewTransaction(t, leg, n) == [raw |-> t, leg |-> leg, n |-> n]

SenderOf(x)    == IF x.leg = 2 THEN Broker ELSE Sender[x.raw]
RecipientOf(x) == IF x.leg = 1 THEN Broker ELSE Recipient[x.raw]

\* RawTxHash is set, and OriginalSender and FinalRecipient are those of the
\* transaction of the data file.
isBroker1Tx(x) == x.leg # 0 /\ SenderOf(x) = Sender[x.raw]
isBroker2Tx(x) == x.leg # 0 /\ RecipientOf(x) = Recipient[x.raw]

\* dealTxByBroker sets it for those it does not split.
HasBroker(x) == x.leg = 0 /\ (IsBroker(SenderOf(x)) \/ IsBroker(RecipientOf(x)))

\* A transaction that dealTxByBroker splits.
isCross(t) ==
  /\ Addr2Shard[Sender[t]] # Addr2Shard[Recipient[t]]
  /\ ~IsBroker(Sender[t]) /\ ~IsBroker(Recipient[t])

\* txSending: to the shard of the sender, or of the recipient if a broker sends.
txSending(txs) ==
  {[to |-> Addr2Shard[IF IsBroker(SenderOf(x)) THEN RecipientOf(x) ELSE SenderOf(x)],
    tx |-> x] : x \in txs}

-----------------------------------------------------------------------------
(***************************************************************************)
(* The sender.                                                             *)
(***************************************************************************)

\* The rows of the next batch: a full one, or what is left to dataTotalNum.
nextBatch ==
  LET upto == Min({nowDataNum + batchDataNum, dataTotalNum})
  IN {Rows[i] : i \in nowDataNum + 1 .. upto}

\* handleBrokerRawMag and handleBrokerType1Mes enter a cross-shard transaction
\* into the books, ...
handleBrokerRawMag(cross) == BrokerRawMegs' = BrokerRawMegs \cup cross

handleBrokerType1Mes(cross) ==
  brokerConfirm1Pool' = brokerConfirm1Pool \cup {NewTransaction(t, 1, 1) : t \in cross}

\* MsgSendingControl reads a batch and dealTxByBroker deals with it; ...
dealTxByBroker ==
  /\ pc = "read"
  /\ nowDataNum + batchDataNum <= Len(Rows) \/ dataTotalNum <= Len(Rows)
  /\ LET cross == {t \in nextBatch : isCross(t)}
     IN /\ handleBrokerRawMag(cross) /\ handleBrokerType1Mes(cross)
        /\ itx' = nextBatch
  /\ nowDataNum' = nowDataNum + Cardinality(nextBatch)
  /\ pc' = "sendTx1"
  /\ UNCHANGED <<config, brokerConfirm2Pool, RawTx2BrokerTx, handling, stopGap,
                 measureVars, shardVars, netVars>>

\* Mutant of endOfFile: it is passed over like a row that is no transaction.
endOfFileAgain ==
  /\ pc = "read"
  /\ nowDataNum + batchDataNum > Len(Rows) /\ dataTotalNum > Len(Rows)
  /\ UNCHANGED vars

\* ... the end of the file comes first: a batch that is not full is not sent.
endOfFile ==
  /\ pc = "read"
  /\ nowDataNum + batchDataNum > Len(Rows) /\ dataTotalNum > Len(Rows)
  /\ pc' = "wait"
  /\ UNCHANGED <<config, nowDataNum, itx, brokerVars, handling, stopGap, measureVars,
                 shardVars, netVars>>

\* ... handleBrokerType1Mes sends the first legs, ...
sendTx1s ==
  /\ pc = "sendTx1"
  /\ injectNet' = injectNet \cup txSending({NewTransaction(t, 1, 1) : t \in {u \in itx : isCross(u)}})
  /\ pc' = "sendRest"
  /\ UNCHANGED <<config, nowDataNum, itx, brokerVars, handling, stopGap, measureVars,
                 shardVars, reportNet, emptyReports>>

\* Mutant of sendRest: the whole batch.
sendRestAll ==
  /\ pc = "sendRest"
  /\ injectNet' = injectNet \cup txSending({NewTransaction(t, 0, 1) : t \in itx})
  /\ pc' = "reset"
  /\ UNCHANGED <<config, nowDataNum, itx, brokerVars, handling, stopGap, measureVars,
                 shardVars, reportNet, emptyReports>>

\* ... and MsgSendingControl the transactions that were not split.
sendRest ==
  /\ pc = "sendRest"
  /\ injectNet' = injectNet \cup txSending({NewTransaction(t, 0, 1) : t \in {u \in itx : ~isCross(u)}})
  /\ pc' = "reset"
  /\ UNCHANGED <<config, nowDataNum, itx, brokerVars, handling, stopGap, measureVars,
                 shardVars, reportNet, emptyReports>>

\* The end of a batch.
StopGap_Reset ==
  /\ pc = "reset"
  /\ stopGap' = 0 /\ itx' = {}
  /\ pc' = IF nowDataNum = dataTotalNum THEN "wait" ELSE "read"
  /\ UNCHANGED <<config, nowDataNum, brokerVars, handling, measureVars, shardVars, netVars>>

\* Mutant of stopThreshold: one empty report of each shard.
stopThresholdOnce == ShardNums

\* The threshold NewSupervisor gives to NewStopSignal.
stopThreshold == 3 * ShardNums

\* Bound: no more empty reports are made than one past the threshold.
MaxGap == stopThreshold + 1

GapEnough == stopGap >= stopThreshold

\* SupervisorTxHandling sends the stop messages; the nodes and the supervisor
\* close.
stop ==
  /\ pc = "wait" /\ GapEnough
  /\ pc' = "stopped"
  /\ UNCHANGED <<config, nowDataNum, itx, brokerVars, handling, stopGap, measureVars,
                 shardVars, netVars>>

running == pc # "stopped"

-----------------------------------------------------------------------------
(***************************************************************************)
(* A shard.                                                                *)
(***************************************************************************)

handleInjectTx(m) ==
  /\ running /\ m \in injectNet
  /\ injectNet' = injectNet \ {m}
  /\ TxQueue' = [TxQueue EXCEPT ![m.to] = Append(@, m.tx)]
  /\ UNCHANGED <<config, senderVars, brokerVars, handling, stopGap, measureVars,
                 reported, debits, credits, reportNet, emptyReports>>

PackTxs(s) == SubSeq(TxQueue[s], 1, Min({Len(TxQueue[s]), BlockSize}))

\* GetUpdateStatusTrie: what a block does to the two accounts of a transaction
\* of the data file.
debited(s, x) ==
  ~isBroker2Tx(x) /\ (Addr2Shard[SenderOf(x)] = s \/ HasBroker(x))

credited(s, x) ==
  ~isBroker1Tx(x) /\ (Addr2Shard[RecipientOf(x)] = s \/ HasBroker(x))

\* How often the block does one of the two to t.
times(Did(_, _), s, t, body) ==
  Cardinality({i \in DOMAIN body : body[i].raw = t /\ Did(s, body[i])})

\* HandleinCommit: the block is sorted into the three lists of its report.
BlockInfo(s, body) ==
  LET txs == Range(body)
  IN [from |-> s, Broker2Txs |-> {x \in txs : isBroker2Tx(x)},
      Broker1Txs |-> {x \in txs : isBroker1Tx(x) /\ ~isBroker2Tx(x)},
      InnerShardTxs |-> {x \in txs : ~isBroker1Tx(x) /\ ~isBroker2Tx(x)}]

\* Mutant of sendReport: a node that is no longer leader reports as well.
sendReportTwice(s, body) ==
  reportNet' = reportNet \cup {BlockInfo(s, body), [BlockInfo(s, body) EXCEPT !.from = -1]}

\* The leader of the shard reports the block.
sendReport(s, body) == reportNet' = reportNet \cup {BlockInfo(s, body)}

\* The pace: one block of each shard in a round, if they are in sync.
inTurn(s) == inSync => s \notin reported

\* GenerateBlock and HandleinCommit of a block with transactions, ...
HandleinCommit(s) ==
  /\ running /\ TxQueue[s] # <<>> /\ inTurn(s)
  /\ LET body == PackTxs(s)
     IN /\ TxQueue' = [TxQueue EXCEPT ![s] = SubSeq(@, Len(body) + 1, Len(@))]
        /\ debits' = [t \in Txs |-> debits[t] + times(debited, s, t, body)]
        /\ credits' = [t \in Txs |-> credits[t] + times(credited, s, t, body)]
        /\ sendReport(s, body)
  /\ reported' = IF inSync THEN reported \cup {s} ELSE {}
  /\ UNCHANGED <<config, senderVars, brokerVars, handling, stopGap, measureVars,
                 injectNet, emptyReports>>

\* ... and of an empty one.
HandleinCommitEmpty(s) ==
  /\ running /\ TxQueue[s] = <<>> /\ inTurn(s)
  /\ stopGap + emptyReports < MaxGap
  /\ emptyReports' = emptyReports + 1
  /\ reported' = IF inSync THEN reported \cup {s} ELSE {}
  /\ UNCHANGED <<config, senderVars, brokerVars, handling, stopGap, measureVars,
                 TxQueue, debits, credits, injectNet, reportNet>>

\* In sync, what was sent arrives and is handled before the next blocks are
\* made: the pace is Block_Interval, which is several seconds where a message
\* takes milliseconds and the handler of a report with confirmations one second.
nextRound ==
  /\ running /\ inSync
  /\ \A s \in Shards \ reported : TxQueue[s] = <<>> /\ stopGap = MaxGap
  /\ injectNet = {} /\ reportNet = {} /\ emptyReports = 0 /\ handling = {}
  /\ reported # {}
  /\ reported' = {}
  /\ UNCHANGED <<config, senderVars, brokerVars, handling, stopGap, measureVars,
                 TxQueue, debits, credits, netVars>>

-----------------------------------------------------------------------------
(***************************************************************************)
(* The handlers of the supervisor.                                         *)
(***************************************************************************)

\* Mutant of StopGap_Inc: the committee counts the empty block as well.
StopGap_IncTwice ==
  /\ running /\ handling = {} /\ emptyReports > 0
  /\ emptyReports' = emptyReports - 1
  /\ stopGap' = stopGap + 2
  /\ UNCHANGED <<config, senderVars, brokerVars, handling, measureVars, shardVars,
                 injectNet, reportNet>>

\* The handlers run under tcpLock.
tcpLockFree == handling = {}

\* handleBlockInfos of an empty block.
StopGap_Inc ==
  /\ running /\ tcpLockFree /\ emptyReports > 0
  /\ emptyReports' = emptyReports - 1
  /\ stopGap' = stopGap + 1
  /\ UNCHANGED <<config, senderVars, brokerVars, handling, measureVars, shardVars,
                 injectNet, reportNet>>

\* createConfirm: the legs of the report that are in the books.
createConfirm(r) ==
  LET txs == r.Broker1Txs \cup r.Broker2Txs
  IN [confirm1s |-> txs \cap brokerConfirm1Pool, confirm2s |-> txs \cap brokerConfirm2Pool]

\* The second leg for a first one that was confirmed.
tx2Of(x) == NewTransaction(x.raw, 2, Len(RawTx2BrokerTx[x.raw]) + 1)

\* handleTx1ConfirmMag of those whose raw message is known, ...
handleTx1ConfirmMag(confirm1s) ==
  LET known == {x \in confirm1s : x.raw \in BrokerRawMegs}
  IN RawTx2BrokerTx' = [t \in Txs |->
       IF \E x \in known : x.raw = t
       THEN Append(RawTx2BrokerTx[t], CHOOSE x \in known : x.raw = t) ELSE RawTx2BrokerTx[t]]

\* ... and their second legs by handleBrokerType2Mes.
newTx2s(confirm1s) == {tx2Of(x) : x \in {y \in confirm1s : y.raw \in BrokerRawMegs}}

\* Mutant of handleBlockInfos: the handlers run side by side.
handleBlockInfosUnlocked(r) ==
  /\ running /\ r \in reportNet
  /\ reportNet' = reportNet \ {r}
  /\ stopGap' = 0
  /\ LET confirms == createConfirm(r)
     IN /\ handleTx1ConfirmMag(confirms.confirm1s)
        /\ brokerConfirm2Pool' = brokerConfirm2Pool \cup newTx2s(confirms.confirm1s)
        /\ handling' = handling \cup {[report |-> r, tx2s |-> newTx2s(confirms.confirm1s),
                                       confirm2s |-> confirms.confirm2s, sent |-> FALSE]}
  /\ UNCHANGED <<config, senderVars, BrokerRawMegs, brokerConfirm1Pool, measureVars,
                 shardVars, injectNet, emptyReports>>

\* handleBlockInfos: the stop gap, and HandleBlockInfo up to the sending.
handleBlockInfos(r) ==
  /\ running /\ tcpLockFree /\ r \in reportNet
  /\ reportNet' = reportNet \ {r}
  /\ stopGap' = 0
  /\ LET confirms == createConfirm(r)
     IN /\ handleTx1ConfirmMag(confirms.confirm1s)
        /\ brokerConfirm2Pool' = brokerConfirm2Pool \cup newTx2s(confirms.confirm1s)
        /\ handling' = handling \cup {[report |-> r, tx2s |-> newTx2s(confirms.confirm1s),
                                       confirm2s |-> confirms.confirm2s, sent |-> FALSE]}
  /\ UNCHANGED <<config, senderVars, BrokerRawMegs, brokerConfirm1Pool, measureVars,
                 shardVars, injectNet, emptyReports>>

\* The second legs are sent, which takes a second, ...
handleBrokerType2Mes(h) ==
  /\ running /\ h \in handling /\ ~h.sent
  /\ injectNet' = injectNet \cup txSending(h.tx2s)
  /\ handling' = (handling \ {h}) \cup {[h EXCEPT !.sent = TRUE]}
  /\ UNCHANGED <<config, senderVars, brokerVars, stopGap, measureVars, shardVars,
                 reportNet, emptyReports>>

\* UpdateMeasureRecord of TxNumCount_Broker and TCL_Broker: the numbers, and
\* the time of the first leg for the latency of both.
UpdateMeasureRecord(r) ==
  /\ broker1TxNum' = broker1TxNum + Cardinality(r.Broker1Txs)
  /\ broker2TxNum' = broker2TxNum + Cardinality(r.Broker2Txs)
  /\ normalTxNum' = normalTxNum + Cardinality(r.InnerShardTxs)
  /\ brokerTxMap' = brokerTxMap \cup {x.raw : x \in r.Broker1Txs}
  /\ missing' = (missing \/ \E x \in r.Broker2Txs : x.raw \notin brokerTxMap')

\* ... handleTx2ConfirmMag finishes the transactions whose second leg was
\* confirmed, and the measure modules get the report.
handleTx2ConfirmMag(h) ==
  /\ running /\ h \in handling /\ h.sent
  /\ RawTx2BrokerTx' = [t \in Txs |->
       RawTx2BrokerTx[t] \o SetToSeq({x \in h.confirm2s : x.raw = t})]
  /\ UpdateMeasureRecord(h.report)
  /\ handling' = handling \ {h}
  /\ UNCHANGED <<config, senderVars, BrokerRawMegs, brokerConfirm1Pool, brokerConfirm2Pool,
                 stopGap, shardVars, netVars>>

-----------------------------------------------------------------------------

Init ==
  /\ dataTotalNum \in dataTotalNums /\ inSync \in BOOLEAN
  /\ nowDataNum = 0 /\ pc = "read" /\ itx = {}
  /\ BrokerRawMegs = {} /\ brokerConfirm1Pool = {} /\ brokerConfirm2Pool = {}
  /\ RawTx2BrokerTx = [t \in Txs |-> <<>>]
  /\ handling = {} /\ stopGap = 0
  /\ broker1TxNum = 0 /\ broker2TxNum = 0 /\ normalTxNum = 0
  /\ brokerTxMap = {} /\ missing = FALSE
  /\ TxQueue = [s \in Shards |-> <<>>] /\ reported = {}
  /\ debits = [t \in Txs |-> 0] /\ credits = [t \in Txs |-> 0]
  /\ injectNet = {} /\ reportNet = {} /\ emptyReports = 0

SenderStep == dealTxByBroker \/ endOfFile \/ sendTx1s \/ sendRest \/ StopGap_Reset \/ stop

HandlerStep ==
  \/ StopGap_Inc
  \/ \E r \in reportNet : handleBlockInfos(r)
  \/ \E h \in handling : handleBrokerType2Mes(h) \/ handleTx2ConfirmMag(h)

ShardStep(s) == HandleinCommit(s) \/ HandleinCommitEmpty(s)

Deliver == \E m \in injectNet : handleInjectTx(m)

Next ==
  \/ SenderStep
  \/ HandlerStep
  \/ \E s \in Shards : ShardStep(s)
  \/ Deliver
  \/ nextRound

Spec == Init /\ [][Next]_vars

\* Every goroutine goes on, and messages arrive.
FairSpec ==
  /\ Spec
  /\ WF_vars(SenderStep) /\ WF_vars(HandlerStep) /\ WF_vars(Deliver) /\ WF_vars(nextRound)
  /\ \A s \in Shards : WF_vars(ShardStep(s))

-----------------------------------------------------------------------------
(***************************************************************************)
(* Properties.                                                             *)
(***************************************************************************)

\* The transactions there can be.
Legs == {NewTransaction(t, leg, 1) : t \in Txs, leg \in 0 .. 2}

\* The fields of the supervisor and of the shards keep their types; no second
\* leg is made twice.
TypeOK ==
  /\ nowDataNum \in 0 .. Len(Rows) /\ itx \subseteq Txs
  /\ pc \in {"read", "sendTx1", "sendRest", "reset", "wait", "stopped"}
  /\ BrokerRawMegs \subseteq Txs
  /\ brokerConfirm1Pool \subseteq Legs /\ brokerConfirm2Pool \subseteq Legs
  /\ \A t \in Txs : Range(RawTx2BrokerTx[t]) \subseteq Legs
  /\ stopGap \in 0 .. MaxGap /\ emptyReports \in 0 .. MaxGap
  /\ \A s \in Shards : Range(TxQueue[s]) \subseteq Legs
  /\ reported \subseteq Shards /\ missing \in BOOLEAN

\* A transaction of the data file takes its value from the sender once and
\* gives it to the recipient once, in this order, also when it is split into
\* two legs in two shards that know nothing of each other.
PaidOnce == \A t \in Txs : credits[t] <= debits[t] /\ debits[t] <= 1

\* What handleTx2ConfirmMag calls finished: both legs, the first one first, and
\* both are in blocks.
Finished(t) ==
  /\ Len(RawTx2BrokerTx[t]) = 2
  /\ RawTx2BrokerTx[t][1].leg = 1 /\ RawTx2BrokerTx[t][2].leg = 2

\* The broker's books: at most two legs of a transaction are confirmed, a
\* second one only after the first, and only what a block has executed.
BooksRight ==
  \A t \in Txs :
    /\ Len(RawTx2BrokerTx[t]) <= 2
    /\ Len(RawTx2BrokerTx[t]) >= 1 => RawTx2BrokerTx[t][1].leg = 1 /\ debits[t] = 1
    /\ Len(RawTx2BrokerTx[t]) = 2 => Finished(t) /\ credits[t] = 1

\* The latency of a cross-shard transaction is always found: the report of a
\* second leg is measured after that of the first, although the second leg is
\* sent before the first one is measured (tcpLock).
LatencyFound == ~missing

sentRows == {Rows[i] : i \in 1 .. nowDataNum}

\* "wait all txs to be handled" (supervisor.go): with shards that keep pace,
\* three empty blocks of each shard in a row mean that nothing is left to do,
\* also not a second leg that no pool holds yet, and the numbers that the
\* measure modules write are those of the transactions sent.
StopWhenDone ==
  inSync /\ pc = "stopped" =>
    /\ \A t \in sentRows : credits[t] = 1 /\ (isCross(t) => Finished(t))
    /\ 2 * normalTxNum + broker1TxNum + broker2TxNum = 2 * Cardinality(sentRows)

\* SupervisorTxHandling comes to its end, in sync or not.
Stops == <>(pc = "stopped")

-----------------------------------------------------------------------------
(***************************************************************************)
(* The parts of the inductive invariant from which PaidOnce, BooksRight    *)
(* and LatencyFound are proved.  A transaction that is not split has one   *)
(* leg, its first; one that is split has a second one, which is made when  *)
(* the first is confirmed.                                                 *)
(***************************************************************************)

first(t)  == NewTransaction(t, IF isCross(t) THEN 1 ELSE 0, 1)
second(t) == NewTransaction(t, 2, 1)

\* The legs there are.
ownLegs == {first(t) : t \in Txs} \cup {second(t) : t \in {u \in Txs : isCross(u)}}

\* The shard txSending sends a leg to.
home(x) == Addr2Shard[IF IsBroker(SenderOf(x)) THEN RecipientOf(x) ELSE SenderOf(x)]

txsOf(r) == r.Broker1Txs \cup r.Broker2Txs \cup r.InnerShardTxs

\* Where a leg can be: made and not sent; on its way to a block; in a report
\* that waits to be handled; among the confirmations in hand.
made == UNION {h.tx2s : h \in {g \in handling : ~g.sent}}

waiting == {m.tx : m \in injectNet} \cup UNION {Range(TxQueue[s]) : s \in Shards}

reportedTxs == UNION {txsOf(r) : r \in reportNet}

confirming == UNION {h.confirm2s : h \in handling}

\* A leg waits for a block in one place, which is in its own shard.
Queues ==
  /\ \A m \in injectNet :
       /\ m = [to |-> home(m.tx), tx |-> m.tx] /\ m.tx \in ownLegs
       /\ \A s \in Shards : m.tx \notin Range(TxQueue[s])
  /\ TxQueue \in [Shards -> Seq(ownLegs)]
  /\ \A s \in Shards : IsInjective(TxQueue[s])
  /\ \A s \in Shards : \A x \in Range(TxQueue[s]) : home(x) = s

\* A list of legs as HandleinCommit sorts it.
sorted(r) ==
  /\ r.Broker1Txs \subseteq {first(t) : t \in {u \in Txs : isCross(u)}}
  /\ r.Broker2Txs \subseteq {second(t) : t \in {u \in Txs : isCross(u)}}
  /\ r.InnerShardTxs \subseteq {first(t) : t \in {u \in Txs : ~isCross(u)}}

\* A leg is reported once, and one report is handled at a time.
Reports ==
  /\ \A r \in reportNet : sorted(r)
  /\ \A q, r \in reportNet : q # r => txsOf(q) \cap txsOf(r) = {}
  /\ \A h \in handling :
       /\ handling = {h}
       /\ h = [report |-> h.report, tx2s |-> h.tx2s, confirm2s |-> h.confirm2s,
               sent |-> h.sent]
       /\ h.sent \in BOOLEAN
       /\ sorted(h.report)
       /\ h.tx2s \subseteq {second(t) : t \in {u \in Txs : isCross(u)}}
       /\ h.confirm2s = h.report.Broker2Txs

\* Transactions that are not read yet, or whose first leg is not sent yet.
unsent ==
  {t \in Txs :
     \/ t \notin sentRows
     \/ pc = "sendTx1" /\ t \in itx
     \/ pc = "sendRest" /\ t \in itx /\ ~isCross(t)}

\* The broker knows the cross-shard transactions that were read, and no others.
Known ==
  /\ nowDataNum \in 0 .. Len(Rows) /\ nowDataNum <= dataTotalNum
  /\ dataTotalNum \in Nat
  /\ itx \subseteq sentRows
  /\ BrokerRawMegs = {t \in sentRows : isCross(t)}
  /\ brokerConfirm1Pool = {first(t) : t \in BrokerRawMegs}
  /\ brokerConfirm2Pool = {second(t) : t \in {u \in Txs : RawTx2BrokerTx[u] # <<>>}}

\* A first leg is sent, put into a block, reported and confirmed in this order.
FirstLeg(t) ==
  /\ debits[t] \in {0, 1}
  /\ t \in unsent => debits[t] = 0 /\ first(t) \notin waiting
  /\ first(t) \in waiting => debits[t] = 0
  /\ debits[t] = 0 =>
       credits[t] = 0 /\ first(t) \notin reportedTxs /\ RawTx2BrokerTx[t] = <<>>
  /\ ~isCross(t) => credits[t] = debits[t]
  /\ isCross(t) /\ first(t) \in reportedTxs => RawTx2BrokerTx[t] = <<>>

\* A second leg is made, sent, put into a block, reported and confirmed in this
\* order, and only after the first was confirmed.
SecondLeg(t) ==
  /\ credits[t] \in {0, 1}
  /\ RawTx2BrokerTx[t] \in {<<>>, <<first(t)>>, <<first(t), second(t)>>}
  /\ RawTx2BrokerTx[t] # <<>> => isCross(t)
  /\ isCross(t) /\ RawTx2BrokerTx[t] = <<>> =>
       credits[t] = 0 /\ second(t) \notin made \cup waiting
  /\ second(t) \in made => second(t) \notin waiting
  /\ second(t) \in made \cup waiting => credits[t] = 0
  /\ isCross(t) /\ credits[t] = 0 => second(t) \notin reportedTxs \cup confirming
  /\ second(t) \in reportedTxs \cup confirming => RawTx2BrokerTx[t] = <<first(t)>>
  /\ second(t) \in reportedTxs => second(t) \notin confirming
  /\ RawTx2BrokerTx[t] = <<first(t), second(t)>> => credits[t] = 1

\* The report of a first leg is measured before the second leg is in one that
\* is handled.
Measured ==
  /\ ~missing
  /\ \A t \in Txs : RawTx2BrokerTx[t] # <<>> =>
       t \in brokerTxMap \/ \E h \in handling : first(t) \in h.report.Broker1Txs
  /\ \A h \in handling : \A x \in h.report.Broker2Txs : x.raw \in brokerTxMap

BrokerInv ==
  /\ Queues /\ Reports /\ Known /\ Measured
  /\ RawTx2BrokerTx \in [Txs -> Seq(Legs)]
  /\ debits \in [Txs -> Nat] /\ credits \in [Txs -> Nat]
  /\ \A t \in Txs : FirstLeg(t) /\ SecondLeg(t)

-----------------------------------------------------------------------------
(***************************************************************************)
(* The parts from which StopWhenDone is proved: every leg goes on until it *)
(* is measured, the numbers are those of the legs measured, and a shard    *)
(* that keeps pace does not let the stop gap grow while there is work.     *)
(***************************************************************************)

\* The legs that a block has executed, those of the report that is handled, and
\* those that the measure modules have counted.
executed(x) == IF x.leg = 2 THEN credits[x.raw] = 1 ELSE debits[x.raw] = 1

inHand == UNION {txsOf(h.report) : h \in handling}

measuredTxs == {x \in ownLegs : executed(x) /\ x \notin reportedTxs \cup inHand}

\* Nothing gets lost between the sender, the shards, the reports and the books.
NotLost(t) ==
  /\ t \in unsent \/ executed(first(t)) \/ first(t) \in waiting
  /\ isCross(t) /\ executed(first(t)) => RawTx2BrokerTx[t] # <<>> \/ first(t) \in reportedTxs
  /\ RawTx2BrokerTx[t] # <<>> => executed(second(t)) \/ second(t) \in made \cup waiting
  /\ isCross(t) /\ executed(second(t)) =>
       RawTx2BrokerTx[t] = <<first(t), second(t)>> \/ second(t) \in reportedTxs \cup confirming

\* A report that is handled is of executed legs and is not handled again, and
\* the numbers are those of the legs measured.
NumbersRight ==
  /\ inHand \cap reportedTxs = {} /\ \A x \in inHand : x \in ownLegs /\ executed(x)
  /\ normalTxNum = Cardinality({x \in measuredTxs : x.leg = 0})
  /\ broker1TxNum = Cardinality({x \in measuredTxs : x.leg = 1})
  /\ broker2TxNum = Cardinality({x \in measuredTxs : x.leg = 2})

\* There is work; and there is work that came up in this round: whatever made
\* it has reset the stop gap in this round.
busy ==
  injectNet # {} \/ handling # {} \/ reportNet # {} \/ \E s \in Shards : TxQueue[s] # <<>>

fresh ==
  \/ injectNet # {} \/ handling # {}
  \/ reportNet = {} /\ \E s \in reported : TxQueue[s] # <<>>

\* While there is work, the empty reports in a row are those of this round, or
\* of this and the last round, which are fewer than the threshold.
Paced ==
  inSync =>
    /\ emptyReports <= Cardinality(reported)
    /\ pc \in {"read", "wait"} /\ fresh => stopGap + emptyReports <= Cardinality(reported)
    /\ pc \in {"read", "wait"} /\ busy =>
         stopGap + emptyReports <= ShardNums + Cardinality(reported)
    /\ pc = "stopped" => ~busy

=============================================================================
