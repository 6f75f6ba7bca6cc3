---------------------------- MODULE BrokerProofs ----------------------------
(***************************************************************************)
(* The broker protocol of module Broker for every data file, every number  *)
(* of shards and every block size: no transaction is paid twice, the       *)
(* broker's books are right, every latency is found, and with shards that  *)
(* keep pace the supervisor stops when everything is done and counted.     *)
(***************************************************************************)
EXTENDS Broker, TLAPS, FiniteSetTheorems, SequenceTheorems

-----------------------------------------------------------------------------
(***************************************************************************)
(* The legs of a transaction.                                              *)
(***************************************************************************)

LEMMA LegFacts ==
  ASSUME NEW t \in Txs
  PROVE  /\ first(t).raw = t /\ second(t).raw = t
         /\ first(t).n = 1 /\ second(t).n = 1 /\ second(t).leg = 2
         /\ isCross(t) => first(t).leg = 1
         /\ ~isCross(t) => first(t).leg = 0
         /\ first(t) # second(t)
         /\ first(t) \in Legs /\ second(t) \in Legs
  BY DEF first, second, NewTransaction, Legs

LEMMA OwnLegCases ==
  ASSUME NEW x \in ownLegs
  PROVE  /\ x.raw \in Txs /\ x \in Legs
         /\ x = first(x.raw) \/ (isCross(x.raw) /\ x = second(x.raw))
  BY LegFacts DEF ownLegs

LEMMA BrokerIsBroker == IsBroker(Broker)
  BY BrokerAssumption DEF IsBroker, Broker, Range

\* The first leg of a split transaction takes the value from the sender.
LEMMA FirstOfTwo ==
  ASSUME NEW t \in Txs, isCross(t)
  PROVE  /\ isBroker1Tx(first(t)) /\ ~isBroker2Tx(first(t))
         /\ debited(home(first(t)), first(t))
         /\ \A s : ~credited(s, first(t))
  BY LegFacts, BrokerIsBroker
  DEF isBroker1Tx, isBroker2Tx, debited, credited, home, SenderOf, RecipientOf, isCross

\* The only leg of a transaction that is not split does both.
LEMMA FirstOfOne ==
  ASSUME NEW t \in Txs, ~isCross(t)
  PROVE  /\ ~isBroker1Tx(first(t)) /\ ~isBroker2Tx(first(t))
         /\ debited(home(first(t)), first(t))
         /\ credited(home(first(t)), first(t))
  BY LegFacts
  DEF isBroker1Tx, isBroker2Tx, debited, credited, home, SenderOf, RecipientOf, isCross,
      HasBroker

\* The second leg gives the value to the recipient.
LEMMA SecondOfTwo ==
  ASSUME NEW t \in Txs, isCross(t)
  PROVE  /\ ~isBroker1Tx(second(t)) /\ isBroker2Tx(second(t))
         /\ \A s : ~debited(s, second(t))
         /\ credited(home(second(t)), second(t))
  BY LegFacts, BrokerIsBroker
  DEF isBroker1Tx, isBroker2Tx, debited, credited, home, SenderOf, RecipientOf, isCross

LEMMA HomeIsShard ==
  ASSUME NEW x \in ownLegs
  PROVE  home(x) \in Shards
PROOF
<1>1. x.raw \in Txs /\ Broker \in Accounts
  BY OwnLegCases, BrokerAssumption DEF Broker
<1> QED
  BY <1>1, BrokerAssumption DEF home, SenderOf, RecipientOf

\* txSending sends a leg to its home.
LEMMA SendingIsHome ==
  ASSUME NEW txs
  PROVE  txSending(txs) = {[to |-> home(x), tx |-> x] : x \in txs}
  BY DEF txSending, home

-----------------------------------------------------------------------------
(***************************************************************************)
(* Steps that do not move a leg.                                           *)
(***************************************************************************)

LegsInv == \A t \in Txs : FirstLeg(t) /\ SecondLeg(t)

LEMMA SameSets ==
  /\ UNCHANGED handling => made' = made /\ confirming' = confirming
  /\ UNCHANGED <<injectNet, TxQueue>> => waiting' = waiting
  /\ UNCHANGED reportNet => reportedTxs' = reportedTxs
  BY DEF made, confirming, waiting, reportedTxs

LEMMA SameLegs ==
  ASSUME LegsInv, unsent' \subseteq unsent, 
         UNCHANGED <<made, waiting, reportedTxs, confirming, RawTx2BrokerTx, debits, credits>>
  PROVE  LegsInv'
PROOF
<1>1. ASSUME NEW t \in Txs PROVE FirstLeg(t)'
  BY DEF LegsInv, FirstLeg
<1>2. ASSUME NEW t \in Txs PROVE SecondLeg(t)'
  BY DEF LegsInv, SecondLeg
<1> QED
  BY <1>1, <1>2 DEF LegsInv

LEMMA SameQueues ==
  ASSUME Queues, UNCHANGED <<injectNet, TxQueue>>
  PROVE  Queues'
  BY DEF Queues

LEMMA SameReports ==
  ASSUME Reports, UNCHANGED <<reportNet, handling>>
  PROVE  Reports'
  BY DEF Reports

LEMMA SameKnown ==
  ASSUME Known, UNCHANGED <<dataTotalNum, nowDataNum, BrokerRawMegs, brokerConfirm1Pool,
                            brokerConfirm2Pool, RawTx2BrokerTx>>, itx' \in {itx, {}}
  PROVE  Known'
  BY DEF Known, sentRows

LEMMA SameMeasured ==
  ASSUME Measured, UNCHANGED <<missing, RawTx2BrokerTx, brokerTxMap, handling>>
  PROVE  Measured'
  BY DEF Measured

LEMMA InitBroker == Init => BrokerInv
PROOF
<1> SUFFICES ASSUME Init PROVE BrokerInv
  OBVIOUS
<1>1. made = {} /\ waiting = {} /\ reportedTxs = {} /\ confirming = {}
  BY DEF Init, made, waiting, reportedTxs, confirming, Range
<1>2. sentRows = {}
  BY DEF Init, sentRows
<1>3. Queues
  BY DEF Init, Queues, IsInjective, Range
<1>4. Reports
  BY DEF Init, Reports
<1>5. Known
  BY <1>2, BrokerAssumption DEF Init, Known
<1>6. Measured
  BY DEF Init, Measured
<1>7. \A t \in Txs : FirstLeg(t) /\ SecondLeg(t)
  BY <1>1 DEF Init, FirstLeg, SecondLeg
<1> QED
  BY <1>3, <1>4, <1>5, <1>6, <1>7 DEF Init, BrokerInv

\* The steps of the sender and of the shards that only count or wait.
LEMMA IdleStep ==
  ASSUME BrokerInv, UNCHANGED <<TxQueue, injectNet, reportNet, handling, brokerVars,
           nowDataNum, dataTotalNum, debits, credits, missing, brokerTxMap>>,
         \/ UNCHANGED <<pc, itx>>
         \/ endOfFile \/ StopGap_Reset \/ stop
  PROVE  BrokerInv'
PROOF
<1>1. UNCHANGED <<BrokerRawMegs, brokerConfirm1Pool, brokerConfirm2Pool, RawTx2BrokerTx>>
  BY DEF brokerVars
<1>2. UNCHANGED <<made, waiting, reportedTxs, confirming>>
  BY SameSets
<1>3. itx' \in {itx, {}} /\ sentRows' = sentRows
  BY DEF endOfFile, StopGap_Reset, stop, sentRows
<1>4. unsent' \subseteq unsent
  BY <1>3 DEF unsent, endOfFile, StopGap_Reset, stop
<1>5. LegsInv'
  BY <1>1, <1>2, <1>4, SameLegs DEF BrokerInv, LegsInv
<1>6. Queues' /\ Reports' /\ Known' /\ Measured'
  BY <1>1, <1>3, SameQueues, SameReports, SameKnown, SameMeasured DEF BrokerInv
<1> QED
  BY <1>1, <1>5, <1>6 DEF BrokerInv, LegsInv

-----------------------------------------------------------------------------
(***************************************************************************)
(* The sender.                                                             *)
(***************************************************************************)

LEMMA MinOfTwo ==
  ASSUME NEW i \in Nat, NEW j \in Nat
  PROVE  Min({i, j}) = IF i <= j THEN i ELSE j
  BY DEF Min

\* The rows of a batch are new ones, and as many as its numbers say.
LEMMA BatchFacts ==
  ASSUME Known, nowDataNum + batchDataNum <= Len(Rows) \/ dataTotalNum <= Len(Rows)
  PROVE  \E upto \in nowDataNum .. Len(Rows) :
           /\ upto <= dataTotalNum
           /\ nextBatch = {Rows[i] : i \in nowDataNum + 1 .. upto}
           /\ nextBatch \subseteq Txs /\ nextBatch \cap sentRows = {}
           /\ nowDataNum + Cardinality(nextBatch) = upto
PROOF
<1> DEFINE upto == Min({nowDataNum + batchDataNum, dataTotalNum})
<1>0. /\ batchDataNum \in Nat \ {0} /\ Rows \in Seq(Txs) /\ Len(Rows) \in Nat
      /\ nowDataNum \in Nat /\ dataTotalNum \in Nat
      /\ nowDataNum <= Len(Rows) /\ nowDataNum <= dataTotalNum
  BY BrokerAssumption DEF Known
<1>1. upto \in nowDataNum .. Len(Rows) /\ upto <= dataTotalNum
  BY <1>0, MinOfTwo
<1>2. nextBatch = {Rows[i] : i \in nowDataNum + 1 .. upto}
  BY DEF nextBatch
<1> HIDE DEF upto
<1>3. nextBatch \subseteq Txs
  BY <1>0, <1>1, <1>2
<1>4. \A i, j \in 1 .. Len(Rows) : Rows[i] = Rows[j] => i = j
  BY <1>0, BrokerAssumption DEF IsInjective
<1>5. nextBatch \cap sentRows = {}
  BY <1>0, <1>1, <1>2, <1>4 DEF sentRows
<1>6. Cardinality(nextBatch) = upto - nowDataNum
  <2> DEFINE I == nowDataNum + 1 .. upto
             g == [i \in I |-> Rows[i]]
  <2>1. g \in Bijection(I, nextBatch)
    <3>1. g \in [I -> nextBatch] /\ \A y \in nextBatch : \E i \in I : g[i] = y
      BY <1>2
    <3>2. \A i, j \in I : g[i] = g[j] => i = j
      BY <1>0, <1>1, <1>4
    <3> QED
      BY <3>1, <3>2 DEF Bijection, Injection, Surjection, IsInjective
  <2>2. IsFiniteSet(I) /\ Cardinality(I) = upto - nowDataNum
    <3>1. upto \in Int /\ nowDataNum + 1 \in Int
      BY <1>0, <1>1
    <3>2. IsFiniteSet(I) /\ Cardinality(I) = IF nowDataNum + 1 > upto THEN 0
                                             ELSE upto - (nowDataNum + 1) + 1
      BY <3>1, FS_Interval
    <3> QED
      BY <1>0, <1>1, <3>1, <3>2
  <2> HIDE DEF g, I
  <2> QED
    BY <2>1, <2>2, FS_Bijection DEF ExistsBijection
<1>7. nowDataNum + Cardinality(nextBatch) = upto
  BY <1>0, <1>1, <1>6
<1> QED
  BY <1>1, <1>2, <1>3, <1>5, <1>7

\* dealTxByBroker: the new rows come into the books.
LEMMA DealStep ==
  ASSUME BrokerInv, dealTxByBroker
  PROVE  BrokerInv' /\ unsent' = unsent
PROOF
<1>1. PICK upto \in nowDataNum .. Len(Rows) :
           /\ upto <= dataTotalNum
           /\ nextBatch = {Rows[i] : i \in nowDataNum + 1 .. upto}
           /\ nextBatch \subseteq Txs /\ nextBatch \cap sentRows = {}
           /\ nowDataNum + Cardinality(nextBatch) = upto
  BY BatchFacts DEF BrokerInv, dealTxByBroker
<1> DEFINE cross == {t \in nextBatch : isCross(t)}
<1>2. /\ nowDataNum' = upto /\ itx' = nextBatch /\ pc = "read" /\ pc' = "sendTx1"
      /\ BrokerRawMegs' = BrokerRawMegs \cup cross
      /\ brokerConfirm1Pool' = brokerConfirm1Pool \cup {NewTransaction(t, 1, 1) : t \in cross}
      /\ UNCHANGED <<dataTotalNum, brokerConfirm2Pool, RawTx2BrokerTx, handling, missing,
                     brokerTxMap, TxQueue, debits, credits, injectNet, reportNet>>
  BY <1>1 DEF dealTxByBroker, handleBrokerRawMag, handleBrokerType1Mes, config,
              measureVars, shardVars, netVars
<1>3. nowDataNum \in Nat /\ upto \in Nat /\ Len(Rows) \in Nat /\ dataTotalNum \in Nat
      /\ nowDataNum <= upto /\ upto <= Len(Rows)
  BY BrokerAssumption DEF BrokerInv, Known
<1>4. sentRows' = sentRows \cup nextBatch
  BY <1>1, <1>2, <1>3 DEF sentRows
<1>5. UNCHANGED <<made, waiting, reportedTxs, confirming>>
  BY <1>2, SameSets
<1>6. unsent' = unsent
  BY <1>1, <1>2, <1>4 DEF unsent
<1>7. LegsInv'
  BY <1>2, <1>5, <1>6, SameLegs DEF BrokerInv, LegsInv
<1>8. Queues' /\ Reports' /\ Measured'
  BY <1>2, SameQueues, SameReports, SameMeasured DEF BrokerInv
<1>9. Known'
  <2>1. {NewTransaction(t, 1, 1) : t \in cross} = {first(t) : t \in cross}
    BY DEF first
  <2>2. BrokerRawMegs' = {t \in sentRows' : isCross(t)}
    BY <1>2, <1>4 DEF BrokerInv, Known
  <2>3. brokerConfirm1Pool' = {first(t) : t \in BrokerRawMegs'}
    BY <1>2, <2>1 DEF BrokerInv, Known
  <2>4. /\ nowDataNum' \in 0 .. Len(Rows) /\ nowDataNum' <= dataTotalNum'
        /\ dataTotalNum' \in Nat
    BY <1>1, <1>2, <1>3
  <2>5. itx' \subseteq sentRows'
    BY <1>2, <1>4
  <2>6. brokerConfirm2Pool' = {second(t) : t \in {u \in Txs : RawTx2BrokerTx'[u] # <<>>}}
    BY <1>2 DEF BrokerInv, Known
  <2> QED
    BY <2>2, <2>3, <2>4, <2>5, <2>6 DEF Known
<1> QED
  BY <1>2, <1>6, <1>7, <1>8, <1>9 DEF BrokerInv, LegsInv

\* Legs that are not waiting yet are sent to their homes.
LEMMA SendLegs ==
  ASSUME Queues, NEW X \in SUBSET ownLegs, X \cap waiting = {},
         injectNet' = injectNet \cup txSending(X), UNCHANGED TxQueue
  PROVE  Queues' /\ waiting' = waiting \cup X
PROOF
<1>1. injectNet' = injectNet \cup {[to |-> home(x), tx |-> x] : x \in X}
  BY SendingIsHome
<1>2. waiting' = waiting \cup X
  <2>1. {m.tx : m \in injectNet'} = {m.tx : m \in injectNet} \cup X
    <3>1. ASSUME NEW m \in injectNet', m \notin injectNet PROVE m.tx \in X
      BY <1>1, <3>1
    <3>2. ASSUME NEW x \in X PROVE \E m \in injectNet' : m.tx = x
      <4>1. [to |-> home(x), tx |-> x] \in injectNet'
        BY <1>1
      <4> QED
        BY <4>1
    <3>3. injectNet \subseteq injectNet'
      BY <1>1
    <3> QED
      BY <3>1, <3>2, <3>3
  <2> QED
    BY <2>1 DEF waiting
<1>3. ASSUME NEW m \in injectNet'
      PROVE  /\ m = [to |-> home(m.tx), tx |-> m.tx] /\ m.tx \in ownLegs
             /\ \A s \in Shards : m.tx \notin Range(TxQueue[s])
  <2>1. CASE m \in injectNet
    BY <2>1 DEF Queues
  <2>2. CASE m \notin injectNet
    <3>1. PICK x \in X : m = [to |-> home(x), tx |-> x]
      BY <1>1, <1>3, <2>2
    <3>2. m.tx = x
      BY <3>1
    <3>3. \A s \in Shards : x \notin Range(TxQueue[s])
      BY DEF waiting
    <3> QED
      BY <3>1, <3>2, <3>3
  <2> QED
    BY <2>1, <2>2
<1>4. Queues'
  <2>1. \A m \in injectNet' :
          /\ m = [to |-> home(m.tx), tx |-> m.tx] /\ m.tx \in ownLegs
          /\ \A s \in Shards : m.tx \notin Range(TxQueue'[s])
    BY <1>3
  <2> QED
    BY <2>1 DEF Queues
<1> QED
  BY <1>2, <1>4

LEMMA SentAreTxs ==
  ASSUME Known
  PROVE  sentRows \subseteq Txs
PROOF
<1>1. Rows \in Seq(Txs) /\ nowDataNum \in 0 .. Len(Rows)
  BY BrokerAssumption DEF Known
<1> QED
  BY <1>1 DEF sentRows

\* Sending first legs: sendTx1s those of split transactions, sendRest the others.
LEMMA SendStep ==
  ASSUME BrokerInv, NEW S \in SUBSET unsent, unsent' = unsent \ S,
         injectNet' = injectNet \cup txSending({first(t) : t \in S}),
         UNCHANGED <<TxQueue, reportNet, handling, brokerVars, nowDataNum, itx,
                     dataTotalNum, debits, credits, missing, brokerTxMap>>
  PROVE  /\ BrokerInv' /\ waiting \subseteq waiting'
         /\ \A t \in unsent : t \in unsent' \/ first(t) \in waiting'
PROOF
<1> DEFINE X == {first(t) : t \in S}
<1>0. S \subseteq Txs
  BY DEF unsent
<1>1. X \in SUBSET ownLegs
  BY <1>0 DEF ownLegs
<1>2. X \cap waiting = {}
  BY <1>0 DEF BrokerInv, FirstLeg
<1>3. Queues' /\ waiting' = waiting \cup X
  BY <1>1, <1>2, SendLegs DEF BrokerInv
<1>4. UNCHANGED <<made, reportedTxs, confirming>>
  BY SameSets
<1>5. UNCHANGED <<BrokerRawMegs, brokerConfirm1Pool, brokerConfirm2Pool, RawTx2BrokerTx>>
  BY DEF brokerVars
<1>6. Reports' /\ Known' /\ Measured'
  BY <1>5, SameReports, SameKnown, SameMeasured DEF BrokerInv
<1>7. ASSUME NEW t \in Txs PROVE FirstLeg(t)' /\ SecondLeg(t)'
  <2>0. FirstLeg(t) /\ SecondLeg(t)
    BY DEF BrokerInv
  <2>1. second(t) \notin X /\ (first(t) \in X => t \in S)
    BY <1>0, LegFacts
  <2> HIDE DEF X
  <2>2. FirstLeg(t)'
    BY <1>3, <1>4, <1>5, <2>0, <2>1 DEF FirstLeg
  <2>3. SecondLeg(t)'
    BY <1>3, <1>4, <1>5, <2>0, <2>1 DEF SecondLeg
  <2> QED
    BY <2>2, <2>3
<1>8. BrokerInv'
  BY <1>3, <1>5, <1>6, <1>7 DEF BrokerInv
<1> QED
  BY <1>3, <1>8

LEMMA SendTx1sStep ==
  ASSUME BrokerInv, sendTx1s
  PROVE  /\ BrokerInv' /\ waiting \subseteq waiting'
         /\ \A t \in unsent : t \in unsent' \/ first(t) \in waiting'
PROOF
<1> DEFINE S == {u \in itx : isCross(u)}
<1>1. pc = "sendTx1" /\ pc' = "sendRest" /\ itx \subseteq Txs /\ itx \subseteq sentRows
  BY SentAreTxs DEF sendTx1s, BrokerInv, Known
<1>2. UNCHANGED <<TxQueue, reportNet, handling, brokerVars, nowDataNum, itx,
                  dataTotalNum, debits, credits, missing, brokerTxMap>>
  BY DEF sendTx1s, config, shardVars, measureVars
<1>3. sentRows' = sentRows
  BY <1>2 DEF sentRows
<1>4. S \in SUBSET unsent /\ unsent' = unsent \ S
  BY <1>1, <1>2, <1>3 DEF unsent
<1>5. {NewTransaction(t, 1, 1) : t \in S} = {first(t) : t \in S}
  BY DEF first
<1>6. injectNet' = injectNet \cup txSending({first(t) : t \in S})
  BY <1>5 DEF sendTx1s
<1> QED
  BY <1>2, <1>4, <1>6, SendStep

LEMMA SendRestStep ==
  ASSUME BrokerInv, sendRest
  PROVE  /\ BrokerInv' /\ waiting \subseteq waiting'
         /\ \A t \in unsent : t \in unsent' \/ first(t) \in waiting'
PROOF
<1> DEFINE S == {u \in itx : ~isCross(u)}
<1>1. pc = "sendRest" /\ pc' = "reset" /\ itx \subseteq Txs /\ itx \subseteq sentRows
  BY SentAreTxs DEF sendRest, BrokerInv, Known
<1>2. UNCHANGED <<TxQueue, reportNet, handling, brokerVars, nowDataNum, itx,
                  dataTotalNum, debits, credits, missing, brokerTxMap>>
  BY DEF sendRest, config, shardVars, measureVars
<1>3. sentRows' = sentRows
  BY <1>2 DEF sentRows
<1>4. S \in SUBSET unsent /\ unsent' = unsent \ S
  BY <1>1, <1>2, <1>3 DEF unsent
<1>5. {NewTransaction(t, 0, 1) : t \in S} = {first(t) : t \in S}
  BY DEF first
<1>6. injectNet' = injectNet \cup txSending({first(t) : t \in S})
  BY <1>5 DEF sendRest
<1> QED
  BY <1>2, <1>4, <1>6, SendStep

-----------------------------------------------------------------------------
(***************************************************************************)
(* The shards.                                                             *)
(***************************************************************************)

LEMMA AppendOne ==
  ASSUME NEW S, NEW q \in Seq(S), NEW x \in S, IsInjective(q), x \notin Range(q)
  PROVE  /\ Append(q, x) \in Seq(S) /\ IsInjective(Append(q, x))
         /\ Range(Append(q, x)) = Range(q) \cup {x}
PROOF
<1> DEFINE p == Append(q, x)
<1>1. /\ p \in Seq(S) /\ Len(p) = Len(q) + 1 /\ Len(q) \in Nat
      /\ \A i \in 1 .. Len(q) : p[i] = q[i]
      /\ p[Len(q) + 1] = x
  OBVIOUS
<1>2. DOMAIN p = 1 .. Len(q) + 1 /\ DOMAIN q = 1 .. Len(q)
  BY <1>1
<1> HIDE DEF p
<1>3. \A i \in DOMAIN q : q[i] # x
  BY DEF Range
<1>4. IsInjective(p)
  BY <1>1, <1>2, <1>3 DEF IsInjective
<1>5. Range(p) = Range(q) \cup {x}
  BY <1>1, <1>2 DEF Range
<1> QED
  BY <1>1, <1>4, <1>5 DEF p

\* handleInjectTx: the leg goes on waiting, in the queue.
LEMMA InjectStep ==
  ASSUME BrokerInv, NEW m \in injectNet, handleInjectTx(m)
  PROVE  BrokerInv' /\ waiting' = waiting
PROOF
<1> DEFINE s == m.to
           x == m.tx
<1>0. /\ TxQueue \in [Shards -> Seq(ownLegs)] /\ Queues
      /\ m = [to |-> home(x), tx |-> x] /\ x \in ownLegs
      /\ \A u \in Shards : x \notin Range(TxQueue[u])
  BY DEF BrokerInv, Queues
<1>1. s \in Shards /\ home(x) = s
  BY <1>0, HomeIsShard
<1>2. /\ injectNet' = injectNet \ {m}
      /\ TxQueue' = [TxQueue EXCEPT ![s] = Append(TxQueue[s], x)]
      /\ UNCHANGED <<reportNet, handling, brokerVars, nowDataNum, itx, pc,
                     dataTotalNum, debits, credits, missing, brokerTxMap>>
  BY DEF handleInjectTx, config, senderVars, measureVars
<1> HIDE DEF s, x
<1>3. /\ Append(TxQueue[s], x) \in Seq(ownLegs) /\ IsInjective(Append(TxQueue[s], x))
      /\ Range(Append(TxQueue[s], x)) = Range(TxQueue[s]) \cup {x}
  <2>1. TxQueue[s] \in Seq(ownLegs) /\ IsInjective(TxQueue[s]) /\ x \notin Range(TxQueue[s])
    BY <1>0, <1>1 DEF Queues
  <2> QED
    BY <1>0, <2>1, AppendOne
<1>4. /\ TxQueue' \in [Shards -> Seq(ownLegs)]
      /\ TxQueue'[s] = Append(TxQueue[s], x)
      /\ \A u \in Shards \ {s} : TxQueue'[u] = TxQueue[u]
  BY <1>0, <1>1, <1>2, <1>3
<1>5. \A u \in Shards : Range(TxQueue'[u]) = Range(TxQueue[u]) \cup (IF u = s THEN {x} ELSE {})
  BY <1>3, <1>4
<1>6. waiting' = waiting
  <2>1. waiting' \subseteq waiting
    BY <1>2, <1>5 DEF waiting, x
  <2>2. waiting \subseteq waiting'
    <3> SUFFICES ASSUME NEW y \in waiting PROVE y \in waiting'
      OBVIOUS
    <3>1. CASE y = x
      BY <1>1, <1>5, <3>1 DEF waiting
    <3>2. CASE y # x
      <4>1. CASE \E k \in injectNet : k.tx = y
        <5>1. PICK k \in injectNet : k.tx = y
          BY <4>1
        <5>2. k \in injectNet'
          BY <1>2, <3>2, <5>1 DEF x
        <5> QED
          BY <5>1, <5>2 DEF waiting
      <4>2. CASE \E u \in Shards : y \in Range(TxQueue[u])
        <5>1. \E u \in Shards : y \in Range(TxQueue'[u])
          BY <1>5, <4>2
        <5> QED
          BY <5>1 DEF waiting
      <4> QED
        BY <4>1, <4>2 DEF waiting
    <3> QED
      BY <3>1, <3>2
  <2> QED
    BY <2>1, <2>2
<1>7. Queues'
  <2>1. ASSUME NEW k \in injectNet'
        PROVE  /\ k = [to |-> home(k.tx), tx |-> k.tx] /\ k.tx \in ownLegs
               /\ \A u \in Shards : k.tx \notin Range(TxQueue'[u])
    <3>1. k \in injectNet /\ k # m
      BY <1>2, <2>1
    <3>2. /\ k = [to |-> home(k.tx), tx |-> k.tx] /\ k.tx \in ownLegs
          /\ \A u \in Shards : k.tx \notin Range(TxQueue[u])
      BY <1>0, <3>1 DEF Queues
    <3>3. k.tx # x
      BY <1>0, <3>1, <3>2
    <3> QED
      BY <1>5, <3>2, <3>3
  <2>2. \A u \in Shards : IsInjective(TxQueue'[u])
    BY <1>0, <1>3, <1>4 DEF Queues
  <2>3. \A u \in Shards : \A y \in Range(TxQueue'[u]) : home(y) = u
    BY <1>0, <1>1, <1>5 DEF Queues
  <2> QED
    BY <1>4, <2>1, <2>2, <2>3 DEF Queues
<1>8. UNCHANGED <<made, reportedTxs, confirming>>
  BY <1>2, SameSets
<1>9. UNCHANGED <<BrokerRawMegs, brokerConfirm1Pool, brokerConfirm2Pool, RawTx2BrokerTx>>
  BY <1>2 DEF brokerVars
<1>10. unsent' = unsent
  BY <1>2 DEF unsent, sentRows
<1>11. LegsInv'
  BY <1>2, <1>6, <1>8, <1>9, <1>10, SameLegs DEF BrokerInv, LegsInv
<1>12. Reports' /\ Known' /\ Measured'
  BY <1>2, <1>9, SameReports, SameKnown, SameMeasured DEF BrokerInv
<1> QED
  BY <1>2, <1>6, <1>7, <1>9, <1>11, <1>12 DEF BrokerInv, LegsInv

\* A queue without duplicates, cut in two.
LEMMA CutQueue ==
  ASSUME NEW S, NEW q \in Seq(S), IsInjective(q), NEW k \in 0 .. Len(q)
  PROVE  LET body == SubSeq(q, 1, k)
             rest == SubSeq(q, k + 1, Len(q))
         IN /\ body \in Seq(S) /\ IsInjective(body) /\ Len(body) = k
            /\ rest \in Seq(S) /\ IsInjective(rest)
            /\ Range(rest) = Range(q) \ Range(body)
            /\ Range(body) \subseteq Range(q)
PROOF
<1> DEFINE body == SubSeq(q, 1, k)
           rest == SubSeq(q, k + 1, Len(q))
<1>0. Len(q) \in Nat /\ k \in Nat /\ k <= Len(q) /\ DOMAIN q = 1 .. Len(q)
  OBVIOUS
<1>1. /\ body \in Seq(S) /\ Len(body) = k
      /\ \A i \in 1 .. k : body[i] = q[i]
  BY <1>0
<1>2. /\ rest \in Seq(S) /\ Len(rest) = Len(q) - k
      /\ \A i \in 1 .. Len(q) - k : rest[i] = q[i + k]
  <2>1. k + 1 \in 1 .. Len(q) + 1 /\ Len(q) \in (k + 1) - 1 .. Len(q)
    BY <1>0
  <2>2. /\ rest \in Seq(S) /\ Len(rest) = Len(q) - (k + 1) + 1
        /\ \A i \in 1 .. Len(q) - (k + 1) + 1 : rest[i] = q[(k + 1) + i - 1]
    BY <2>1, SubSeqProperties
  <2> HIDE DEF rest
  <2>3. Len(q) - (k + 1) + 1 = Len(q) - k
        /\ \A i \in 1 .. Len(q) - k : (k + 1) + i - 1 = i + k
    BY <1>0
  <2> QED
    BY <2>2, <2>3
<1>3. DOMAIN body = 1 .. k /\ DOMAIN rest = 1 .. Len(q) - k
  BY <1>1, <1>2
<1> HIDE DEF body, rest
<1>4. IsInjective(body)
  <2>1. \A i \in DOMAIN body : i \in DOMAIN q /\ body[i] = q[i]
    BY <1>0, <1>1, <1>3
  <2> QED
    BY <2>1 DEF IsInjective
<1>5. IsInjective(rest)
  <2> SUFFICES ASSUME NEW i \in 1 .. Len(q) - k, NEW j \in 1 .. Len(q) - k,
                      rest[i] = rest[j]
               PROVE  i = j
    BY <1>3 DEF IsInjective
  <2>1. i + k \in DOMAIN q /\ j + k \in DOMAIN q /\ q[i + k] = q[j + k]
    BY <1>0, <1>2
  <2>2. i + k = j + k
    BY <2>1 DEF IsInjective
  <2> QED
    BY <1>0, <2>2
<1>6. Range(body) \subseteq Range(q)
  <2>1. \A i \in DOMAIN body : i \in DOMAIN q /\ body[i] = q[i]
    BY <1>0, <1>1, <1>3
  <2> QED
    BY <2>1 DEF Range
<1>7. Range(rest) = Range(q) \ Range(body)
  <2>1. ASSUME NEW x \in Range(rest) PROVE x \in Range(q) /\ x \notin Range(body)
    <3>1. PICK i \in 1 .. Len(q) - k : x = rest[i]
      BY <1>3 DEF Range
    <3>2. i + k \in DOMAIN q /\ x = q[i + k]
      BY <1>0, <1>2, <3>1
    <3>3. ASSUME NEW j \in 1 .. k, x = body[j] PROVE FALSE
      <4>1. q[j] = q[i + k] /\ j \in DOMAIN q
        BY <1>0, <1>1, <3>2, <3>3
      <4>2. j = i + k
        BY <3>2, <4>1 DEF IsInjective
      <4> QED
        BY <1>0, <4>2
    <3> QED
      BY <1>3, <3>2, <3>3 DEF Range
  <2>2. ASSUME NEW x \in Range(q), x \notin Range(body) PROVE x \in Range(rest)
    <3>1. PICK i \in 1 .. Len(q) : x = q[i]
      BY <1>0 DEF Range
    <3>2. ~(i <= k)
      BY <1>0, <1>1, <1>3, <2>2, <3>1 DEF Range
    <3>3. i - k \in 1 .. Len(q) - k /\ (i - k) + k = i
      BY <1>0, <3>2
    <3>4. rest[i - k] = x
      BY <1>2, <3>1, <3>3
    <3> QED
      BY <1>3, <3>3, <3>4 DEF Range
  <2> QED
    BY <2>1, <2>2
<1> QED
  BY <1>1, <1>2, <1>4, <1>5, <1>6, <1>7 DEF body, rest

\* What a block does to a transaction of which it has no leg, or one.
LEMMA TimesNone ==
  ASSUME NEW s, NEW t, NEW body, \A x \in Range(body) : x.raw # t
  PROVE  times(debited, s, t, body) = 0 /\ times(credited, s, t, body) = 0
PROOF
<1>1. \A i \in DOMAIN body : body[i].raw # t
  BY DEF Range
<1>2. {i \in DOMAIN body : body[i].raw = t /\ debited(s, body[i])} = {}
      /\ {i \in DOMAIN body : body[i].raw = t /\ credited(s, body[i])} = {}
  BY <1>1
<1> QED
  BY <1>2, FS_EmptySet DEF times

LEMMA TimesOnce ==
  ASSUME NEW s, NEW t, NEW body, IsInjective(body), NEW x \in Range(body), x.raw = t,
         \A y \in Range(body) : y.raw = t => y = x
  PROVE  /\ times(debited, s, t, body) = IF debited(s, x) THEN 1 ELSE 0
         /\ times(credited, s, t, body) = IF credited(s, x) THEN 1 ELSE 0
PROOF
<1>1. PICK j \in DOMAIN body : body[j] = x
  BY DEF Range
<1>2. \A i \in DOMAIN body : body[i].raw = t => i = j
  BY <1>1 DEF Range, IsInjective
<1>3. {i \in DOMAIN body : body[i].raw = t /\ debited(s, body[i])}
        = IF debited(s, x) THEN {j} ELSE {}
  BY <1>1, <1>2
<1>4. {i \in DOMAIN body : body[i].raw = t /\ credited(s, body[i])}
        = IF credited(s, x) THEN {j} ELSE {}
  BY <1>1, <1>2
<1>5. times(debited, s, t, body) = IF debited(s, x) THEN 1 ELSE 0
  BY <1>3, FS_EmptySet, FS_Singleton DEF times
<1>6. times(credited, s, t, body) = IF credited(s, x) THEN 1 ELSE 0
  BY <1>4, FS_EmptySet, FS_Singleton DEF times
<1> QED
  BY <1>5, <1>6

\* HandleinCommit sorts the legs of a block.
LEMMA ReportSorted ==
  ASSUME NEW s \in Shards, NEW body, Range(body) \subseteq ownLegs
  PROVE  sorted(BlockInfo(s, body)) /\ txsOf(BlockInfo(s, body)) = Range(body)
PROOF
<1> DEFINE r == BlockInfo(s, body)
<1>1. /\ r.Broker1Txs = {x \in Range(body) : isBroker1Tx(x) /\ ~isBroker2Tx(x)}
      /\ r.Broker2Txs = {x \in Range(body) : isBroker2Tx(x)}
      /\ r.InnerShardTxs = {x \in Range(body) : ~isBroker1Tx(x) /\ ~isBroker2Tx(x)}
  BY DEF BlockInfo
<1>2. ASSUME NEW x \in Range(body)
      PROVE  /\ isBroker1Tx(x) /\ ~isBroker2Tx(x)
                  => x.raw \in Txs /\ isCross(x.raw) /\ x = first(x.raw)
             /\ isBroker2Tx(x)
                  => x.raw \in Txs /\ isCross(x.raw) /\ x = second(x.raw)
             /\ ~isBroker1Tx(x) /\ ~isBroker2Tx(x)
                  => x.raw \in Txs /\ ~isCross(x.raw) /\ x = first(x.raw)
  BY OwnLegCases, FirstOfTwo, FirstOfOne, SecondOfTwo
<1> HIDE DEF r
<1>3. txsOf(r) = Range(body)
  BY <1>1 DEF txsOf
<1>4. sorted(r)
  BY <1>1, <1>2 DEF sorted
<1> QED
  BY <1>3, <1>4 DEF r

\* What waits for a block is not in a report.
LEMMA WaitingNotReported ==
  ASSUME BrokerInv
  PROVE  /\ waiting \subseteq ownLegs
         /\ waiting \cap reportedTxs = {}
         /\ \A x, y \in waiting : x.raw = y.raw => x = y
PROOF
<1>1. waiting \subseteq ownLegs
  <2>1. \A m \in injectNet : m.tx \in ownLegs
    BY DEF BrokerInv, Queues
  <2>2. \A s \in Shards : Range(TxQueue[s]) \subseteq ownLegs
    BY DEF BrokerInv, Queues, Range
  <2> QED
    BY <2>1, <2>2 DEF waiting
<1>2. ASSUME NEW x \in waiting PROVE x \notin reportedTxs
  <2>1. x.raw \in Txs /\ (x = first(x.raw) \/ (isCross(x.raw) /\ x = second(x.raw)))
    BY <1>1, OwnLegCases
  <2>2. FirstLeg(x.raw) /\ SecondLeg(x.raw)
    BY <2>1 DEF BrokerInv
  <2> QED
    BY <2>1, <2>2 DEF FirstLeg, SecondLeg
<1>3. ASSUME NEW x \in waiting, NEW y \in waiting, x.raw = y.raw PROVE x = y
  <2>1. /\ x.raw \in Txs
        /\ x = first(x.raw) \/ (isCross(x.raw) /\ x = second(x.raw))
        /\ y = first(x.raw) \/ (isCross(x.raw) /\ y = second(x.raw))
    BY <1>1, <1>3, OwnLegCases
  <2>2. FirstLeg(x.raw) /\ SecondLeg(x.raw)
    BY <2>1 DEF BrokerInv
  <2>3. ~(first(x.raw) \in waiting /\ second(x.raw) \in waiting /\ isCross(x.raw))
    BY <2>2 DEF FirstLeg, SecondLeg
  <2> QED
    BY <1>3, <2>1, <2>3
<1> QED
  BY <1>1, <1>2, <1>3

\* What the block of a shard is made of, and what stays in its queue.
LEMMA PackFacts ==
  ASSUME BrokerInv, NEW s \in Shards
  PROVE  LET body == PackTxs(s)
             rest == SubSeq(TxQueue[s], Len(body) + 1, Len(TxQueue[s]))
         IN /\ body \in Seq(ownLegs) /\ IsInjective(body)
            /\ rest \in Seq(ownLegs) /\ IsInjective(rest)
            /\ Range(rest) = Range(TxQueue[s]) \ Range(body)
            /\ Range(body) \subseteq Range(TxQueue[s])
PROOF
<1> DEFINE q == TxQueue[s]
           k == Min({Len(q), BlockSize})
<1>1. q \in Seq(ownLegs) /\ IsInjective(q)
  BY DEF BrokerInv, Queues
<1>2. k \in 0 .. Len(q)
  <2>1. Len(q) \in Nat /\ BlockSize \in Nat
    BY <1>1, BrokerAssumption
  <2> HIDE DEF q
  <2>2. k = IF Len(q) <= BlockSize THEN Len(q) ELSE BlockSize
    BY <2>1, MinOfTwo
  <2> QED
    BY <2>1, <2>2
<1>3. PackTxs(s) = SubSeq(q, 1, k)
  BY DEF PackTxs
<1> HIDE DEF q, k
<1>4. /\ SubSeq(q, 1, k) \in Seq(ownLegs) /\ IsInjective(SubSeq(q, 1, k))
      /\ Len(SubSeq(q, 1, k)) = k
      /\ SubSeq(q, k + 1, Len(q)) \in Seq(ownLegs)
      /\ IsInjective(SubSeq(q, k + 1, Len(q)))
      /\ Range(SubSeq(q, k + 1, Len(q))) = Range(q) \ Range(SubSeq(q, 1, k))
      /\ Range(SubSeq(q, 1, k)) \subseteq Range(q)
  BY <1>1, <1>2, CutQueue
<1> QED
  BY <1>3, <1>4 DEF q

LEMMA MadeAreSeconds ==
  ASSUME Reports
  PROVE  /\ \A x \in made : x.raw \in Txs /\ isCross(x.raw) /\ x = second(x.raw)
         /\ \A x \in confirming : x.raw \in Txs /\ isCross(x.raw) /\ x = second(x.raw)
PROOF
<1>1. ASSUME NEW h \in handling, NEW x \in h.tx2s \cup h.confirm2s
      PROVE  x.raw \in Txs /\ isCross(x.raw) /\ x = second(x.raw)
  <2>1. PICK t \in Txs : isCross(t) /\ x = second(t)
    BY <1>1 DEF Reports, sorted
  <2> QED
    BY <2>1, LegFacts
<1> QED
  BY <1>1 DEF made, confirming

\* What waits for a block is not executed, and what is reported is.
LEMMA ExecutedOnce ==
  ASSUME BrokerInv
  PROVE  /\ waiting \subseteq ownLegs /\ \A x \in waiting : ~executed(x)
         /\ reportedTxs \subseteq ownLegs /\ \A x \in reportedTxs : executed(x)
PROOF
<1>1. reportedTxs \subseteq ownLegs
  <2>1. ASSUME NEW r \in reportNet PROVE txsOf(r) \subseteq ownLegs
    BY DEF BrokerInv, Reports, sorted, txsOf, ownLegs
  <2> QED
    BY <2>1 DEF reportedTxs
<1>2. waiting \subseteq ownLegs
  BY WaitingNotReported
<1>3. ASSUME NEW x \in ownLegs
      PROVE  (x \in waiting => ~executed(x)) /\ (x \in reportedTxs => executed(x))
  <2>1. x.raw \in Txs /\ (x = first(x.raw) \/ (isCross(x.raw) /\ x = second(x.raw)))
    BY OwnLegCases
  <2>2. FirstLeg(x.raw) /\ SecondLeg(x.raw)
    BY <2>1 DEF BrokerInv
  <2>3. first(x.raw).leg # 2 /\ second(x.raw).leg = 2
    BY <2>1, LegFacts
  <2> QED
    BY <2>1, <2>2, <2>3 DEF FirstLeg, SecondLeg, executed
<1> QED
  BY <1>1, <1>2, <1>3

\* The legs in B go from the queues into a report, and are executed.
committed(B) ==
  /\ B \subseteq waiting
  /\ waiting' = waiting \ B /\ reportedTxs' = reportedTxs \cup B
  /\ \A x \in ownLegs : executed(x)' <=> executed(x) \/ x \in B
  /\ UNCHANGED <<handling, RawTx2BrokerTx, unsent>>

\* HandleinCommit of a block with transactions.
LEMMA CommitStep ==
  ASSUME BrokerInv, NEW s \in Shards, HandleinCommit(s)
  PROVE  BrokerInv' /\ committed(Range(PackTxs(s)))
PROOF
<1> DEFINE body == PackTxs(s)
           rest == SubSeq(TxQueue[s], Len(body) + 1, Len(TxQueue[s]))
           B == Range(body)
           r == BlockInfo(s, body)
<1>1. /\ TxQueue' = [TxQueue EXCEPT ![s] = rest]
      /\ debits' = [t \in Txs |-> debits[t] + times(debited, s, t, body)]
      /\ credits' = [t \in Txs |-> credits[t] + times(credited, s, t, body)]
      /\ reportNet' = reportNet \cup {r}
      /\ UNCHANGED <<injectNet, handling, brokerVars, nowDataNum, itx, pc,
                     dataTotalNum, missing, brokerTxMap>>
  BY DEF HandleinCommit, sendReport, config, senderVars, measureVars
<1>2. /\ body \in Seq(ownLegs) /\ IsInjective(body)
      /\ rest \in Seq(ownLegs) /\ IsInjective(rest)
      /\ Range(rest) = Range(TxQueue[s]) \ B
      /\ B \subseteq Range(TxQueue[s])
  BY PackFacts
<1>3. B \subseteq ownLegs
  BY <1>2 DEF Range
<1>4. sorted(r) /\ txsOf(r) = B
  BY <1>3, ReportSorted
<1> HIDE DEF body, rest, B, r
<1>5. /\ TxQueue' \in [Shards -> Seq(ownLegs)] /\ TxQueue'[s] = rest
      /\ \A u \in Shards \ {s} : TxQueue'[u] = TxQueue[u]
  BY <1>1, <1>2 DEF BrokerInv, Queues
<1>6. \A x \in B :
        /\ home(x) = s /\ x \in waiting
        /\ \A u \in Shards \ {s} : x \notin Range(TxQueue[u])
        /\ \A m \in injectNet : m.tx # x
  BY <1>2 DEF BrokerInv, Queues, waiting
<1>7. \A u \in Shards : Range(TxQueue'[u]) = Range(TxQueue[u]) \ B
  BY <1>2, <1>5, <1>6
<1>8. waiting' = waiting \ B
  <2>1. \A x : x \in waiting' <=> (\E m \in injectNet : m.tx = x)
                                  \/ (\E u \in Shards : x \in Range(TxQueue[u]) \ B)
    BY <1>1, <1>7 DEF waiting
  <2>2. \A x : x \in waiting <=> (\E m \in injectNet : m.tx = x)
                                 \/ (\E u \in Shards : x \in Range(TxQueue[u]))
    BY DEF waiting
  <2> QED
    BY <1>6, <2>1, <2>2
<1>9. reportedTxs' = reportedTxs \cup B
  BY <1>1, <1>4 DEF reportedTxs
<1>10. UNCHANGED <<made, confirming>>
  BY <1>1, SameSets
<1>11. UNCHANGED <<BrokerRawMegs, brokerConfirm1Pool, brokerConfirm2Pool, RawTx2BrokerTx>>
  BY <1>1 DEF brokerVars
<1>12. unsent' = unsent
  BY <1>1 DEF unsent, sentRows
<1>13. Queues'
  <2>1. \A m \in injectNet' :
          /\ m = [to |-> home(m.tx), tx |-> m.tx] /\ m.tx \in ownLegs
          /\ \A u \in Shards : m.tx \notin Range(TxQueue'[u])
    BY <1>1, <1>7 DEF BrokerInv, Queues
  <2>2. \A u \in Shards : IsInjective(TxQueue'[u])
    BY <1>2, <1>5 DEF BrokerInv, Queues
  <2>3. \A u \in Shards : \A x \in Range(TxQueue'[u]) : home(x) = u
    BY <1>7 DEF BrokerInv, Queues
  <2> QED
    BY <1>5, <2>1, <2>2, <2>3 DEF Queues
<1>14. Reports'
  <2>1. \A q \in reportNet : txsOf(q) \cap B = {}
    BY <1>6, WaitingNotReported DEF reportedTxs
  <2>2. \A q \in reportNet' : sorted(q)
    BY <1>1, <1>4 DEF BrokerInv, Reports
  <2>3. \A p, q \in reportNet' : p # q => txsOf(p) \cap txsOf(q) = {}
    BY <1>1, <1>4, <2>1 DEF BrokerInv, Reports
  <2> QED
    BY <1>1, <2>2, <2>3 DEF BrokerInv, Reports
<1>15. Known' /\ Measured'
  BY <1>1, <1>11, SameKnown, SameMeasured DEF BrokerInv
<1>a. \A x, y \in B : x.raw = y.raw => x = y
  BY <1>6, WaitingNotReported
<1>b. ASSUME NEW t \in Txs
      PROVE  /\ debits'[t] = IF first(t) \in B THEN debits[t] + 1 ELSE debits[t]
             /\ credits'[t] = IF (IF isCross(t) THEN second(t) ELSE first(t)) \in B
                              THEN credits[t] + 1 ELSE credits[t]
  <2>1. /\ first(t).raw = t /\ second(t).raw = t /\ first(t) # second(t)
        /\ debits[t] \in Nat /\ credits[t] \in Nat
        /\ debits'[t] = debits[t] + times(debited, s, t, body)
        /\ credits'[t] = credits[t] + times(credited, s, t, body)
    BY <1>1, LegFacts DEF BrokerInv
  <2>2. CASE first(t) \in B
    <3>1. /\ times(debited, s, t, body) = IF debited(s, first(t)) THEN 1 ELSE 0
          /\ times(credited, s, t, body) = IF credited(s, first(t)) THEN 1 ELSE 0
          /\ second(t) \notin B
      BY <1>2, <1>a, <2>1, <2>2, TimesOnce DEF B
    <3>2. debited(s, first(t)) /\ (isCross(t) <=> ~credited(s, first(t)))
      BY <1>6, <2>2, FirstOfTwo, FirstOfOne
    <3> QED
      BY <2>1, <2>2, <3>1, <3>2
  <2>3. CASE isCross(t) /\ second(t) \in B
    <3>1. /\ times(debited, s, t, body) = IF debited(s, second(t)) THEN 1 ELSE 0
          /\ times(credited, s, t, body) = IF credited(s, second(t)) THEN 1 ELSE 0
          /\ first(t) \notin B
      BY <1>2, <1>a, <2>1, <2>3, TimesOnce DEF B
    <3>2. ~debited(s, second(t)) /\ credited(s, second(t))
      BY <1>6, <2>3, SecondOfTwo
    <3> QED
      BY <2>1, <2>3, <3>1, <3>2
  <2>4. CASE first(t) \notin B /\ ~(isCross(t) /\ second(t) \in B)
    <3>1. \A x \in B : x.raw # t
      BY <1>3, <2>4, OwnLegCases
    <3>2. times(debited, s, t, body) = 0 /\ times(credited, s, t, body) = 0
      BY <3>1, TimesNone DEF B
    <3> QED
      BY <2>1, <2>4, <3>2
  <2> QED
    BY <2>2, <2>3, <2>4
<1>16. ASSUME NEW t \in Txs
       PROVE  /\ FirstLeg(t)' /\ SecondLeg(t)'
              /\ debits'[t] \in Nat /\ credits'[t] \in Nat
  <2>0. FirstLeg(t) /\ SecondLeg(t)
    BY DEF BrokerInv
  <2>t. /\ first(t).raw = t /\ second(t).raw = t /\ first(t) # second(t)
        /\ debits[t] \in Nat /\ credits[t] \in Nat
    BY LegFacts DEF BrokerInv
  <2>a. \A x \in B : x.raw = t => x = first(t) \/ (isCross(t) /\ x = second(t))
    BY <1>3, OwnLegCases
  <2>n. debits'[t] \in Nat /\ credits'[t] \in Nat
    BY <1>b, <2>t
  <2>1. CASE first(t) \in B
    <3>1. first(t) \in waiting /\ second(t) \notin B /\ debits[t] = 0 /\ RawTx2BrokerTx[t] = <<>>
      BY <1>6, <1>a, <2>0, <2>1, <2>t DEF FirstLeg
    <3>2. debits'[t] = 1 /\ credits'[t] = IF isCross(t) THEN credits[t] ELSE 1
      BY <1>b, <2>0, <2>1, <2>t, <3>1 DEF FirstLeg
    <3>3. isCross(t) \/ second(t) \notin made \cup waiting
      <4>1. \A x \in waiting : x = second(t) => isCross(t)
        BY <2>t, WaitingNotReported, OwnLegCases
      <4>2. \A x \in made : x = second(t) => isCross(t)
        BY <2>t, MadeAreSeconds DEF BrokerInv
      <4> QED
        BY <4>1, <4>2
    <3>4. FirstLeg(t)'
      BY <1>8, <1>9, <1>11, <1>12, <2>0, <2>1, <3>1, <3>2 DEF FirstLeg
    <3>5. SecondLeg(t)'
      BY <1>8, <1>9, <1>10, <1>11, <2>0, <3>1, <3>2, <3>3 DEF SecondLeg
    <3> QED
      BY <2>n, <3>4, <3>5
  <2>2. CASE isCross(t) /\ second(t) \in B
    <3>1. /\ second(t) \in waiting /\ first(t) \notin B /\ debits[t] = 1 /\ credits[t] = 0
      BY <1>6, <1>a, <2>0, <2>2, <2>t DEF FirstLeg, SecondLeg
    <3>2. credits'[t] = 1 /\ debits'[t] = debits[t]
      BY <1>b, <2>2, <3>1
    <3>3. FirstLeg(t)'
      BY <1>8, <1>9, <1>11, <1>12, <2>0, <2>2, <3>1, <3>2 DEF FirstLeg
    <3>4. SecondLeg(t)'
      BY <1>8, <1>9, <1>10, <1>11, <2>0, <2>2, <3>1, <3>2 DEF FirstLeg, SecondLeg
    <3> QED
      BY <2>n, <3>3, <3>4
  <2>3. CASE first(t) \notin B /\ ~(isCross(t) /\ second(t) \in B)
    <3>1. debits'[t] = debits[t] /\ credits'[t] = credits[t]
      BY <1>b, <2>3
    <3>2. second(t) \notin B
      BY <2>3, <2>a, <2>t
    <3>3. FirstLeg(t)'
      BY <1>8, <1>9, <1>11, <1>12, <2>0, <2>3, <3>1 DEF FirstLeg
    <3>4. SecondLeg(t)'
      BY <1>8, <1>9, <1>10, <1>11, <2>0, <3>1, <3>2 DEF SecondLeg
    <3> QED
      BY <2>n, <3>3, <3>4
  <2> QED
    BY <2>1, <2>2, <2>3
<1>17. debits' \in [Txs -> Nat] /\ credits' \in [Txs -> Nat]
  <2>1. DOMAIN debits' = Txs /\ DOMAIN credits' = Txs
        /\ debits' = [t \in Txs |-> debits'[t]] /\ credits' = [t \in Txs |-> credits'[t]]
    BY <1>1
  <2> QED
    BY <1>16, <2>1
<1>18. ASSUME NEW x \in ownLegs PROVE executed(x)' <=> executed(x) \/ x \in B
  <2>1. x.raw \in Txs /\ (x = first(x.raw) \/ (isCross(x.raw) /\ x = second(x.raw)))
    BY OwnLegCases
  <2>2. x \in B => ~executed(x)
    BY <1>6, ExecutedOnce
  <2>3. FirstLeg(x.raw) /\ SecondLeg(x.raw) /\ first(x.raw).leg # 2 /\ second(x.raw).leg = 2
    BY <2>1, LegFacts DEF BrokerInv
  <2>4. CASE x = first(x.raw)
    <3>1. (executed(x) <=> debits[x.raw] = 1) /\ (executed(x)' <=> debits'[x.raw] = 1)
      BY <2>3, <2>4 DEF executed
    <3>2. debits[x.raw] \in {0, 1}
      BY <2>3 DEF FirstLeg
    <3>3. debits'[x.raw] = IF x \in B THEN debits[x.raw] + 1 ELSE debits[x.raw]
      BY <1>b, <2>1, <2>4
    <3> QED
      BY <2>2, <3>1, <3>2, <3>3
  <2>5. CASE isCross(x.raw) /\ x = second(x.raw)
    <3>1. (executed(x) <=> credits[x.raw] = 1) /\ (executed(x)' <=> credits'[x.raw] = 1)
      BY <2>3, <2>5 DEF executed
    <3>2. credits[x.raw] \in {0, 1}
      BY <2>3 DEF SecondLeg
    <3>3. credits'[x.raw] = IF x \in B THEN credits[x.raw] + 1 ELSE credits[x.raw]
      BY <1>b, <2>1, <2>5
    <3> QED
      BY <2>2, <3>1, <3>2, <3>3
  <2> QED
    BY <2>1, <2>4, <2>5
<1>19. committed(B)
  BY <1>1, <1>6, <1>8, <1>9, <1>11, <1>12, <1>18 DEF committed
<1>20. BrokerInv'
  BY <1>11, <1>13, <1>14, <1>15, <1>16, <1>17 DEF BrokerInv
<1> QED
  BY <1>19, <1>20 DEF B, body

-----------------------------------------------------------------------------
(***************************************************************************)
(* The handlers of the supervisor.                                         *)
(***************************************************************************)

\* The legs of a report are in the books, and every first leg makes its second.
LEMMA ConfirmFacts ==
  ASSUME BrokerInv, NEW r \in reportNet
  PROVE  LET c == createConfirm(r)
         IN /\ c.confirm1s = r.Broker1Txs /\ c.confirm2s = r.Broker2Txs
            /\ \A x \in r.Broker1Txs :
                 /\ x.raw \in Txs /\ isCross(x.raw) /\ x = first(x.raw)
                 /\ x.raw \in BrokerRawMegs
                 /\ RawTx2BrokerTx[x.raw] = <<>>
                 /\ tx2Of(x) = second(x.raw)
            /\ \A x \in r.Broker2Txs :
                 x.raw \in Txs /\ isCross(x.raw) /\ x = second(x.raw)
PROOF
<1>1. sorted(r) /\ txsOf(r) \subseteq reportedTxs
  BY DEF BrokerInv, Reports, reportedTxs
<1>2. ASSUME NEW x \in r.Broker1Txs
      PROVE  /\ x.raw \in Txs /\ isCross(x.raw) /\ x = first(x.raw)
             /\ x.raw \in BrokerRawMegs /\ x \in brokerConfirm1Pool
             /\ RawTx2BrokerTx[x.raw] = <<>>
             /\ tx2Of(x) = second(x.raw)
  <2>1. PICK t \in Txs : isCross(t) /\ x = first(t)
    BY <1>1, <1>2 DEF sorted
  <2>2. x.raw = t /\ x \in reportedTxs
    BY <1>1, <2>1, LegFacts DEF txsOf
  <2>3. FirstLeg(t)
    BY DEF BrokerInv
  <2>4. t \notin unsent /\ RawTx2BrokerTx[t] = <<>>
    BY <2>1, <2>2, <2>3 DEF FirstLeg
  <2>5. t \in BrokerRawMegs
    BY <2>1, <2>4 DEF unsent, BrokerInv, Known
  <2>6. x \in brokerConfirm1Pool
    BY <2>1, <2>5 DEF BrokerInv, Known
  <2>7. tx2Of(x) = second(t)
    BY <2>2, <2>4 DEF tx2Of, second
  <2> QED
    BY <2>1, <2>2, <2>4, <2>5, <2>6, <2>7
<1>3. ASSUME NEW x \in r.Broker2Txs
      PROVE  /\ x.raw \in Txs /\ isCross(x.raw) /\ x = second(x.raw)
             /\ x \in brokerConfirm2Pool
  <2>1. PICK t \in Txs : isCross(t) /\ x = second(t)
    BY <1>1, <1>3 DEF sorted
  <2>2. x.raw = t /\ x \in reportedTxs
    BY <1>1, <2>1, LegFacts DEF txsOf
  <2>3. SecondLeg(t)
    BY DEF BrokerInv
  <2>4. RawTx2BrokerTx[t] # <<>>
    BY <2>1, <2>2, <2>3 DEF SecondLeg
  <2>5. x \in brokerConfirm2Pool
    BY <2>1, <2>4 DEF BrokerInv, Known
  <2> QED
    BY <2>1, <2>2, <2>5
<1>4. ASSUME NEW x \in r.Broker2Txs PROVE x \notin brokerConfirm1Pool
  <2>1. x.leg = 2
    BY <1>3, LegFacts
  <2>2. ASSUME NEW t \in BrokerRawMegs PROVE first(t) # x
    <3>1. t \in Txs /\ isCross(t)
      BY SentAreTxs DEF BrokerInv, Known
    <3> QED
      BY <2>1, <3>1, LegFacts
  <2> QED
    BY <2>2 DEF BrokerInv, Known
<1>5. ASSUME NEW x \in r.Broker1Txs PROVE x \notin brokerConfirm2Pool
  <2>1. x.leg = 1
    BY <1>2, LegFacts
  <2>2. ASSUME NEW t \in Txs PROVE second(t) # x
    BY <2>1, LegFacts
  <2> QED
    BY <2>2 DEF BrokerInv, Known
<1>6. createConfirm(r).confirm1s = r.Broker1Txs
  BY <1>2, <1>4 DEF createConfirm
<1>7. createConfirm(r).confirm2s = r.Broker2Txs
  BY <1>3, <1>5 DEF createConfirm
<1> QED
  BY <1>2, <1>3, <1>6, <1>7

\* The report r is taken in hand, and its first legs make their second ones.
taken(r) ==
  /\ txsOf(r) \subseteq reportedTxs /\ reportedTxs' = reportedTxs \ txsOf(r)
  /\ inHand = {} /\ inHand' = txsOf(r)
  /\ made = {} /\ confirming = {}
  /\ \A t \in Txs : /\ isCross(t) /\ first(t) \in txsOf(r) =>
                         second(t) \in made' /\ RawTx2BrokerTx'[t] # <<>>
                    /\ RawTx2BrokerTx'[t] # RawTx2BrokerTx[t] =>
                         second(t) \in made' /\ RawTx2BrokerTx[t] = <<>>
                    /\ second(t) \in txsOf(r) => second(t) \in confirming'
  /\ UNCHANGED <<waiting, unsent, debits, credits>>

\* handleBlockInfos up to the sending: the first legs of the report are
\* confirmed and their second legs made.
LEMMA BlockInfosStep ==
  ASSUME BrokerInv, NEW r \in reportNet, handleBlockInfos(r)
  PROVE  BrokerInv' /\ taken(r)
PROOF
<1> DEFINE T == {t \in Txs : first(t) \in r.Broker1Txs}
           h == [report |-> r, tx2s |-> {second(t) : t \in T},
                 confirm2s |-> r.Broker2Txs, sent |-> FALSE]
           c == createConfirm(r)
<1>0. /\ c.confirm1s = r.Broker1Txs /\ c.confirm2s = r.Broker2Txs
      /\ \A x \in r.Broker1Txs :
           /\ x.raw \in Txs /\ isCross(x.raw) /\ x = first(x.raw)
           /\ x.raw \in BrokerRawMegs
           /\ RawTx2BrokerTx[x.raw] = <<>>
           /\ tx2Of(x) = second(x.raw)
      /\ \A x \in r.Broker2Txs :
           x.raw \in Txs /\ isCross(x.raw) /\ x = second(x.raw)
  BY ConfirmFacts
<1>1. \A t \in T : isCross(t) /\ RawTx2BrokerTx[t] = <<>>
  BY <1>0, LegFacts
<1>2. newTx2s(c.confirm1s) = {second(t) : t \in T}
  <2>1. {y \in c.confirm1s : y.raw \in BrokerRawMegs} = r.Broker1Txs
    BY <1>0
  <2>2. newTx2s(c.confirm1s) = {tx2Of(x) : x \in r.Broker1Txs}
    BY <2>1 DEF newTx2s
  <2>3. ASSUME NEW x \in r.Broker1Txs PROVE tx2Of(x) \in {second(t) : t \in T}
    BY <1>0
  <2>4. ASSUME NEW t \in T PROVE second(t) \in {tx2Of(x) : x \in r.Broker1Txs}
    BY <1>0, LegFacts
  <2> QED
    BY <2>2, <2>3, <2>4
<1>3. \A t \in Txs : RawTx2BrokerTx'[t] = IF t \in T THEN <<first(t)>> ELSE RawTx2BrokerTx[t]
  <2> SUFFICES ASSUME NEW t \in Txs
               PROVE  RawTx2BrokerTx'[t] = IF t \in T THEN <<first(t)>> ELSE RawTx2BrokerTx[t]
    OBVIOUS
  <2> DEFINE known == {x \in c.confirm1s : x.raw \in BrokerRawMegs}
  <2>1. known = r.Broker1Txs
    BY <1>0
  <2>2. RawTx2BrokerTx'[t] =
          IF \E x \in known : x.raw = t
          THEN Append(RawTx2BrokerTx[t], CHOOSE x \in known : x.raw = t)
          ELSE RawTx2BrokerTx[t]
    BY DEF handleBlockInfos, handleTx1ConfirmMag
  <2>3. (\E x \in known : x.raw = t) <=> t \in T
    BY <1>0, <2>1, LegFacts
  <2> HIDE DEF known
  <2>4. ASSUME t \in T
        PROVE  (CHOOSE x \in known : x.raw = t) = first(t)
    <3>1. \A x \in known : x.raw = t => x = first(t)
      BY <1>0, <2>1
    <3> QED
      BY <2>3, <2>4, <3>1
  <2>5. ASSUME t \in T PROVE RawTx2BrokerTx[t] = <<>>
    BY <1>1, <2>5
  <2> HIDE DEF T
  <2>6. CASE t \in T
    <3>1. RawTx2BrokerTx'[t] = Append(<<>>, first(t))
      BY <2>2, <2>3, <2>4, <2>5, <2>6
    <3> QED
      BY <2>6, <3>1
  <2>7. CASE t \notin T
    BY <2>2, <2>3, <2>7
  <2> QED
    BY <2>6, <2>7
<1>4. /\ reportNet' = reportNet \ {r} /\ handling = {} /\ handling' = {h}
      /\ brokerConfirm2Pool' = brokerConfirm2Pool \cup {second(t) : t \in T}
      /\ DOMAIN RawTx2BrokerTx' = Txs
      /\ RawTx2BrokerTx' = [t \in Txs |-> RawTx2BrokerTx'[t]]
      /\ UNCHANGED <<BrokerRawMegs, brokerConfirm1Pool, injectNet, TxQueue, nowDataNum,
                     itx, pc, dataTotalNum, debits, credits, missing, brokerTxMap>>
  <2>1. handling = {} /\ handling' = {h}
    BY <1>0, <1>2 DEF handleBlockInfos, tcpLockFree
  <2> QED
    BY <1>2, <2>1 DEF handleBlockInfos, handleTx1ConfirmMag, config, senderVars,
       measureVars, shardVars
<1>5. sorted(r) /\ \A q \in reportNet \ {r} : txsOf(q) \cap txsOf(r) = {}
  BY DEF BrokerInv, Reports
<1>6. waiting' = waiting /\ reportedTxs' = reportedTxs \ txsOf(r)
      /\ txsOf(r) \subseteq reportedTxs
  <2>1. waiting' = waiting
    BY <1>4, SameSets
  <2>2. reportedTxs' = reportedTxs \ txsOf(r)
    BY <1>4, <1>5 DEF reportedTxs
  <2> QED
    BY <2>1, <2>2 DEF reportedTxs
<1>7. /\ made = {} /\ confirming = {} /\ made' = {second(t) : t \in T}
      /\ confirming' = r.Broker2Txs
  <2>1. h.tx2s = {second(t) : t \in T} /\ h.confirm2s = r.Broker2Txs /\ ~h.sent
    OBVIOUS
  <2>2. made = {} /\ confirming = {}
    BY <1>4 DEF made, confirming
  <2> HIDE DEF h, T
  <2>3. {g \in handling' : ~g.sent} = {h}
    BY <1>4, <2>1
  <2>4. made' = h.tx2s
    BY <2>3 DEF made
  <2>5. confirming' = h.confirm2s
    BY <1>4 DEF confirming
  <2> QED
    BY <2>1, <2>2, <2>4, <2>5
<1>8. unsent' = unsent
  BY <1>4 DEF unsent, sentRows
<1>9. ASSUME NEW t \in Txs PROVE FirstLeg(t)' /\ SecondLeg(t)'
  <2>0. FirstLeg(t) /\ SecondLeg(t)
    BY DEF BrokerInv
  <2>1. /\ first(t) # second(t)
        /\ second(t) \in made' <=> t \in T
        /\ second(t) \in txsOf(r) => second(t) \in r.Broker2Txs
        /\ first(t) \in txsOf(r) /\ isCross(t) => t \in T
        /\ second(t) \in r.Broker2Txs => isCross(t)
    <3>1. first(t) # second(t) /\ (second(t) \in made' <=> t \in T)
      BY <1>7, LegFacts
    <3>2. second(t) \in txsOf(r) => second(t) \in r.Broker2Txs
      BY <1>5, LegFacts DEF txsOf, sorted
    <3>3. first(t) \in txsOf(r) /\ isCross(t) => t \in T
      BY <1>5, LegFacts DEF txsOf, sorted
    <3>4. second(t) \in r.Broker2Txs => isCross(t)
      BY <1>0, LegFacts
    <3> QED
      BY <3>1, <3>2, <3>3, <3>4
  <2>2. r.Broker2Txs \subseteq txsOf(r) /\ (t \in T => first(t) \in txsOf(r))
    BY DEF txsOf
  <2>3. RawTx2BrokerTx'[t] = IF t \in T THEN <<first(t)>> ELSE RawTx2BrokerTx[t]
    BY <1>3
  <2>4. t \in T => isCross(t) /\ RawTx2BrokerTx[t] = <<>>
    BY <1>1
  <2>5. debits'[t] = debits[t] /\ credits'[t] = credits[t]
    BY <1>4
  <2>6. <<first(t)>> # <<>> /\ <<first(t)>> # <<first(t), second(t)>>
    OBVIOUS
  <2> HIDE DEF T
  <2>7. FirstLeg(t)'
    BY <1>6, <1>8, <2>0, <2>1, <2>2, <2>3, <2>4, <2>5 DEF FirstLeg
  <2>8. SecondLeg(t)'
    BY <1>6, <1>7, <2>0, <2>1, <2>2, <2>3, <2>4, <2>5, <2>6 DEF SecondLeg
  <2> QED
    BY <2>7, <2>8
<1>10. Queues'
  BY <1>4, SameQueues DEF BrokerInv
<1>11. Reports'
  <2>1. \A q \in reportNet' : sorted(q)
    BY <1>4 DEF BrokerInv, Reports
  <2>2. \A p, q \in reportNet' : p # q => txsOf(p) \cap txsOf(q) = {}
    BY <1>4 DEF BrokerInv, Reports
  <2>3. {second(t) : t \in T} \subseteq {second(t) : t \in {u \in Txs : isCross(u)}}
    BY <1>1
  <2>4. ASSUME NEW g \in handling'
        PROVE  /\ handling' = {g}
               /\ g = [report |-> g.report, tx2s |-> g.tx2s, confirm2s |-> g.confirm2s,
                       sent |-> g.sent]
               /\ g.sent \in BOOLEAN
               /\ sorted(g.report)
               /\ g.tx2s \subseteq {second(t) : t \in {u \in Txs : isCross(u)}}
               /\ g.confirm2s = g.report.Broker2Txs
    <3>1. g = h
      BY <1>4, <2>4
    <3>2. g.report = r /\ g.tx2s = {second(t) : t \in T} /\ g.confirm2s = r.Broker2Txs
          /\ g.sent = FALSE
      BY <3>1
    <3> QED
      BY <1>4, <1>5, <2>3, <3>1, <3>2
  <2> QED
    BY <2>1, <2>2, <2>4 DEF Reports
<1>12. Known'
  <2>1. {u \in Txs : RawTx2BrokerTx'[u] # <<>>} = {u \in Txs : RawTx2BrokerTx[u] # <<>>} \cup T
    <3>1. \A u \in Txs : <<first(u)>> # <<>>
      OBVIOUS
    <3>2. T \subseteq Txs
      OBVIOUS
    <3> HIDE DEF T
    <3> QED
      BY <1>3, <3>1, <3>2
  <2>2. brokerConfirm2Pool' = {second(t) : t \in {u \in Txs : RawTx2BrokerTx'[u] # <<>>}}
    BY <1>4, <2>1 DEF BrokerInv, Known
  <2>3. sentRows' = sentRows
    BY <1>4 DEF sentRows
  <2> QED
    BY <1>4, <2>2, <2>3 DEF BrokerInv, Known
<1>13. Measured'
  <2>1. ASSUME NEW t \in Txs, RawTx2BrokerTx'[t] # <<>>
        PROVE  t \in brokerTxMap' \/ \E g \in handling' : first(t) \in g.report.Broker1Txs
    <3>1. CASE t \in T
      BY <1>4, <3>1
    <3>2. CASE t \notin T
      BY <1>3, <1>4, <2>1, <3>2 DEF BrokerInv, Measured
    <3> QED
      BY <3>1, <3>2
  <2>2. ASSUME NEW g \in handling', NEW x \in g.report.Broker2Txs
        PROVE  x.raw \in brokerTxMap'
    <3>1. x \in r.Broker2Txs
      BY <1>4, <2>2
    <3>2. x.raw \in Txs /\ isCross(x.raw) /\ x = second(x.raw) /\ x \in reportedTxs
      BY <1>0, <1>6, <3>1 DEF txsOf
    <3>3. SecondLeg(x.raw)
      BY <3>2 DEF BrokerInv
    <3>4. RawTx2BrokerTx[x.raw] # <<>>
      BY <3>2, <3>3 DEF SecondLeg
    <3> QED
      BY <1>4, <3>2, <3>4 DEF BrokerInv, Measured
  <2> QED
    BY <1>4, <2>1, <2>2 DEF BrokerInv, Measured
<1>14. RawTx2BrokerTx' \in [Txs -> Seq(Legs)]
  <2>1. \A t \in Txs : RawTx2BrokerTx'[t] \in Seq(Legs)
    <3>1. \A t \in Txs : <<first(t)>> \in Seq(Legs)
      BY LegFacts
    <3>2. \A t \in Txs : RawTx2BrokerTx[t] \in Seq(Legs)
      BY DEF BrokerInv
    <3> HIDE DEF T
    <3> QED
      BY <1>3, <3>1, <3>2
  <2> QED
    BY <1>4, <2>1
<1>15. BrokerInv'
  BY <1>4, <1>9, <1>10, <1>11, <1>12, <1>13, <1>14 DEF BrokerInv
<1>16. inHand = {} /\ inHand' = txsOf(r)
  <2>1. h.report = r
    OBVIOUS
  <2> HIDE DEF h
  <2> QED
    BY <1>4, <2>1 DEF inHand
<1>17. ASSUME NEW t \in Txs
       PROVE  /\ isCross(t) /\ first(t) \in txsOf(r) =>
                   second(t) \in made' /\ RawTx2BrokerTx'[t] # <<>>
              /\ RawTx2BrokerTx'[t] # RawTx2BrokerTx[t] =>
                   second(t) \in made' /\ RawTx2BrokerTx[t] = <<>>
              /\ second(t) \in txsOf(r) => second(t) \in confirming'
  <2>1. second(t) \in txsOf(r) => second(t) \in r.Broker2Txs
    BY <1>5, LegFacts DEF txsOf, sorted
  <2>2. isCross(t) /\ first(t) \in txsOf(r) => t \in T
    BY <1>5, LegFacts DEF txsOf, sorted
  <2>3. t \in T => second(t) \in made' /\ RawTx2BrokerTx[t] = <<>>
    BY <1>1, <1>7
  <2>4. RawTx2BrokerTx'[t] = (IF t \in T THEN <<first(t)>> ELSE RawTx2BrokerTx[t])
        /\ <<first(t)>> # <<>>
    BY <1>3
  <2> HIDE DEF T
  <2> QED
    BY <1>7, <2>1, <2>2, <2>3, <2>4
<1>18. taken(r)
  BY <1>4, <1>6, <1>7, <1>8, <1>16, <1>17 DEF taken
<1> QED
  BY <1>15, <1>18

LEMMA SetSent ==
  ASSUME NEW a, NEW b, NEW c, NEW d, NEW e, NEW h,
         h = [report |-> a, tx2s |-> b, confirm2s |-> c, sent |-> d]
  PROVE  [h EXCEPT !.sent = e] = [report |-> a, tx2s |-> b, confirm2s |-> c, sent |-> e]
  OBVIOUS

\* handleBrokerType2Mes: the second legs that were made are sent.
LEMMA Type2Step ==
  ASSUME BrokerInv, NEW h \in handling, handleBrokerType2Mes(h)
  PROVE  /\ BrokerInv' /\ waiting' = waiting \cup made
         /\ UNCHANGED <<reportedTxs, confirming, inHand, RawTx2BrokerTx, unsent, debits, credits>>
PROOF
<1> DEFINE g == [h EXCEPT !.sent = TRUE]
<1>1. /\ injectNet' = injectNet \cup txSending(h.tx2s) /\ ~h.sent
      /\ handling' = (handling \ {h}) \cup {g}
      /\ UNCHANGED <<TxQueue, reportNet, brokerVars, nowDataNum, itx, pc,
                     dataTotalNum, debits, credits, missing, brokerTxMap>>
  BY DEF handleBrokerType2Mes, config, senderVars, measureVars, shardVars
<1>2. /\ handling = {h} /\ sorted(h.report)
      /\ h = [report |-> h.report, tx2s |-> h.tx2s, confirm2s |-> h.confirm2s, sent |-> h.sent]
      /\ h.tx2s \subseteq {second(t) : t \in {u \in Txs : isCross(u)}}
      /\ h.confirm2s = h.report.Broker2Txs
  BY DEF BrokerInv, Reports
<1>3. g = [report |-> h.report, tx2s |-> h.tx2s, confirm2s |-> h.confirm2s, sent |-> TRUE]
  <2>1. \A e : [h EXCEPT !.sent = e]
               = [report |-> h.report, tx2s |-> h.tx2s, confirm2s |-> h.confirm2s, sent |-> e]
    BY <1>2, SetSent
  <2> QED
    BY <2>1, Zenon
<1> HIDE DEF g
<1>4. /\ g.report = h.report /\ g.tx2s = h.tx2s /\ g.confirm2s = h.confirm2s
      /\ g.sent = TRUE
  BY <1>3
<1>5. handling' = {g}
  BY <1>1, <1>2
<1>6. made = h.tx2s /\ confirming = h.confirm2s
  BY <1>1, <1>2 DEF made, confirming
<1>7. made' = {} /\ confirming' = confirming
  <2>1. {k \in handling' : ~k.sent} = {}
    BY <1>4, <1>5
  <2>2. made' = {}
    BY <2>1 DEF made
  <2>3. confirming' = g.confirm2s
    BY <1>5 DEF confirming
  <2> QED
    BY <1>4, <1>6, <2>2, <2>3
<1>8. Queues' /\ waiting' = waiting \cup made
  <2>1. h.tx2s \in SUBSET ownLegs
    BY <1>2 DEF ownLegs
  <2>2. h.tx2s \cap waiting = {}
    <3> SUFFICES ASSUME NEW x \in made, x \in waiting PROVE FALSE
      BY <1>6
    <3>1. x.raw \in Txs /\ x = second(x.raw)
      BY MadeAreSeconds DEF BrokerInv
    <3>2. SecondLeg(x.raw)
      BY <3>1 DEF BrokerInv
    <3> QED
      BY <3>1, <3>2 DEF SecondLeg
  <2> QED
    BY <1>1, <1>6, <2>1, <2>2, SendLegs DEF BrokerInv
<1>9. reportedTxs' = reportedTxs
  BY <1>1, SameSets
<1>10. UNCHANGED <<BrokerRawMegs, brokerConfirm1Pool, brokerConfirm2Pool, RawTx2BrokerTx>>
  BY <1>1 DEF brokerVars
<1>11. unsent' = unsent
  BY <1>1 DEF unsent, sentRows
<1>12. ASSUME NEW t \in Txs PROVE FirstLeg(t)' /\ SecondLeg(t)'
  <2>0. FirstLeg(t) /\ SecondLeg(t)
    BY DEF BrokerInv
  <2>1. first(t) \notin made
    <3> SUFFICES ASSUME first(t) \in made PROVE FALSE
      OBVIOUS
    <3>1. first(t) = second(first(t).raw) /\ first(t).raw = t
      BY MadeAreSeconds, LegFacts DEF BrokerInv
    <3> QED
      BY <3>1, LegFacts
  <2>2. debits'[t] = debits[t] /\ credits'[t] = credits[t]
    BY <1>1
  <2>3. FirstLeg(t)'
    BY <1>8, <1>9, <1>10, <1>11, <2>0, <2>1, <2>2 DEF FirstLeg
  <2>4. SecondLeg(t)'
    BY <1>7, <1>8, <1>9, <1>10, <2>0, <2>2 DEF SecondLeg
  <2> QED
    BY <2>3, <2>4
<1>13. Reports'
  <2>1. \A k \in handling' :
          /\ handling' = {k}
          /\ k = [report |-> k.report, tx2s |-> k.tx2s, confirm2s |-> k.confirm2s,
                  sent |-> k.sent]
          /\ k.sent \in BOOLEAN
          /\ sorted(k.report)
          /\ k.tx2s \subseteq {second(t) : t \in {u \in Txs : isCross(u)}}
          /\ k.confirm2s = k.report.Broker2Txs
    BY <1>2, <1>3, <1>4, <1>5
  <2> QED
    BY <1>1, <2>1 DEF BrokerInv, Reports
<1>14. Known'
  BY <1>1, <1>10, SameKnown DEF BrokerInv
<1>15. Measured'
  BY <1>1, <1>2, <1>4, <1>5, <1>10 DEF BrokerInv, Measured
<1>16. BrokerInv'
  BY <1>1, <1>8, <1>10, <1>12, <1>13, <1>14, <1>15 DEF BrokerInv
<1>17. inHand' = inHand
  BY <1>2, <1>4, <1>5 DEF inHand
<1> QED
  BY <1>1, <1>7, <1>8, <1>9, <1>10, <1>11, <1>16, <1>17

LEMMA PairConcat ==
  ASSUME NEW S, NEW x \in S, NEW y \in S
  PROVE  <<x>> \o <<y>> = <<x, y>>
PROOF
<1> DEFINE p == <<x>> \o <<y>>
<1>1. /\ p \in Seq(S) /\ Len(p) = 2
      /\ p[1] = x /\ p[2] = y
  OBVIOUS
<1>2. <<x, y>> \in Seq(S) /\ Len(<<x, y>>) = 2 /\ <<x, y>>[1] = x /\ <<x, y>>[2] = y
  OBVIOUS
<1> HIDE DEF p
<1>3. \A i \in 1 .. 2 : p[i] = <<x, y>>[i]
  BY <1>1, <1>2
<1> QED
  BY <1>1, <1>2, <1>3, SeqEqual DEF p

\* What SetToSeq makes of no element and of one.
LEMMA SmallSetToSeq ==
  ASSUME NEW x
  PROVE  SetToSeq({}) = <<>> /\ SetToSeq({x}) = <<x>>
PROOF
<1>1. SetToSeq({}) = <<>>
  <2>1. SetToSeq({}) = CHOOSE g \in [1 .. 0 -> {}] : IsInjective(g)
    BY FS_EmptySet DEF SetToSeq
  <2>2. <<>> \in [1 .. 0 -> {}] /\ IsInjective(<<>>)
    BY DEF IsInjective
  <2>3. \A g \in [1 .. 0 -> {}] : g = <<>>
    OBVIOUS
  <2> QED
    BY <2>1, <2>2, <2>3
<1>2. SetToSeq({x}) = <<x>>
  <2>1. SetToSeq({x}) = CHOOSE g \in [1 .. 1 -> {x}] : IsInjective(g)
    BY FS_Singleton DEF SetToSeq
  <2>2. <<x>> \in [1 .. 1 -> {x}] /\ IsInjective(<<x>>)
    BY DEF IsInjective
  <2>3. \A g \in [1 .. 1 -> {x}] : g = <<x>>
    OBVIOUS
  <2> QED
    BY <2>1, <2>2, <2>3
<1> QED
  BY <1>1, <1>2

\* The report in hand is measured, and its second legs come into the books.
closed ==
  /\ inHand' = {} /\ made = {}
  /\ \A t \in Txs : /\ second(t) \in confirming =>
                         RawTx2BrokerTx'[t] = <<first(t), second(t)>>
                    /\ second(t) \notin confirming => RawTx2BrokerTx'[t] = RawTx2BrokerTx[t]
                    /\ RawTx2BrokerTx'[t] # <<>> <=> RawTx2BrokerTx[t] # <<>>
  /\ UNCHANGED <<waiting, reportedTxs, unsent, debits, credits>>

\* handleTx2ConfirmMag: the second legs of the report are confirmed, and the
\* report is measured.
LEMMA Tx2ConfirmStep ==
  ASSUME BrokerInv, NEW h \in handling, handleTx2ConfirmMag(h)
  PROVE  BrokerInv' /\ inHand = txsOf(h.report) /\ closed
PROOF
<1>1. /\ h.sent /\ handling' = handling \ {h}
      /\ brokerTxMap' = brokerTxMap \cup {x.raw : x \in h.report.Broker1Txs}
      /\ missing' = (missing \/ \E x \in h.report.Broker2Txs : x.raw \notin brokerTxMap')
      /\ RawTx2BrokerTx' = [t \in Txs |->
           RawTx2BrokerTx[t] \o SetToSeq({x \in h.confirm2s : x.raw = t})]
      /\ UNCHANGED <<BrokerRawMegs, brokerConfirm1Pool, brokerConfirm2Pool, injectNet,
                     reportNet, TxQueue, nowDataNum, itx, pc, dataTotalNum, debits, credits>>
  BY DEF handleTx2ConfirmMag, UpdateMeasureRecord, config, senderVars, shardVars, netVars
<1>2. handling = {h} /\ h.confirm2s = h.report.Broker2Txs
  BY DEF BrokerInv, Reports
<1>3. handling' = {} /\ made' = {} /\ confirming' = {} /\ confirming = h.confirm2s
  BY <1>1, <1>2 DEF made, confirming
<1>4. made = {}
  BY <1>1, <1>2 DEF made
<1>5. waiting' = waiting /\ reportedTxs' = reportedTxs
  BY <1>1, SameSets
<1>6. unsent' = unsent
  BY <1>1 DEF unsent, sentRows
<1>7. ASSUME NEW t \in Txs
      PROVE  /\ RawTx2BrokerTx'[t] = IF second(t) \in confirming
                                     THEN <<first(t), second(t)>> ELSE RawTx2BrokerTx[t]
             /\ second(t) \in confirming => RawTx2BrokerTx[t] = <<first(t)>>
  <2> DEFINE C == {x \in h.confirm2s : x.raw = t}
  <2>0. SecondLeg(t) /\ RawTx2BrokerTx[t] \in Seq(Legs)
    BY DEF BrokerInv
  <2>1. RawTx2BrokerTx'[t] = RawTx2BrokerTx[t] \o SetToSeq(C)
    BY <1>1
  <2>2. \A x \in C : x = second(t)
    BY <1>3, MadeAreSeconds DEF BrokerInv
  <2>3. CASE second(t) \in confirming
    <3>1. C = {second(t)}
      BY <1>3, <2>2, <2>3, LegFacts
    <3>2. SetToSeq(C) = <<second(t)>>
      BY <3>1, SmallSetToSeq
    <3>3. RawTx2BrokerTx[t] = <<first(t)>>
      BY <2>0, <2>3 DEF SecondLeg
    <3>4. <<first(t)>> \o <<second(t)>> = <<first(t), second(t)>>
      BY LegFacts, PairConcat
    <3> QED
      BY <2>1, <2>3, <3>2, <3>3, <3>4
  <2>4. CASE second(t) \notin confirming
    <3>1. C = {}
      BY <1>3, <2>2, <2>4
    <3>2. SetToSeq(C) = <<>>
      BY <3>1, SmallSetToSeq
    <3>3. RawTx2BrokerTx[t] \o <<>> = RawTx2BrokerTx[t]
      BY <2>0
    <3> QED
      BY <2>1, <2>4, <3>2, <3>3
  <2> QED
    BY <2>3, <2>4
<1>8. ASSUME NEW t \in Txs PROVE FirstLeg(t)' /\ SecondLeg(t)'
  <2>0. FirstLeg(t) /\ SecondLeg(t)
    BY DEF BrokerInv
  <2>1. /\ RawTx2BrokerTx'[t] = IF second(t) \in confirming
                                THEN <<first(t), second(t)>> ELSE RawTx2BrokerTx[t]
        /\ second(t) \in confirming => RawTx2BrokerTx[t] = <<first(t)>>
    BY <1>7
  <2>2. debits'[t] = debits[t] /\ credits'[t] = credits[t]
    BY <1>1
  <2>3. /\ <<first(t)>> # <<>> /\ <<first(t), second(t)>> # <<>>
        /\ <<first(t)>> # <<first(t), second(t)>>
    OBVIOUS
  <2>4. second(t) \in confirming => isCross(t)
    BY <2>0, <2>1, <2>3 DEF SecondLeg
  <2>5. CASE second(t) \in confirming
    <3>1. /\ first(t) \notin reportedTxs /\ debits[t] = 1 /\ credits[t] = 1
          /\ second(t) \notin waiting /\ second(t) \notin reportedTxs
      BY <2>0, <2>1, <2>3, <2>4, <2>5 DEF FirstLeg, SecondLeg
    <3>2. FirstLeg(t)'
      BY <1>5, <1>6, <2>0, <2>2, <2>4, <2>5, <3>1 DEF FirstLeg
    <3>3. SecondLeg(t)'
      BY <1>3, <1>5, <2>1, <2>2, <2>3, <2>4, <2>5, <3>1 DEF SecondLeg
    <3> QED
      BY <3>2, <3>3
  <2>6. CASE second(t) \notin confirming
    <3>1. FirstLeg(t)'
      BY <1>5, <1>6, <2>0, <2>1, <2>2, <2>6 DEF FirstLeg
    <3>2. SecondLeg(t)'
      BY <1>3, <1>4, <1>5, <2>0, <2>1, <2>2, <2>6 DEF SecondLeg
    <3> QED
      BY <3>1, <3>2
  <2> QED
    BY <2>5, <2>6
<1>9. \A t \in Txs : RawTx2BrokerTx'[t] # <<>> <=> RawTx2BrokerTx[t] # <<>>
  <2> SUFFICES ASSUME NEW t \in Txs
               PROVE  RawTx2BrokerTx'[t] # <<>> <=> RawTx2BrokerTx[t] # <<>>
    OBVIOUS
  <2>1. <<first(t)>> # <<>> /\ <<first(t), second(t)>> # <<>>
    OBVIOUS
  <2> QED
    BY <1>7, <2>1
<1>10. Queues'
  BY <1>1, SameQueues DEF BrokerInv
<1>11. Reports'
  BY <1>1, <1>3 DEF BrokerInv, Reports
<1>12. Known'
  <2>1. {u \in Txs : RawTx2BrokerTx'[u] # <<>>} = {u \in Txs : RawTx2BrokerTx[u] # <<>>}
    BY <1>9
  <2>2. brokerConfirm2Pool' = {second(t) : t \in {u \in Txs : RawTx2BrokerTx'[u] # <<>>}}
    BY <1>1, <2>1 DEF BrokerInv, Known
  <2>3. sentRows' = sentRows
    BY <1>1 DEF sentRows
  <2> QED
    BY <1>1, <2>2, <2>3 DEF BrokerInv, Known
<1>13. Measured'
  <2>1. \A x \in h.report.Broker2Txs : x.raw \in brokerTxMap'
    BY <1>1 DEF BrokerInv, Measured
  <2>2. ~missing'
    BY <1>1, <2>1 DEF BrokerInv, Measured
  <2>3. ASSUME NEW t \in Txs, RawTx2BrokerTx'[t] # <<>> PROVE t \in brokerTxMap'
    <3>1. t \in brokerTxMap \/ first(t) \in h.report.Broker1Txs
      BY <1>2, <1>9, <2>3 DEF BrokerInv, Measured
    <3> QED
      BY <1>1, <3>1, LegFacts
  <2> QED
    BY <1>3, <2>2, <2>3 DEF Measured
<1>14. RawTx2BrokerTx' \in [Txs -> Seq(Legs)]
  <2>1. ASSUME NEW t \in Txs PROVE RawTx2BrokerTx'[t] \in Seq(Legs)
    <3>1. <<first(t), second(t)>> \in Seq(Legs)
      BY LegFacts
    <3> QED
      BY <1>7, <3>1 DEF BrokerInv
  <2>2. RawTx2BrokerTx' = [t \in Txs |-> RawTx2BrokerTx'[t]]
    BY <1>1
  <2> QED
    BY <2>1, <2>2
<1>15. BrokerInv'
  BY <1>1, <1>8, <1>10, <1>11, <1>12, <1>13, <1>14 DEF BrokerInv
<1>16. inHand = txsOf(h.report) /\ inHand' = {}
  BY <1>2, <1>3 DEF inHand
<1>17. closed
  BY <1>1, <1>4, <1>5, <1>6, <1>7, <1>9, <1>16 DEF closed
<1> QED
  BY <1>15, <1>16, <1>17

-----------------------------------------------------------------------------
(***************************************************************************)
(* The theorems.                                                           *)
(***************************************************************************)

LEMMA NextBroker == BrokerInv /\ [Next]_vars => BrokerInv'
PROOF
<1> SUFFICES ASSUME BrokerInv, [Next]_vars PROVE BrokerInv'
  OBVIOUS
<1> DEFINE idle == UNCHANGED <<TxQueue, injectNet, reportNet, handling, brokerVars,
                     nowDataNum, dataTotalNum, debits, credits, missing, brokerTxMap>>
<1>1. endOfFile \/ StopGap_Reset \/ stop => idle
  BY DEF endOfFile, StopGap_Reset, stop, config, shardVars, netVars, measureVars
<1>2. StopGap_Inc \/ nextRound \/ UNCHANGED vars => idle /\ UNCHANGED <<pc, itx>>
  BY DEF StopGap_Inc, nextRound, vars, config, senderVars, shardVars, netVars, measureVars
<1>3. \A s \in Shards : HandleinCommitEmpty(s) => idle /\ UNCHANGED <<pc, itx>>
  BY DEF HandleinCommitEmpty, config, senderVars, measureVars
<1> QED
  BY <1>1, <1>2, <1>3, IdleStep, DealStep, SendTx1sStep, SendRestStep, InjectStep, CommitStep,
     BlockInfosStep, Type2Step, Tx2ConfirmStep
  DEF Next, SenderStep, HandlerStep, ShardStep, Deliver

\* Every leg is in one place at a time and goes its way in order, for every
\* order of the sender, the handlers, the shards and the messages.
THEOREM LegsInOrder == Spec => []BrokerInv
  BY InitBroker, NextBroker, PTL DEF Spec

\* No transaction of the data file is debited or credited twice, and none is
\* credited before it is debited.
THEOREM LegsPaidOnce == Spec => []PaidOnce
PROOF
<1>1. BrokerInv => PaidOnce
  BY DEF BrokerInv, FirstLeg, SecondLeg, PaidOnce
<1> QED
  BY <1>1, LegsInOrder, PTL

\* The broker's books hold at most the two legs of a transaction, in order,
\* and only legs that a block has executed.
THEOREM BooksAreRight == Spec => []BooksRight
PROOF
<1>1. BrokerInv => BooksRight
  <2> SUFFICES ASSUME BrokerInv, NEW t \in Txs
      PROVE  /\ Len(RawTx2BrokerTx[t]) <= 2
             /\ Len(RawTx2BrokerTx[t]) >= 1 => RawTx2BrokerTx[t][1].leg = 1 /\ debits[t] = 1
             /\ Len(RawTx2BrokerTx[t]) = 2 => Finished(t) /\ credits[t] = 1
    BY DEF BooksRight
  <2>1. FirstLeg(t) /\ SecondLeg(t) /\ second(t).leg = 2 /\ (isCross(t) => first(t).leg = 1)
    BY LegFacts DEF BrokerInv
  <2>2. CASE RawTx2BrokerTx[t] = <<>>
    BY <2>2
  <2>3. CASE RawTx2BrokerTx[t] = <<first(t)>>
    <3>1. debits[t] = 1 /\ isCross(t)
      BY <2>1, <2>3 DEF FirstLeg, SecondLeg
    <3> QED
      BY <2>1, <2>3, <3>1
  <2>4. CASE RawTx2BrokerTx[t] = <<first(t), second(t)>>
    <3>1. debits[t] = 1 /\ isCross(t) /\ credits[t] = 1
      BY <2>1, <2>4 DEF FirstLeg, SecondLeg
    <3> QED
      BY <2>1, <2>4, <3>1 DEF Finished
  <2> QED
    BY <2>1, <2>2, <2>3, <2>4 DEF SecondLeg
<1> QED
  BY <1>1, LegsInOrder, PTL

\* The measure modules never miss the first leg of a second one: tcpLock makes
\* the handling of a report and its measurement one critical section.
THEOREM LatenciesFound == Spec => []LatencyFound
PROOF
<1>1. BrokerInv => LatencyFound
  BY DEF BrokerInv, Measured, LatencyFound
<1> QED
  BY <1>1, LegsInOrder, PTL

\* The counters of the sender, the shards and the handlers.
CountInv ==
  /\ pc \in {"read", "sendTx1", "sendRest", "reset", "wait", "stopped"}
  /\ stopGap \in Nat /\ emptyReports \in Nat /\ stopGap + emptyReports <= MaxGap
  /\ reported \subseteq Shards /\ missing \in BOOLEAN

LEMMA InitCount == Init => CountInv
PROOF
<1>1. MaxGap \in Nat
  BY BrokerAssumption DEF MaxGap, stopThreshold
<1>2. Init => missing \in BOOLEAN
  BY DEF Init
<1> QED
  BY <1>1, <1>2 DEF Init, CountInv

LEMMA NextCount == CountInv /\ [Next]_vars => CountInv'
PROOF
<1> SUFFICES ASSUME CountInv, [Next]_vars PROVE CountInv'
  OBVIOUS
<1>0. MaxGap \in Nat
  BY BrokerAssumption DEF MaxGap, stopThreshold
<1>1. CASE SenderStep
  BY <1>0, <1>1 DEF SenderStep, dealTxByBroker, endOfFile, sendTx1s, sendRest, StopGap_Reset,
     stop, CountInv, shardVars, netVars, measureVars
<1>2. CASE StopGap_Inc
  BY <1>0, <1>2 DEF StopGap_Inc, CountInv, senderVars, shardVars, measureVars
<1>3. ASSUME NEW r \in reportNet, handleBlockInfos(r) PROVE CountInv'
  <2>1. stopGap' = 0 /\ UNCHANGED <<pc, emptyReports, reported, missing>>
    BY <1>3 DEF handleBlockInfos, senderVars, shardVars, measureVars
  <2> QED
    BY <1>0, <2>1 DEF CountInv
<1>4. ASSUME NEW h \in handling, handleBrokerType2Mes(h) PROVE CountInv'
  BY <1>4 DEF handleBrokerType2Mes, CountInv, senderVars, shardVars, measureVars
<1>5. ASSUME NEW h \in handling, handleTx2ConfirmMag(h) PROVE CountInv'
  <2>1. missing' \in BOOLEAN
    BY <1>5 DEF handleTx2ConfirmMag, UpdateMeasureRecord
  <2>2. UNCHANGED <<pc, stopGap, emptyReports, reported>>
    BY <1>5 DEF handleTx2ConfirmMag, senderVars, shardVars, netVars
  <2> QED
    BY <2>1, <2>2 DEF CountInv
<1>6. ASSUME NEW s \in Shards, HandleinCommit(s) PROVE CountInv'
  BY <1>6 DEF HandleinCommit, CountInv, senderVars, measureVars
<1>7. ASSUME NEW s \in Shards, HandleinCommitEmpty(s) PROVE CountInv'
  BY <1>0, <1>7 DEF HandleinCommitEmpty, CountInv, senderVars, measureVars
<1>8. CASE nextRound
  BY <1>8 DEF nextRound, CountInv, senderVars, netVars, measureVars
<1>9. ASSUME NEW m \in injectNet, handleInjectTx(m) PROVE CountInv'
  BY <1>9 DEF handleInjectTx, CountInv, senderVars, measureVars
<1>10. CASE UNCHANGED vars
  BY <1>10 DEF vars, CountInv, senderVars, shardVars, netVars, measureVars
<1> QED
  BY <1>1, <1>2, <1>3, <1>4, <1>5, <1>6, <1>7, <1>8, <1>9, <1>10
  DEF Next, HandlerStep, ShardStep, Deliver

\* The fields keep their types, the stop gap its bound, and every second leg is
\* made at most once (its n is 1).
THEOREM BrokerTypes == Spec => []TypeOK
PROOF
<1>1. Init => CountInv
  BY InitCount
<1>2. BrokerInv /\ CountInv => TypeOK
  <2> SUFFICES ASSUME BrokerInv, CountInv PROVE TypeOK
    OBVIOUS
  <2>1. nowDataNum \in 0 .. Len(Rows) /\ itx \subseteq Txs /\ BrokerRawMegs \subseteq Txs
    BY SentAreTxs DEF BrokerInv, Known
  <2>2. brokerConfirm1Pool \subseteq Legs /\ brokerConfirm2Pool \subseteq Legs
    BY <2>1, LegFacts DEF BrokerInv, Known
  <2>3. \A t \in Txs : Range(RawTx2BrokerTx[t]) \subseteq Legs
    BY DEF BrokerInv, Range
  <2>4. \A s \in Shards : Range(TxQueue[s]) \subseteq Legs
    <3>1. \A s \in Shards : Range(TxQueue[s]) \subseteq ownLegs
      BY DEF BrokerInv, Queues, Range
    <3> QED
      BY <3>1, OwnLegCases
  <2>5. stopGap \in 0 .. MaxGap /\ emptyReports \in 0 .. MaxGap
    BY BrokerAssumption DEF CountInv, MaxGap, stopThreshold
  <2> QED
    BY <2>1, <2>2, <2>3, <2>4, <2>5 DEF TypeOK, CountInv
<1> QED
  BY <1>1, <1>2, NextCount, LegsInOrder, PTL DEF Spec

-----------------------------------------------------------------------------
(***************************************************************************)
(* The pace of the shards and the stop gap.                                *)
(***************************************************************************)

\* The number of the shards that have made their block in this round.
LEMMA ReportedCount ==
  ASSUME reported \subseteq Shards
  PROVE  /\ Cardinality(reported) \in Nat /\ Cardinality(reported) <= ShardNums
         /\ \A s \in Shards \ reported :
              Cardinality(reported \cup {s}) = Cardinality(reported) + 1
PROOF
<1>1. ShardNums \in Nat /\ ShardNums - 1 \in Int
  BY BrokerAssumption
<1>2. IsFiniteSet(Shards) /\ Cardinality(Shards) = ShardNums
  <2>1. IsFiniteSet(Shards) /\ Cardinality(Shards) = IF 0 > ShardNums - 1 THEN 0
                                                    ELSE ShardNums - 1 - 0 + 1
    BY <1>1, FS_Interval DEF Shards
  <2> QED
    BY <1>1, <2>1
<1>3. IsFiniteSet(reported) /\ Cardinality(reported) <= Cardinality(Shards)
  BY <1>2, FS_Subset
<1>4. Cardinality(reported) \in Nat
  BY <1>3, FS_CardinalityType
<1>5. \A s \in Shards \ reported :
        Cardinality(reported \cup {s}) = Cardinality(reported) + 1
  BY <1>3, FS_AddElement
<1> QED
  BY <1>2, <1>3, <1>4, <1>5

LEMMA InitPaced == Init => Paced
PROOF
<1> SUFFICES ASSUME Init PROVE Paced
  OBVIOUS
<1>1. ~busy /\ ~fresh
  BY DEF Init, busy, fresh
<1>2. Cardinality(reported) = 0
  BY FS_EmptySet DEF Init
<1> QED
  BY <1>1, <1>2 DEF Init, Paced

\* A step that leaves the pace alone and makes no work.
LEMMA SamePace ==
  ASSUME Paced, UNCHANGED <<inSync, stopGap, emptyReports, reported>>,
         busy' => busy, fresh' => fresh \/ ~(pc' \in {"read", "wait"}),
         pc' \in {"read", "wait"} => pc \in {"read", "wait"},
         pc' = "stopped" => pc = "stopped"
  PROVE  Paced'
BY DEF Paced

\* The stop gap is reset: the empty reports on their way are of this round.
LEMMA ResetPace ==
  ASSUME Paced, CountInv, UNCHANGED <<inSync, emptyReports, reported>>, stopGap' = 0,
         pc' # "stopped"
  PROVE  Paced'
PROOF
<1>1. Cardinality(reported) \in Nat /\ ShardNums \in Nat /\ emptyReports \in Nat
  BY ReportedCount, BrokerAssumption DEF CountInv
<1>2. inSync => emptyReports <= Cardinality(reported)
  BY DEF Paced
<1>3. inSync' => /\ emptyReports' <= Cardinality(reported')
                 /\ stopGap' + emptyReports' <= Cardinality(reported')
                 /\ stopGap' + emptyReports' <= ShardNums + Cardinality(reported')
  BY <1>1, <1>2
<1> QED
  BY <1>3 DEF Paced

\* stop: with work left the stop gap is not large enough.
LEMMA stopPaced ==
  ASSUME Paced, CountInv, stop
  PROVE  Paced'
PROOF
<1>1. /\ Cardinality(reported) \in Nat /\ Cardinality(reported) <= ShardNums
      /\ ShardNums \in Nat \ {0} /\ emptyReports \in Nat /\ stopGap \in Nat
  BY ReportedCount, BrokerAssumption DEF CountInv
<1>2. /\ pc = "wait" /\ pc' = "stopped" /\ stopGap >= 3 * ShardNums
      /\ UNCHANGED <<inSync, stopGap, emptyReports, reported, injectNet, handling, reportNet,
                     TxQueue>>
  BY DEF stop, GapEnough, stopThreshold, config, shardVars, netVars
<1>3. ~(stopGap + emptyReports <= ShardNums + Cardinality(reported))
  BY <1>1, <1>2
<1>4. inSync => ~busy
  BY <1>2, <1>3 DEF Paced
<1>5. busy' = busy
  BY <1>2 DEF busy
<1> QED
  BY <1>2, <1>4, <1>5 DEF Paced

LEMMA SenderPaced ==
  ASSUME Paced, CountInv, SenderStep
  PROVE  Paced'
PROOF
<1>1. CASE dealTxByBroker \/ endOfFile
  <2>1. /\ pc = "read" /\ pc' \in {"wait", "sendTx1"}
        /\ UNCHANGED <<inSync, stopGap, emptyReports, reported, injectNet, handling, reportNet,
                       TxQueue>>
    BY <1>1 DEF dealTxByBroker, endOfFile, config, shardVars, netVars
  <2>2. busy' = busy /\ fresh' = fresh
    BY <2>1 DEF busy, fresh
  <2> QED
    BY <2>1, <2>2, SamePace
<1>2. CASE sendTx1s \/ sendRest
  <2>1. /\ pc' \in {"sendRest", "reset"}
        /\ UNCHANGED <<inSync, emptyReports, reported>>
    BY <1>2 DEF sendTx1s, sendRest, config, shardVars
  <2> QED
    BY <2>1 DEF Paced
<1>3. CASE StopGap_Reset
  <2>1. /\ pc' \in {"wait", "read"} /\ stopGap' = 0
        /\ UNCHANGED <<inSync, emptyReports, reported>>
    BY <1>3 DEF StopGap_Reset, config, shardVars, netVars
  <2> QED
    BY <2>1, ResetPace
<1> QED
  BY <1>1, <1>2, <1>3, stopPaced DEF SenderStep

LEMMA HandlerPaced ==
  ASSUME Paced, CountInv, HandlerStep
  PROVE  Paced'
PROOF
<1>1. CASE StopGap_Inc
  <2>1. /\ stopGap' = stopGap + 1 /\ emptyReports' = emptyReports - 1 /\ emptyReports > 0
        /\ UNCHANGED <<inSync, pc, reported, injectNet, handling, reportNet, TxQueue>>
    BY <1>1 DEF StopGap_Inc, config, senderVars, shardVars
  <2>2. stopGap \in Nat /\ emptyReports \in Nat /\ Cardinality(reported) \in Nat
    BY ReportedCount DEF CountInv
  <2>3. stopGap' + emptyReports' = stopGap + emptyReports
    BY <2>1, <2>2
  <2>4. busy' = busy /\ fresh' = fresh
    BY <2>1 DEF busy, fresh
  <2>5. inSync => emptyReports' <= Cardinality(reported)
    BY <2>1, <2>2 DEF Paced
  <2> QED
    BY <2>1, <2>3, <2>4, <2>5 DEF Paced
<1>2. ASSUME NEW r \in reportNet, handleBlockInfos(r) PROVE Paced'
  <2>1. /\ stopGap' = 0 /\ pc' # "stopped" /\ UNCHANGED <<inSync, emptyReports, reported>>
    BY <1>2 DEF handleBlockInfos, running, config, senderVars, shardVars
  <2> QED
    BY <2>1, ResetPace
<1>3. ASSUME NEW h \in handling, handleBrokerType2Mes(h) \/ handleTx2ConfirmMag(h)
      PROVE  Paced'
  <2>1. UNCHANGED <<inSync, stopGap, pc, emptyReports, reported, TxQueue, reportNet>>
    BY <1>3 DEF handleBrokerType2Mes, handleTx2ConfirmMag, config, senderVars, shardVars, netVars
  <2>2. busy /\ fresh
    BY <1>3 DEF busy, fresh
  <2> QED
    BY <2>1, <2>2, SamePace
<1> QED
  BY <1>1, <1>2, <1>3 DEF HandlerStep

LEMMA ShardPaced ==
  ASSUME Paced, CountInv, NEW s \in Shards, ShardStep(s)
  PROVE  Paced'
PROOF
<1> SUFFICES ASSUME inSync' PROVE Paced'
  BY DEF Paced
<1>1. /\ inSync /\ s \notin reported /\ reported' = reported \cup {s} /\ pc' = pc
      /\ pc # "stopped" /\ UNCHANGED <<stopGap, handling, injectNet>>
  BY DEF ShardStep, HandleinCommit, HandleinCommitEmpty, inTurn, running, config, senderVars
<1>2. /\ Cardinality(reported) \in Nat /\ Cardinality(reported') = Cardinality(reported) + 1
      /\ emptyReports \in Nat /\ stopGap \in Nat /\ ShardNums \in Nat
  BY <1>1, ReportedCount, BrokerAssumption DEF CountInv
<1>3. CASE HandleinCommit(s)
  <2>1. TxQueue[s] # <<>> /\ reportNet' # {} /\ emptyReports' = emptyReports
    BY <1>3 DEF HandleinCommit, sendReport
  <2>2. busy /\ (fresh' => fresh)
    BY <1>1, <2>1 DEF busy, fresh
  <2>3. /\ emptyReports <= Cardinality(reported)
        /\ pc \in {"read", "wait"} =>
             stopGap + emptyReports <= ShardNums + Cardinality(reported)
        /\ pc \in {"read", "wait"} /\ fresh => stopGap + emptyReports <= Cardinality(reported)
    BY <1>1, <2>2 DEF Paced
  <2> QED
    BY <1>1, <1>2, <2>1, <2>2, <2>3 DEF Paced
<1>4. CASE HandleinCommitEmpty(s)
  <2>1. TxQueue[s] = <<>> /\ emptyReports' = emptyReports + 1 /\ UNCHANGED <<TxQueue, reportNet>>
    BY <1>4 DEF HandleinCommitEmpty
  <2>2. (busy' => busy) /\ (fresh' => fresh)
    BY <1>1, <2>1 DEF busy, fresh
  <2>3. /\ emptyReports <= Cardinality(reported)
        /\ pc \in {"read", "wait"} /\ busy =>
             stopGap + emptyReports <= ShardNums + Cardinality(reported)
        /\ pc \in {"read", "wait"} /\ fresh => stopGap + emptyReports <= Cardinality(reported)
    BY <1>1 DEF Paced
  <2> QED
    BY <1>1, <1>2, <2>1, <2>2, <2>3 DEF Paced
<1> QED
  BY <1>3, <1>4 DEF ShardStep

\* nextRound: what waits in a queue came up in the round that ends.
LEMMA RoundPaced ==
  ASSUME Paced, CountInv, nextRound
  PROVE  Paced'
PROOF
<1>1. /\ inSync /\ pc # "stopped" /\ reported' = {}
      /\ injectNet = {} /\ reportNet = {} /\ emptyReports = 0 /\ handling = {}
      /\ \A s \in Shards \ reported : TxQueue[s] = <<>>
      /\ UNCHANGED <<inSync, pc, stopGap, emptyReports, TxQueue, injectNet, reportNet, handling>>
  BY DEF nextRound, running, config, senderVars, netVars
<1>2. /\ Cardinality(reported) \in Nat /\ Cardinality(reported) <= ShardNums
      /\ stopGap \in Nat /\ ShardNums \in Nat
  BY ReportedCount, BrokerAssumption DEF CountInv
<1>3. Cardinality(reported') = 0
  BY <1>1, FS_EmptySet
<1>4. ~fresh' /\ (busy' => fresh)
  BY <1>1 DEF fresh, busy
<1>5. pc \in {"read", "wait"} /\ fresh => stopGap + emptyReports <= Cardinality(reported)
  BY <1>1 DEF Paced
<1> QED
  BY <1>1, <1>2, <1>3, <1>4, <1>5 DEF Paced

LEMMA NextPaced ==
  ASSUME Paced, CountInv, [Next]_vars
  PROVE  Paced'
PROOF
<1>1. ASSUME NEW m \in injectNet, handleInjectTx(m) PROVE Paced'
  <2>1. UNCHANGED <<inSync, stopGap, pc, emptyReports, reported, handling, reportNet>>
    BY <1>1 DEF handleInjectTx, config, senderVars
  <2>2. busy /\ fresh
    BY <1>1 DEF busy, fresh
  <2> QED
    BY <2>1, <2>2, SamePace
<1>2. CASE UNCHANGED vars
  <2>1. UNCHANGED <<inSync, stopGap, pc, emptyReports, reported, TxQueue, injectNet, handling,
                    reportNet>>
    BY <1>2 DEF vars, config, senderVars, shardVars, netVars
  <2>2. busy' = busy /\ fresh' = fresh
    BY <2>1 DEF busy, fresh
  <2> QED
    BY <2>1, <2>2, SamePace
<1> QED
  BY <1>1, <1>2, SenderPaced, HandlerPaced, ShardPaced, RoundPaced DEF Next, Deliver

-----------------------------------------------------------------------------
(***************************************************************************)
(* No leg is lost, and the measured ones are counted.                      *)
(***************************************************************************)

AllGoOn == \A t \in Txs : NotLost(t)

LEMMA ExecutedLegs ==
  ASSUME NEW t \in Txs
  PROVE  /\ executed(first(t)) <=> debits[t] = 1
         /\ executed(second(t)) <=> credits[t] = 1
BY LegFacts DEF executed

LEMMA InitLegs == Init => AllGoOn /\ NumbersRight
PROOF
<1> SUFFICES ASSUME Init PROVE AllGoOn /\ NumbersRight
  OBVIOUS
<1>1. inHand = {} /\ sentRows = {}
  BY DEF Init, inHand, sentRows
<1>2. ASSUME NEW t \in Txs PROVE NotLost(t)
  <2>1. ~executed(first(t)) /\ ~executed(second(t))
    BY ExecutedLegs DEF Init
  <2> QED
    BY <1>1, <2>1 DEF Init, NotLost, unsent
<1>3. measuredTxs = {}
  <2>1. ASSUME NEW x \in ownLegs PROVE ~executed(x)
    BY OwnLegCases DEF executed, Init
  <2> QED
    BY <2>1 DEF measuredTxs
<1>4. \A l : Cardinality({x \in measuredTxs : x.leg = l}) = 0
  BY <1>3, FS_EmptySet
<1> QED
  BY <1>1, <1>2, <1>4 DEF AllGoOn, NumbersRight, Init

\* A step on which the legs only go on to be sent.
LEMMA LegsGoOn ==
  ASSUME AllGoOn, UNCHANGED <<reportedTxs, confirming, RawTx2BrokerTx, debits, credits>>,
         waiting \subseteq waiting', made \subseteq made' \cup waiting',
         \A t \in unsent : t \in unsent' \/ first(t) \in waiting'
  PROVE  AllGoOn'
PROOF
<1>1. ASSUME NEW t \in Txs PROVE NotLost(t)'
  <2>1. NotLost(t)
    BY DEF AllGoOn
  <2>2. executed(first(t))' = executed(first(t)) /\ executed(second(t))' = executed(second(t))
    BY DEF executed
  <2> QED
    BY <2>1, <2>2 DEF NotLost
<1> QED
  BY <1>1 DEF AllGoOn

LEMMA CommitGoesOn ==
  ASSUME BrokerInv, AllGoOn, NEW B, committed(B)
  PROVE  AllGoOn'
PROOF
<1>1. UNCHANGED <<made, confirming>>
  BY SameSets DEF committed
<1>2. ASSUME NEW t \in Txs PROVE NotLost(t)'
  <2>1. NotLost(t) /\ (RawTx2BrokerTx[t] # <<>> => isCross(t))
    BY DEF AllGoOn, BrokerInv, SecondLeg
  <2>2. executed(first(t))' <=> executed(first(t)) \/ first(t) \in B
    BY DEF committed, ownLegs
  <2>3. isCross(t) => (executed(second(t))' <=> executed(second(t)) \/ second(t) \in B)
    BY DEF committed, ownLegs
  <2>4. /\ waiting' = waiting \ B /\ reportedTxs' = reportedTxs \cup B
        /\ UNCHANGED <<RawTx2BrokerTx, unsent>>
    BY DEF committed
  <2> QED
    BY <1>1, <2>1, <2>2, <2>3, <2>4 DEF NotLost
<1> QED
  BY <1>2 DEF AllGoOn

LEMMA TakenGoesOn ==
  ASSUME BrokerInv, AllGoOn, NEW r, taken(r)
  PROVE  AllGoOn'
PROOF
<1>1. ASSUME NEW t \in Txs PROVE NotLost(t)'
  <2>1. NotLost(t)
    BY DEF AllGoOn
  <2>2. executed(first(t))' = executed(first(t)) /\ executed(second(t))' = executed(second(t))
    BY DEF executed, taken
  <2>3. /\ isCross(t) /\ first(t) \in txsOf(r) =>
                         second(t) \in made' /\ RawTx2BrokerTx'[t] # <<>>
        /\ RawTx2BrokerTx'[t] # RawTx2BrokerTx[t] =>
                         second(t) \in made' /\ RawTx2BrokerTx[t] = <<>>
        /\ second(t) \in txsOf(r) => second(t) \in confirming'
        /\ reportedTxs' = reportedTxs \ txsOf(r) /\ made = {} /\ confirming = {}
        /\ waiting' = waiting /\ unsent' = unsent
    BY DEF taken
  <2>4. <<first(t), second(t)>> # <<>>
    OBVIOUS
  <2> QED
    BY <2>1, <2>2, <2>3, <2>4 DEF NotLost
<1> QED
  BY <1>1 DEF AllGoOn

LEMMA ClosedGoesOn ==
  ASSUME AllGoOn, closed
  PROVE  AllGoOn'
PROOF
<1>1. ASSUME NEW t \in Txs PROVE NotLost(t)'
  <2>1. NotLost(t)
    BY DEF AllGoOn
  <2>2. executed(first(t))' = executed(first(t)) /\ executed(second(t))' = executed(second(t))
    BY DEF executed, closed
  <2>3. /\ second(t) \in confirming => RawTx2BrokerTx'[t] = <<first(t), second(t)>>
        /\ second(t) \notin confirming => RawTx2BrokerTx'[t] = RawTx2BrokerTx[t]
        /\ RawTx2BrokerTx'[t] # <<>> <=> RawTx2BrokerTx[t] # <<>>
        /\ made = {} /\ waiting' = waiting /\ reportedTxs' = reportedTxs /\ unsent' = unsent
    BY DEF closed
  <2> QED
    BY <2>1, <2>2, <2>3 DEF NotLost
<1> QED
  BY <1>1 DEF AllGoOn

\* The steps that change no report, no books and no counts.
LEMMA QuietSteps ==
  ASSUME BrokerInv, SenderStep \/ Deliver \/ StopGap_Inc \/ nextRound \/ UNCHANGED vars
                    \/ \E s \in Shards : HandleinCommitEmpty(s)
  PROVE  /\ UNCHANGED <<handling, reportNet, RawTx2BrokerTx, debits, credits, normalTxNum,
                        broker1TxNum, broker2TxNum>>
         /\ waiting \subseteq waiting'
         /\ \A t \in unsent : t \in unsent' \/ first(t) \in waiting'
PROOF
<1>1. UNCHANGED <<handling, reportNet, RawTx2BrokerTx, debits, credits, normalTxNum,
                  broker1TxNum, broker2TxNum>>
  BY DEF SenderStep, dealTxByBroker, endOfFile, sendTx1s, sendRest, StopGap_Reset, stop,
         Deliver, handleInjectTx, StopGap_Inc, nextRound, HandleinCommitEmpty, vars,
         brokerVars, measureVars, shardVars, netVars
<1>2. CASE sendTx1s \/ sendRest
  BY <1>1, <1>2, SendTx1sStep, SendRestStep
<1>3. CASE Deliver
  <2>1. PICK m \in injectNet : handleInjectTx(m)
    BY <1>3 DEF Deliver
  <2>2. unsent' = unsent
    BY <2>1 DEF handleInjectTx, senderVars, unsent, sentRows
  <2> QED
    BY <1>1, <2>1, <2>2, InjectStep
<1>4. CASE \/ dealTxByBroker \/ endOfFile \/ StopGap_Reset \/ stop
           \/ StopGap_Inc \/ nextRound \/ UNCHANGED vars
           \/ \E s \in Shards : HandleinCommitEmpty(s)
  <2>1. UNCHANGED <<injectNet, TxQueue>>
    BY <1>4 DEF dealTxByBroker, endOfFile, StopGap_Reset, stop, StopGap_Inc, nextRound,
                HandleinCommitEmpty, vars, shardVars, netVars
  <2>2. waiting' = waiting
    BY <2>1, SameSets
  <2>3. unsent' = unsent
    <3>1. CASE dealTxByBroker
      BY <3>1, DealStep
    <3>2. CASE endOfFile \/ StopGap_Reset \/ stop
      BY <3>2 DEF endOfFile, StopGap_Reset, stop, unsent, sentRows
    <3>3. CASE StopGap_Inc \/ nextRound \/ UNCHANGED vars
               \/ \E s \in Shards : HandleinCommitEmpty(s)
      <4>1. UNCHANGED <<pc, itx, nowDataNum>>
        BY <3>3 DEF StopGap_Inc, nextRound, HandleinCommitEmpty, vars, senderVars
      <4> QED
        BY <4>1 DEF unsent, sentRows
    <3> QED
      BY <1>4, <3>1, <3>2, <3>3
  <2> QED
    BY <1>1, <2>2, <2>3
<1> QED
  BY <1>2, <1>3, <1>4 DEF SenderStep

\* A step that measures nothing.
LEMMA SameNumbers ==
  ASSUME NumbersRight, measuredTxs' = measuredTxs,
         inHand' \cap reportedTxs' = {}, \A x \in inHand' : x \in ownLegs /\ executed(x)',
         UNCHANGED <<normalTxNum, broker1TxNum, broker2TxNum>>
  PROVE  NumbersRight'
BY DEF NumbersRight

LEMMA FrameNumbers ==
  ASSUME NumbersRight, UNCHANGED <<reportedTxs, inHand, debits, credits, normalTxNum,
                                   broker1TxNum, broker2TxNum>>
  PROVE  NumbersRight'
PROOF
<1>1. \A x : executed(x)' = executed(x)
  BY DEF executed
<1>2. measuredTxs' = measuredTxs
  BY <1>1 DEF measuredTxs
<1> QED
  BY <1>1, <1>2, SameNumbers DEF NumbersRight

LEMMA CommitNumbers ==
  ASSUME BrokerInv, NumbersRight, NEW B, committed(B),
         UNCHANGED <<normalTxNum, broker1TxNum, broker2TxNum>>
  PROVE  NumbersRight'
PROOF
<1>1. /\ reportedTxs' = reportedTxs \cup B /\ inHand' = inHand
      /\ \A x \in ownLegs : executed(x)' <=> executed(x) \/ x \in B
  BY DEF committed, inHand
<1>2. \A x \in B : ~executed(x)
  BY ExecutedOnce DEF committed
<1>3. measuredTxs' = measuredTxs
  BY <1>1, <1>2 DEF measuredTxs
<1>4. inHand' \cap reportedTxs' = {} /\ \A x \in inHand' : x \in ownLegs /\ executed(x)'
  BY <1>1, <1>2 DEF NumbersRight
<1> QED
  BY <1>3, <1>4, SameNumbers

LEMMA TakenNumbers ==
  ASSUME BrokerInv, NumbersRight, NEW r, taken(r),
         UNCHANGED <<normalTxNum, broker1TxNum, broker2TxNum>>
  PROVE  NumbersRight'
PROOF
<1>1. /\ reportedTxs' = reportedTxs \ txsOf(r) /\ inHand' = txsOf(r) /\ inHand = {}
      /\ txsOf(r) \subseteq reportedTxs /\ UNCHANGED <<debits, credits>>
  BY DEF taken
<1>2. \A x : executed(x)' = executed(x)
  BY <1>1 DEF executed
<1>3. measuredTxs' = measuredTxs
  BY <1>1, <1>2 DEF measuredTxs
<1>4. \A x \in reportedTxs : x \in ownLegs /\ executed(x)
  BY ExecutedOnce
<1> QED
  BY <1>1, <1>2, <1>3, <1>4, SameNumbers

\* The data file has finitely many transactions, and each kind of legs as many
\* as transactions.
LEMMA FiniteTxs == IsFiniteSet(Txs)
PROOF
<1>1. Rows \in Seq(Txs) /\ Len(Rows) \in Nat /\ DOMAIN Rows = 1 .. Len(Rows)
  BY BrokerAssumption
<1>2. \A i, j \in 1 .. Len(Rows) : Rows[i] = Rows[j] => i = j
  BY <1>1, BrokerAssumption DEF IsInjective
<1>3. Txs = {Rows[i] : i \in 1 .. Len(Rows)}
  BY <1>1 DEF Txs, Range
<1>4. Rows \in [1 .. Len(Rows) -> Txs]
  BY <1>1
<1>5. Rows \in Bijection(1 .. Len(Rows), Txs)
  BY <1>2, <1>3, <1>4 DEF Bijection, Injection, Surjection, IsInjective
<1>6. IsFiniteSet(1 .. Len(Rows))
  BY <1>1, FS_Interval
<1> QED
  BY <1>5, <1>6, FS_Bijection DEF ExistsBijection

LEMMA LegCount ==
  ASSUME NEW S \in SUBSET Txs
  PROVE  /\ IsFiniteSet(S) /\ Cardinality(S) \in Nat
         /\ IsFiniteSet({first(t) : t \in S}) /\ Cardinality({first(t) : t \in S}) = Cardinality(S)
         /\ IsFiniteSet({second(t) : t \in S}) /\ Cardinality({second(t) : t \in S}) = Cardinality(S)
PROOF
<1>1. IsFiniteSet(S) /\ Cardinality(S) \in Nat
  BY FiniteTxs, FS_Subset, FS_CardinalityType
<1> DEFINE F == {first(t) : t \in S}
           G == {second(t) : t \in S}
           f == [t \in S |-> first(t)]
           g == [t \in S |-> second(t)]
<1>2. f \in Bijection(S, F)
  <2>1. f \in [S -> F] /\ \A y \in F : \E t \in S : f[t] = y
    OBVIOUS
  <2>2. \A t, u \in S : f[t] = f[u] => t = u
    BY LegFacts
  <2> QED
    BY <2>1, <2>2 DEF Bijection, Injection, Surjection, IsInjective
<1>3. g \in Bijection(S, G)
  <2>1. g \in [S -> G] /\ \A y \in G : \E t \in S : g[t] = y
    OBVIOUS
  <2>2. \A t, u \in S : g[t] = g[u] => t = u
    BY LegFacts
  <2> QED
    BY <2>1, <2>2 DEF Bijection, Injection, Surjection, IsInjective
<1> HIDE DEF f, g, F, G
<1>4. IsFiniteSet(F) /\ Cardinality(F) = Cardinality(S)
  BY <1>1, <1>2, FS_Bijection DEF ExistsBijection
<1>5. IsFiniteSet(G) /\ Cardinality(G) = Cardinality(S)
  BY <1>1, <1>3, FS_Bijection DEF ExistsBijection
<1> QED
  BY <1>1, <1>4, <1>5 DEF F, G

LEMMA FiniteLegs == IsFiniteSet(ownLegs)
PROOF
<1>1. IsFiniteSet({first(t) : t \in Txs})
  BY LegCount
<1>2. IsFiniteSet({second(t) : t \in {u \in Txs : isCross(u)}})
  BY LegCount
<1> QED
  BY <1>1, <1>2, FS_Union DEF ownLegs

\* handleTx2ConfirmMag measures the report in hand.
LEMMA ClosedNumbers ==
  ASSUME BrokerInv, NumbersRight, NEW h \in handling, inHand = txsOf(h.report), closed,
         UpdateMeasureRecord(h.report)
  PROVE  NumbersRight'
PROOF
<1> DEFINE r == h.report
           of(l) == {x \in measuredTxs : x.leg = l}
           new(l) == {x \in inHand : x.leg = l}
<1>1. inHand' = {} /\ UNCHANGED <<reportedTxs, debits, credits>>
  BY DEF closed
<1>2. \A x : executed(x)' = executed(x)
  BY <1>1 DEF executed
<1>3. /\ inHand \cap reportedTxs = {} /\ \A x \in inHand : x \in ownLegs /\ executed(x)
      /\ normalTxNum = Cardinality(of(0)) /\ broker1TxNum = Cardinality(of(1))
      /\ broker2TxNum = Cardinality(of(2))
  BY DEF NumbersRight
<1>4. measuredTxs' = measuredTxs \cup inHand /\ measuredTxs \cap inHand = {}
  BY <1>1, <1>2, <1>3 DEF measuredTxs
<1>5. new(0) = r.InnerShardTxs /\ new(1) = r.Broker1Txs /\ new(2) = r.Broker2Txs
  <2>1. sorted(r)
    BY DEF BrokerInv, Reports
  <2>2. /\ \A x \in r.Broker1Txs : x.leg = 1
        /\ \A x \in r.Broker2Txs : x.leg = 2
        /\ \A x \in r.InnerShardTxs : x.leg = 0
    BY <2>1, LegFacts DEF sorted
  <2> QED
    BY <2>2 DEF txsOf
<1>6. ASSUME NEW l \in 0 .. 2
      PROVE  Cardinality({x \in measuredTxs' : x.leg = l})
               = Cardinality(of(l)) + Cardinality(new(l))
  <2>1. /\ {x \in measuredTxs' : x.leg = l} = of(l) \cup new(l)
        /\ of(l) \cap new(l) = {}
    BY <1>4
  <2>2. of(l) \subseteq ownLegs /\ new(l) \subseteq ownLegs
    BY <1>3 DEF measuredTxs
  <2> HIDE DEF of, new
  <2>3. IsFiniteSet(of(l)) /\ IsFiniteSet(new(l))
    BY <2>2, FiniteLegs, FS_Subset
  <2>4. Cardinality(of(l)) \in Nat /\ Cardinality(new(l)) \in Nat
    BY <2>3, FS_CardinalityType
  <2>5. Cardinality(of(l) \cup new(l))
          = Cardinality(of(l)) + Cardinality(new(l)) - Cardinality(of(l) \cap new(l))
    BY <2>3, FS_Union
  <2>6. Cardinality(of(l) \cap new(l)) = 0
    BY <2>1, FS_EmptySet
  <2>7. Cardinality(of(l) \cup new(l)) = Cardinality(of(l)) + Cardinality(new(l))
    BY <2>4, <2>5, <2>6
  <2> QED
    BY <2>1, <2>7, Zenon
<1>7. /\ normalTxNum' = normalTxNum + Cardinality(r.InnerShardTxs)
      /\ broker1TxNum' = broker1TxNum + Cardinality(r.Broker1Txs)
      /\ broker2TxNum' = broker2TxNum + Cardinality(r.Broker2Txs)
  BY DEF UpdateMeasureRecord
<1> HIDE DEF of, new, r
<1>8. /\ normalTxNum' = Cardinality({x \in measuredTxs' : x.leg = 0})
      /\ broker1TxNum' = Cardinality({x \in measuredTxs' : x.leg = 1})
      /\ broker2TxNum' = Cardinality({x \in measuredTxs' : x.leg = 2})
  BY <1>3, <1>5, <1>6, <1>7
<1> QED
  BY <1>1, <1>8 DEF NumbersRight

LEMMA NextLegs ==
  ASSUME BrokerInv, AllGoOn, NumbersRight, [Next]_vars
  PROVE  AllGoOn' /\ NumbersRight'
PROOF
<1>1. CASE \/ SenderStep \/ Deliver \/ StopGap_Inc \/ nextRound \/ UNCHANGED vars
           \/ \E s \in Shards : HandleinCommitEmpty(s)
  <2>1. /\ UNCHANGED <<handling, reportNet, RawTx2BrokerTx, debits, credits, normalTxNum,
                       broker1TxNum, broker2TxNum>>
        /\ waiting \subseteq waiting'
        /\ \A t \in unsent : t \in unsent' \/ first(t) \in waiting'
    BY <1>1, QuietSteps
  <2>2. UNCHANGED <<made, confirming, reportedTxs, inHand>>
    BY <2>1, SameSets DEF inHand
  <2>3. made \subseteq made' \cup waiting'
    BY <2>2
  <2> QED
    BY <2>1, <2>2, <2>3, LegsGoOn, FrameNumbers
<1>2. ASSUME NEW s \in Shards, HandleinCommit(s) PROVE AllGoOn' /\ NumbersRight'
  <2>1. committed(Range(PackTxs(s)))
    BY <1>2, CommitStep
  <2>2. UNCHANGED <<normalTxNum, broker1TxNum, broker2TxNum>>
    BY <1>2 DEF HandleinCommit, measureVars
  <2> QED
    BY <2>1, <2>2, CommitGoesOn, CommitNumbers
<1>3. ASSUME NEW r \in reportNet, handleBlockInfos(r) PROVE AllGoOn' /\ NumbersRight'
  <2>1. taken(r)
    BY <1>3, BlockInfosStep
  <2>2. UNCHANGED <<normalTxNum, broker1TxNum, broker2TxNum>>
    BY <1>3 DEF handleBlockInfos, measureVars
  <2> QED
    BY <2>1, <2>2, TakenGoesOn, TakenNumbers
<1>4. ASSUME NEW h \in handling, handleBrokerType2Mes(h) PROVE AllGoOn' /\ NumbersRight'
  <2>1. /\ waiting' = waiting \cup made
        /\ UNCHANGED <<reportedTxs, confirming, inHand, RawTx2BrokerTx, unsent, debits, credits>>
    BY <1>4, Type2Step
  <2>2. UNCHANGED <<normalTxNum, broker1TxNum, broker2TxNum>>
    BY <1>4 DEF handleBrokerType2Mes, measureVars
  <2>3. /\ waiting \subseteq waiting' /\ made \subseteq made' \cup waiting'
        /\ \A t \in unsent : t \in unsent' \/ first(t) \in waiting'
    BY <2>1
  <2> QED
    BY <2>1, <2>2, <2>3, LegsGoOn, FrameNumbers
<1>5. ASSUME NEW h \in handling, handleTx2ConfirmMag(h) PROVE AllGoOn' /\ NumbersRight'
  <2>1. inHand = txsOf(h.report) /\ closed
    BY <1>5, Tx2ConfirmStep
  <2>2. UpdateMeasureRecord(h.report)
    BY <1>5 DEF handleTx2ConfirmMag
  <2> QED
    BY <2>1, <2>2, ClosedGoesOn, ClosedNumbers
<1> QED
  BY <1>1, <1>2, <1>3, <1>4, <1>5 DEF Next, HandlerStep, ShardStep

\* When the supervisor has stopped and there is no work left, every transaction
\* that was sent is paid, finished and counted.
LEMMA AllDone ==
  ASSUME BrokerInv, AllGoOn, NumbersRight, CountInv, pc = "stopped", ~busy
  PROVE  /\ \A t \in sentRows : credits[t] = 1 /\ (isCross(t) => Finished(t))
         /\ 2 * normalTxNum + broker1TxNum + broker2TxNum = 2 * Cardinality(sentRows)
PROOF
<1>1. waiting = {} /\ made = {} /\ confirming = {} /\ reportedTxs = {} /\ inHand = {}
  BY DEF busy, waiting, made, confirming, reportedTxs, inHand, Range
<1>2. sentRows \subseteq Txs /\ unsent = Txs \ sentRows
  BY SentAreTxs DEF BrokerInv, unsent
<1>3. ASSUME NEW t \in sentRows
      PROVE  /\ debits[t] = 1 /\ credits[t] = 1
             /\ isCross(t) => RawTx2BrokerTx[t] = <<first(t), second(t)>>
  <2>1. NotLost(t) /\ FirstLeg(t) /\ t \in Txs
    BY <1>2 DEF AllGoOn, BrokerInv
  <2>2. executed(first(t)) /\ debits[t] = 1
    BY <1>1, <1>2, <2>1, ExecutedLegs DEF NotLost
  <2>3. CASE isCross(t)
    <3>1. RawTx2BrokerTx[t] # <<>>
      BY <1>1, <2>1, <2>2, <2>3 DEF NotLost
    <3>2. executed(second(t))
      BY <1>1, <2>1, <3>1 DEF NotLost
    <3> QED
      BY <1>1, <2>1, <2>2, <2>3, <3>2, ExecutedLegs DEF NotLost
  <2>4. CASE ~isCross(t)
    BY <2>1, <2>2, <2>4 DEF FirstLeg
  <2> QED
    BY <2>3, <2>4
<1>4. ASSUME NEW t \in sentRows, isCross(t) PROVE Finished(t)
  <2>1. RawTx2BrokerTx[t] = <<first(t), second(t)>> /\ t \in Txs
    BY <1>2, <1>3, <1>4
  <2>2. first(t).leg = 1 /\ second(t).leg = 2
    BY <1>4, <2>1, LegFacts
  <2> QED
    BY <2>1, <2>2 DEF Finished
<1> DEFINE C == {t \in sentRows : isCross(t)}
           D == {t \in sentRows : ~isCross(t)}
           of(l) == {x \in measuredTxs : x.leg = l}
<1>5. ASSUME NEW t \in Txs
      PROVE  /\ first(t) \in measuredTxs <=> t \in sentRows
             /\ isCross(t) => (second(t) \in measuredTxs <=> t \in sentRows)
  <2>1. FirstLeg(t) /\ SecondLeg(t)
    BY DEF BrokerInv
  <2>2. first(t) \in ownLegs /\ (isCross(t) => second(t) \in ownLegs)
    BY DEF ownLegs
  <2>3. t \notin sentRows => debits[t] = 0 /\ credits[t] = 0
    BY <1>2, <2>1 DEF FirstLeg
  <2> QED
    BY <1>1, <1>3, <2>2, <2>3, ExecutedLegs DEF measuredTxs
<1>6. of(0) = {first(t) : t \in D} /\ of(1) = {first(t) : t \in C}
      /\ of(2) = {second(t) : t \in C}
  <2>1. ASSUME NEW x \in measuredTxs
        PROVE  /\ x.raw \in Txs
               /\ \/ x = first(x.raw) /\ x.leg = 1 /\ x.raw \in C
                  \/ x = first(x.raw) /\ x.leg = 0 /\ x.raw \in D
                  \/ x = second(x.raw) /\ x.leg = 2 /\ x.raw \in C
    <3>1. x.raw \in Txs /\ (x = first(x.raw) \/ (isCross(x.raw) /\ x = second(x.raw)))
      BY OwnLegCases DEF measuredTxs
    <3>2. x.raw \in sentRows
      BY <1>5, <3>1
    <3> QED
      BY <3>1, <3>2, LegFacts
  <2>2. \A t \in C : /\ first(t) \in measuredTxs /\ first(t).leg = 1
                     /\ second(t) \in measuredTxs /\ second(t).leg = 2
    BY <1>2, <1>5, LegFacts
  <2>3. \A t \in D : first(t) \in measuredTxs /\ first(t).leg = 0
    BY <1>2, <1>5, LegFacts
  <2> HIDE DEF C, D
  <2>4. of(0) = {first(t) : t \in D}
    BY <2>1, <2>3
  <2>5. of(1) = {first(t) : t \in C}
    BY <2>1, <2>2
  <2>6. of(2) = {second(t) : t \in C}
    BY <2>1, <2>2
  <2> QED
    BY <2>4, <2>5, <2>6
<1>7. /\ normalTxNum = Cardinality(of(0)) /\ broker1TxNum = Cardinality(of(1))
      /\ broker2TxNum = Cardinality(of(2))
  BY DEF NumbersRight
<1>8. C \in SUBSET Txs /\ D \in SUBSET Txs /\ sentRows = C \cup D /\ C \cap D = {}
  BY <1>2
<1> HIDE DEF C, D, of
<1>9. /\ IsFiniteSet(C) /\ IsFiniteSet(D)
      /\ Cardinality(C) \in Nat /\ Cardinality(D) \in Nat
      /\ Cardinality({first(t) : t \in C}) = Cardinality(C)
      /\ Cardinality({first(t) : t \in D}) = Cardinality(D)
      /\ Cardinality({second(t) : t \in C}) = Cardinality(C)
  BY <1>8, LegCount
<1>10. /\ normalTxNum = Cardinality(D) /\ broker1TxNum = Cardinality(C)
       /\ broker2TxNum = Cardinality(C)
  BY <1>6, <1>7, <1>9
<1>11. Cardinality(sentRows) = Cardinality(C) + Cardinality(D)
  <2>1. Cardinality(C \cup D) = Cardinality(C) + Cardinality(D) - Cardinality(C \cap D)
    BY <1>9, FS_Union
  <2>2. Cardinality(C \cap D) = 0
    BY <1>8, FS_EmptySet
  <2>3. Cardinality(C \cup D) = Cardinality(C) + Cardinality(D)
    BY <1>9, <2>1, <2>2
  <2> QED
    BY <1>8, <2>3
<1>12. 2 * normalTxNum + broker1TxNum + broker2TxNum = 2 * Cardinality(sentRows)
  BY <1>9, <1>10, <1>11
<1> QED
  BY <1>3, <1>4, <1>12

\* With shards that keep pace the supervisor stops only when every transaction
\* that was sent is paid and finished, and the measured numbers are those of the
\* transactions sent (StopWhenDone): "wait all txs to be handled", supervisor.go.
THEOREM StopsWhenDone == Spec => []StopWhenDone
PROOF
<1> DEFINE Inv == BrokerInv /\ CountInv /\ AllGoOn /\ NumbersRight /\ Paced
<1>1. Init => Inv
  BY InitBroker, InitCount, InitLegs, InitPaced
<1>2. Inv /\ [Next]_vars => Inv'
  BY NextBroker, NextCount, NextLegs, NextPaced
<1>3. Inv => StopWhenDone
  <2> SUFFICES ASSUME Inv, inSync, pc = "stopped"
      PROVE  /\ \A t \in sentRows : credits[t] = 1 /\ (isCross(t) => Finished(t))
             /\ 2 * normalTxNum + broker1TxNum + broker2TxNum = 2 * Cardinality(sentRows)
    BY DEF StopWhenDone
  <2>1. ~busy
    BY DEF Paced
  <2> QED
    BY <2>1, AllDone
<1> QED
  BY <1>1, <1>2, <1>3, PTL DEF Spec

=============================================================================
