---------------------------- MODULE EpochProofs ----------------------------
(***************************************************************************)
(* The safety properties of EpochSync, proved for any number of shards,    *)
(* nodes and epochs.  The inductive invariant is EpochInv: a leader is in  *)
(* the confirmed epoch or one further, because the committee sends no map  *)
(* before all leaders have reported the epoch of the last one.             *)
(***************************************************************************)
EXTENDS EpochSync, FiniteSetTheorems, TLAPS

\* The leader is one of the nodes, and there is a shard.
LEMMA ShardsAndNodes ==
  /\ Leader \in Nodes /\ Shards # {} /\ MaxEpochs \in Nat
PROOF
<1>1. Cardinality({}) = 0
  BY FS_EmptySet
<1> QED
  BY <1>1, EpochAssumption

\* What a step that updates one entry of a table of the nodes makes of it.
LEMMA NodeUpdate ==
  ASSUME NEW S, NEW g \in [Shards -> [Nodes -> S]], NEW s \in Shards,
         NEW n \in Nodes, NEW v \in S
  PROVE  /\ [g EXCEPT ![s][n] = v] \in [Shards -> [Nodes -> S]]
         /\ [g EXCEPT ![s][n] = v][s][n] = v
         /\ \A t \in Shards, m \in Nodes :
              t # s \/ m # n => [g EXCEPT ![s][n] = v][t][m] = g[t][m]
  OBVIOUS

\* Init establishes the invariant.
LEMMA InitEpochInv == Init => EpochInv
PROOF
<1> SUFFICES ASSUME Init PROVE EpochInv
  OBVIOUS
<1> USE ShardsAndNodes
<1>1. TypeOK
  <2>1. <<>> \in Seq(Nat) /\ <<>> \in Seq(Requests)
    OBVIOUS
  <2>2. /\ ModifiedMap \in [Shards -> [Nodes -> Seq(Nat)]]
        /\ request \in [Shards -> Seq(Requests)]
    BY <2>1 DEF Init, Everywhere
  <2>3. /\ receiving \in [Shards -> [Nodes -> Nat]]
        /\ AccountTransferRound \in [Shards -> [Nodes -> Nat]]
        /\ committed \in [Shards -> [Nodes -> Nat]]
    BY DEF Init, Everywhere
  <2>4. /\ PartitionOn \in [Shards -> [Nodes -> BOOLEAN]] /\ waiting \in BOOLEAN
        /\ vote \in [Shards -> [Nodes -> {"none", "prepare", "refuse", "transfer"}]]
        /\ partitionNet \in [Shards -> [Nodes -> SUBSET Epochs]]
        /\ epochShardAcks \in [Epochs -> SUBSET Shards]
    BY Zenon DEF Init, Everywhere
  <2>5. /\ clpaCnt \in 0 .. MaxEpochs /\ curEpoch \in 0 .. MaxEpochs
        /\ blockInfoNet \subseteq [shard : Shards, epoch : 0 .. MaxEpochs]
    BY DEF Init
  <2> QED
    BY <2>2, <2>3, <2>4, <2>5 DEF TypeOK
<1>2. OneEpochAhead /\ AcksEarned /\ EpochConfirmed
  BY DEF Init, OneEpochAhead, AcksEarned, EpochConfirmed, Everywhere
<1>3. LeaderMaps /\ LeaderKnows /\ OneMapAtATime
  BY DEF Init, LeaderMaps, LeaderKnows, OneMapAtATime, Everywhere
<1>4. LeaderPartition /\ Transfers /\ MapOfEpoch
  BY DEF Init, LeaderPartition, Transfers, MapOfEpoch, Everywhere
<1> QED
  BY <1>1, <1>2, <1>3, <1>4 DEF EpochInv

\* A leader that is in the epoch the committee sent last has no map left.
LEMMA LeaderBounds ==
  ASSUME EpochInv, NEW s \in Shards
  PROVE  /\ AccountTransferRound[s][Leader] \in Nat
         /\ Len(ModifiedMap[s][Leader]) \in Nat
         /\ receiving[s][Leader] \in Nat
         /\ curEpoch <= AccountTransferRound[s][Leader]
         /\ AccountTransferRound[s][Leader] <= Len(ModifiedMap[s][Leader])
         /\ Len(ModifiedMap[s][Leader]) <= clpaCnt
         /\ clpaCnt <= curEpoch + 1
         /\ clpaCnt \in Nat /\ curEpoch \in Nat
PROOF
<1> USE ShardsAndNodes
<1>1. AccountTransferRound[s][Leader] \in Nat /\ ModifiedMap[s][Leader] \in Seq(Nat)
      /\ receiving[s][Leader] \in Nat /\ clpaCnt \in Nat /\ curEpoch \in Nat
  BY DEF EpochInv, TypeOK
<1>2. Len(ModifiedMap[s][Leader]) \in Nat
  BY <1>1
<1>3. Len(ModifiedMap[s][Leader]) <= clpaCnt
  BY <1>1, <1>2 DEF EpochInv, LeaderMaps
<1>4. AccountTransferRound[s][Leader] <= Len(ModifiedMap[s][Leader])
  BY <1>1, <1>2 DEF EpochInv, LeaderKnows
<1> QED
  BY <1>1, <1>2, <1>3, <1>4 DEF EpochInv, EpochConfirmed, OneEpochAhead

\* clpaMapSend: no leader has a map it has not executed, so the one sent is
\* the next of every list.
LEMMA MapSendInv == EpochInv /\ clpaMapSend => EpochInv'
PROOF
<1> SUFFICES ASSUME EpochInv, clpaMapSend PROVE EpochInv'
  OBVIOUS
<1> USE ShardsAndNodes
<1>1. TypeOK'
  <2>1. clpaCnt + 1 \in Epochs
    BY DEF EpochInv, TypeOK, clpaMapSend, Epochs
  <2>2. partitionNet' \in [Shards -> [Nodes -> SUBSET Epochs]]
    BY <2>1 DEF EpochInv, TypeOK, clpaMapSend
  <2>3. clpaCnt' \in 0 .. MaxEpochs /\ waiting' \in BOOLEAN
    BY <2>1 DEF clpaMapSend, Epochs
  <2>4. UNCHANGED <<curEpoch, epochShardAcks, ModifiedMap, receiving, PartitionOn,
                    AccountTransferRound, request, committed, vote, blockInfoNet>>
    BY DEF clpaMapSend, nodeVars, pbftVars
  <2>5. TypeOK
    BY DEF EpochInv
  <2> QED
    BY <2>2, <2>3, <2>4, <2>5 DEF TypeOK
<1>2. OneEpochAhead'
  BY DEF EpochInv, TypeOK, OneEpochAhead, clpaMapSend
<1>3. AcksEarned' /\ EpochConfirmed' /\ LeaderKnows' /\ OneMapAtATime' /\ MapOfEpoch'
  BY DEF EpochInv, AcksEarned, EpochConfirmed, LeaderKnows, OneMapAtATime,
         MapOfEpoch, clpaMapSend, nodeVars, pbftVars
<1>4. LeaderPartition' /\ Transfers'
  BY DEF EpochInv, LeaderPartition, Transfers, current, clpaMapSend, nodeVars, pbftVars
<1>5. LeaderMaps'
  <2> SUFFICES ASSUME NEW s \in Shards
               PROVE  /\ partitionNet'[s][Leader] = {clpaCnt + 1}
                      /\ Len(ModifiedMap[s][Leader]) = clpaCnt
    BY DEF EpochInv, TypeOK, LeaderMaps, clpaMapSend, nodeVars
  <2>1. Len(ModifiedMap[s][Leader]) = clpaCnt
    BY LeaderBounds DEF EpochInv, OneEpochAhead, clpaMapSend
  <2>2. partitionNet[s][Leader] = {}
    BY <2>1, LeaderBounds DEF EpochInv, LeaderMaps
  <2> QED
    BY <2>1, <2>2 DEF clpaMapSend
<1> QED
  BY <1>1, <1>2, <1>3, <1>4, <1>5 DEF EpochInv

\* nextEpochBegins: the committee stops waiting.
LEMMA NextEpochInv == EpochInv /\ nextEpochBegins => EpochInv'
PROOF
<1> SUFFICES ASSUME EpochInv, nextEpochBegins PROVE EpochInv'
  OBVIOUS
<1> USE DEF nextEpochBegins, nodeVars, pbftVars, netVars, EpochInv
<1>1. TypeOK' /\ OneEpochAhead'
  <2>1. waiting' \in BOOLEAN
    OBVIOUS
  <2>2. TypeOK'
    BY <2>1 DEF TypeOK
  <2>3. curEpoch = clpaCnt
    BY DEF TypeOK, OneEpochAhead
  <2> QED
    BY <2>2, <2>3 DEF TypeOK, OneEpochAhead
<1>2. AcksEarned' /\ EpochConfirmed' /\ LeaderKnows' /\ OneMapAtATime' /\ MapOfEpoch'
  BY DEF AcksEarned, EpochConfirmed, LeaderKnows, OneMapAtATime, MapOfEpoch
<1>3. LeaderPartition' /\ Transfers' /\ LeaderMaps'
  BY DEF LeaderPartition, Transfers, LeaderMaps, current
<1> QED
  BY <1>1, <1>2, <1>3

\* advance moves on by one epoch when all shards have acknowledged it, and
\* not at all otherwise, when nobody has acknowledged a later one.
LEMMA AdvanceByOne ==
  ASSUME NEW acks \in [Epochs -> SUBSET Shards], NEW stable \in 0 .. MaxEpochs,
         \A e \in Epochs : e > stable + 1 => acks[e] = {}
  PROVE  /\ advance(acks, stable) \in stable .. MaxEpochs
         /\ advance(acks, stable) <= stable + 1
         /\ advance(acks, stable) = stable + 1 => acks[stable + 1] = Shards
PROOF
<1> USE ShardsAndNodes
<1> DEFINE Fits(e) == /\ \A k \in stable + 1 .. e : acks[k] = Shards
                      /\ e < MaxEpochs => acks[e + 1] # Shards
<1>1. \E e \in stable .. MaxEpochs : Fits(e)
  <2>1. CASE stable < MaxEpochs /\ acks[stable + 1] = Shards
    <3>1. stable + 1 \in stable .. MaxEpochs
      BY <2>1
    <3>2. stable + 1 < MaxEpochs => acks[stable + 1 + 1] = {}
      BY DEF Epochs
    <3>3. \A k \in stable + 1 .. stable + 1 : acks[k] = Shards
      BY <2>1
    <3> QED
      BY <3>1, <3>2, <3>3
  <2>2. CASE ~(stable < MaxEpochs /\ acks[stable + 1] = Shards)
    <3>1. stable \in stable .. MaxEpochs /\ stable + 1 .. stable = {}
      OBVIOUS
    <3> QED
      BY <2>2, <3>1
  <2> QED
    BY <2>1, <2>2
<1>2. advance(acks, stable) \in stable .. MaxEpochs /\ Fits(advance(acks, stable))
  BY <1>1 DEF advance
<1>3. ASSUME NEW e \in stable .. MaxEpochs, Fits(e) PROVE e <= stable + 1
  <2> SUFFICES ASSUME e > stable + 1 PROVE FALSE
    OBVIOUS
  <2>1. stable + 2 \in stable + 1 .. e /\ stable + 2 \in Epochs
    BY DEF Epochs
  <2>2. acks[stable + 2] = Shards
    BY <1>3, <2>1
  <2> QED
    BY <2>1, <2>2
<1>4. ASSUME NEW e \in stable .. MaxEpochs, Fits(e), e = stable + 1
      PROVE  acks[stable + 1] = Shards
  BY <1>4
<1> HIDE DEF Fits
<1> QED
  BY <1>2, <1>3, <1>4

\* HandleBlockInfo: the epoch moves on when every leader has reported it.
LEMMA BlockInfoInv ==
  ASSUME EpochInv, NEW b \in blockInfoNet, HandleBlockInfo(b)
  PROVE  EpochInv'
PROOF
<1> USE ShardsAndNodes
<1>1. b.shard \in Shards /\ b.epoch \in 0 .. MaxEpochs
      /\ b.epoch <= AccountTransferRound[b.shard][Leader]
  BY DEF EpochInv, TypeOK, AcksEarned
<1> DEFINE acks == [epochShardAcks EXCEPT ![b.epoch] = @ \cup {b.shard}]
           next == advance(acks, curEpoch)
<1>2. ASSUME b.epoch > curEpoch
      PROVE  /\ acks \in [Epochs -> SUBSET Shards]
             /\ \A e \in Epochs : \A s \in acks[e] : e <= AccountTransferRound[s][Leader]
             /\ next \in curEpoch .. MaxEpochs
             /\ next <= curEpoch + 1
             /\ next = curEpoch + 1 => acks[curEpoch + 1] = Shards
  <2>1. b.epoch \in Epochs
    BY <1>1, <1>2 DEF EpochInv, TypeOK, Epochs
  <2>2. acks \in [Epochs -> SUBSET Shards]
    BY <1>1, <2>1 DEF EpochInv, TypeOK
  <2>3. \A e \in Epochs : \A s \in acks[e] : e <= AccountTransferRound[s][Leader]
    BY <1>1, <2>1 DEF EpochInv, TypeOK, AcksEarned
  <2>4. \A e \in Epochs : e > curEpoch + 1 => acks[e] = {}
    <3> SUFFICES ASSUME NEW e \in Epochs, NEW s \in acks[e], e > curEpoch + 1 PROVE FALSE
      OBVIOUS
    <3>1. s \in Shards /\ e <= AccountTransferRound[s][Leader] /\ e \in Nat
      BY <2>2, <2>3 DEF Epochs
    <3> QED
      BY <3>1, LeaderBounds
  <2>5. curEpoch \in 0 .. MaxEpochs
    BY DEF EpochInv, TypeOK
  <2> HIDE DEF acks
  <2> QED
    BY <2>2, <2>3, <2>4, <2>5, AdvanceByOne
<1>3. UNCHANGED <<clpaCnt, waiting, nodeVars, pbftVars, partitionNet>>
  BY DEF HandleBlockInfo
<1>4. blockInfoNet' \subseteq blockInfoNet
  BY DEF HandleBlockInfo
<1>5. CASE b.epoch <= curEpoch
  <2>1. UNCHANGED <<curEpoch, epochShardAcks>>
    BY <1>5 DEF HandleBlockInfo, recordEpochAck
  <2>2. TypeOK' /\ OneEpochAhead' /\ AcksEarned' /\ EpochConfirmed'
    BY <1>3, <1>4, <2>1 DEF EpochInv, TypeOK, OneEpochAhead, AcksEarned,
       EpochConfirmed, nodeVars, pbftVars
  <2> QED
    BY <1>3, <2>2 DEF EpochInv, LeaderMaps, LeaderKnows, LeaderPartition,
       OneMapAtATime, Transfers, MapOfEpoch, current, nodeVars, pbftVars
<1>6. CASE b.epoch > curEpoch
  <2>1. /\ curEpoch' = next
        /\ epochShardAcks' =
             [e \in Epochs |-> IF e \in curEpoch + 1 .. next THEN {} ELSE acks[e]]
    <3>1. ~(b.epoch <= curEpoch)
      BY <1>1, <1>6 DEF EpochInv, TypeOK
    <3>2. recordEpochAck(b.shard, b.epoch)
      BY DEF HandleBlockInfo
    <3> HIDE DEF EpochInv
    <3> QED
      BY <3>1, <3>2 DEF recordEpochAck
  <2> HIDE DEF acks, next
  <2>2. /\ epochShardAcks' \in [Epochs -> SUBSET Shards]
        /\ \A e \in Epochs : epochShardAcks'[e] \subseteq acks[e]
    BY <1>2, <1>6, <2>1
  <2>3. curEpoch \in Nat /\ next \in Nat /\ next <= MaxEpochs
    BY <1>2, <1>6 DEF EpochInv, TypeOK
  <2>4. \A s \in Shards : next <= AccountTransferRound[s][Leader]
    <3> SUFFICES ASSUME NEW s \in Shards PROVE next <= AccountTransferRound[s][Leader]
      OBVIOUS
    <3>1. CASE next = curEpoch + 1
      <4>1. curEpoch + 1 \in Epochs /\ s \in acks[curEpoch + 1]
        BY <1>2, <1>6, <2>3, <3>1 DEF Epochs
      <4> QED
        BY <1>2, <1>6, <3>1, <4>1
    <3>2. CASE next # curEpoch + 1
      BY <1>2, <1>6, <2>3, <3>2, LeaderBounds
    <3> QED
      BY <3>1, <3>2
  <2>5. next <= clpaCnt
    BY <1>1, <2>3, <2>4, LeaderBounds
  <2>6. TypeOK'
    <3>1. curEpoch' \in 0 .. MaxEpochs
      BY <2>1, <2>3
    <3> QED
      BY <1>3, <1>4, <2>2, <3>1 DEF EpochInv, TypeOK, nodeVars, pbftVars
  <2>7. OneEpochAhead'
    <3>1. curEpoch <= next /\ clpaCnt \in Nat
      BY <1>2, <1>6, <2>3 DEF EpochInv, TypeOK
    <3>2. curEpoch' <= clpaCnt' /\ clpaCnt' <= curEpoch' + 1
      BY <1>3, <2>1, <2>3, <2>5, <3>1 DEF EpochInv, OneEpochAhead
    <3>3. curEpoch = clpaCnt => curEpoch' = clpaCnt'
      BY <1>3, <2>1, <2>3, <2>5, <3>1
    <3> QED
      BY <1>3, <3>2, <3>3 DEF EpochInv, OneEpochAhead
  <2>8. AcksEarned' /\ EpochConfirmed'
    BY <1>2, <1>3, <1>4, <1>6, <2>1, <2>2, <2>4
       DEF EpochInv, AcksEarned, EpochConfirmed, nodeVars
  <2> QED
    BY <1>3, <2>6, <2>7, <2>8 DEF EpochInv, LeaderMaps, LeaderKnows,
       LeaderPartition, OneMapAtATime, Transfers, MapOfEpoch, current, nodeVars,
       pbftVars
<1>7. b.epoch \in Nat /\ curEpoch \in Nat
  BY <1>1 DEF EpochInv, TypeOK
<1> QED
  BY <1>5, <1>6, <1>7

\* The invariant speaks of the leaders: it is kept by a step that changes
\* nothing of a leader.
LEMMA LeadersFrame ==
  ASSUME EpochInv, TypeOK', Transfers',
         UNCHANGED <<supervisorVars, request, blockInfoNet>>,
         \A t \in Shards :
           /\ ModifiedMap'[t][Leader] = ModifiedMap[t][Leader]
           /\ receiving'[t][Leader] = receiving[t][Leader]
           /\ PartitionOn'[t][Leader] = PartitionOn[t][Leader]
           /\ AccountTransferRound'[t][Leader] = AccountTransferRound[t][Leader]
           /\ partitionNet'[t][Leader] = partitionNet[t][Leader]
           /\ committed'[t][Leader] = committed[t][Leader]
  PROVE  EpochInv'
PROOF
<1> USE DEF EpochInv, supervisorVars
<1>1. OneEpochAhead' /\ MapOfEpoch'
  BY DEF OneEpochAhead, MapOfEpoch
<1>2. AcksEarned' /\ EpochConfirmed'
  BY DEF AcksEarned, EpochConfirmed, TypeOK
<1>3. LeaderMaps' /\ LeaderKnows' /\ OneMapAtATime'
  BY DEF LeaderMaps, LeaderKnows, OneMapAtATime
<1>4. LeaderPartition'
  BY DEF LeaderPartition, current
<1> QED
  BY <1>1, <1>2, <1>3, <1>4

\* handlePartitionMsg: the map a leader gets is the next of its list, and its
\* last partition is executed.
LEMMA PartitionMsgInv ==
  ASSUME EpochInv, NEW s \in Shards, NEW n \in Nodes,
         NEW e \in partitionNet[s][n], handlePartitionMsg(s, n, e)
  PROVE  EpochInv'
PROOF
<1> USE ShardsAndNodes
<1>1. UNCHANGED <<supervisorVars, PartitionOn, AccountTransferRound, request,
                  committed, vote, blockInfoNet>>
  BY DEF handlePartitionMsg, pbftVars
<1>2. TypeOK'
  <2>1. ModifiedMap[s][n] \in Seq(Nat) /\ e \in Nat
    BY DEF EpochInv, TypeOK, Epochs
  <2>2. ModifiedMap' \in [Shards -> [Nodes -> Seq(Nat)]]
    <3>1. Append(ModifiedMap[s][n], e) \in Seq(Nat)
      BY <2>1
    <3> QED
      BY <3>1 DEF handlePartitionMsg, EpochInv, TypeOK
  <2>3. receiving' \in [Shards -> [Nodes -> Nat]]
    <3>1. receiving \in [Shards -> [Nodes -> Nat]]
      BY DEF EpochInv, TypeOK
    <3>2. receiving[s][n] + 1 \in Nat
      BY <3>1
    <3> QED
      BY <3>1, <3>2, NodeUpdate DEF handlePartitionMsg
  <2>4. partitionNet' \in [Shards -> [Nodes -> SUBSET Epochs]]
    <3>1. partitionNet \in [Shards -> [Nodes -> SUBSET Epochs]]
      BY DEF EpochInv, TypeOK
    <3>2. partitionNet[s][n] \ {e} \in SUBSET Epochs
      BY <3>1
    <3> QED
      BY <3>1, <3>2, NodeUpdate DEF handlePartitionMsg
  <2> QED
    BY <1>1, <2>2, <2>3, <2>4 DEF EpochInv, TypeOK, supervisorVars
<1>3. Transfers'
  BY <1>1 DEF EpochInv, Transfers, current
<1>4. CASE n # Leader
  <2>1. \A t \in Shards :
          /\ ModifiedMap'[t][Leader] = ModifiedMap[t][Leader]
          /\ receiving'[t][Leader] = receiving[t][Leader]
          /\ partitionNet'[t][Leader] = partitionNet[t][Leader]
    BY <1>4 DEF handlePartitionMsg, EpochInv, TypeOK
  <2> QED
    BY <1>1, <1>2, <1>3, <2>1, LeadersFrame
<1>5. CASE n = Leader
  <2> DEFINE mm == ModifiedMap[s][Leader]
             round == AccountTransferRound[s][Leader]
  <2>1. mm \in Seq(Nat) /\ round \in Nat /\ e \in Nat
    BY DEF EpochInv, TypeOK, Epochs
  <2>2. partitionNet[s][Leader] = {e} /\ e = clpaCnt
    BY <1>5 DEF EpochInv, LeaderMaps
  <2>3. Len(mm) = clpaCnt - 1
    BY <2>2 DEF EpochInv, LeaderMaps
  <2>4. Len(mm) = round
    BY <2>3, LeaderBounds
  <2>5. ~PartitionOn[s][Leader] /\ receiving[s][Leader] = 0
    <3>1. ~(PartitionOn[s][Leader] \/ receiving[s][Leader] > 0)
      BY <2>1, <2>4 DEF EpochInv, LeaderKnows
    <3> QED
      BY <3>1, LeaderBounds
  <2>6. /\ ModifiedMap'[s][Leader] = Append(mm, e)
        /\ receiving'[s][Leader] = 1
        /\ partitionNet'[s][Leader] = {}
        /\ \A t \in Shards \ {s} :
             /\ ModifiedMap'[t] = ModifiedMap[t]
             /\ receiving'[t] = receiving[t]
             /\ partitionNet'[t] = partitionNet[t]
    BY <1>5, <2>2, <2>5 DEF handlePartitionMsg, EpochInv, TypeOK
  <2>7. OneEpochAhead' /\ AcksEarned' /\ EpochConfirmed' /\ MapOfEpoch'
    BY <1>1 DEF EpochInv, OneEpochAhead, AcksEarned, EpochConfirmed, MapOfEpoch,
       supervisorVars
  <2>8. LeaderMaps'
    <3>1. /\ Len(Append(mm, e)) = clpaCnt
          /\ \A i \in 1 .. clpaCnt : Append(mm, e)[i] = i
      BY <2>1, <2>2, <2>3 DEF EpochInv, LeaderMaps
    <3> QED
      BY <1>1, <2>6, <3>1 DEF EpochInv, LeaderMaps, supervisorVars
  <2>9. LeaderKnows' /\ OneMapAtATime'
    <3>1. Len(Append(mm, e)) = round + 1
      BY <2>1, <2>4
    <3> QED
      BY <1>1, <2>6, <3>1 DEF EpochInv, LeaderKnows, OneMapAtATime
  <2>10. LeaderPartition'
    BY <1>1, <2>5, <2>6 DEF EpochInv, LeaderPartition, current
  <2> QED
    BY <1>2, <1>3, <2>7, <2>8, <2>9, <2>10 DEF EpochInv
<1> QED
  BY <1>4, <1>5

\* setPartitionOn.
LEMMA SetOnInv ==
  ASSUME EpochInv, NEW s \in Shards, NEW n \in Nodes, setPartitionOn(s, n)
  PROVE  EpochInv'
PROOF
<1> USE ShardsAndNodes
<1>1. UNCHANGED <<supervisorVars, ModifiedMap, AccountTransferRound, request,
                  committed, vote, partitionNet, blockInfoNet>>
  BY DEF setPartitionOn, pbftVars, netVars
<1>2. TypeOK'
  <2>1. receiving' \in [Shards -> [Nodes -> Nat]]
    <3>1. receiving \in [Shards -> [Nodes -> Nat]]
      BY DEF EpochInv, TypeOK
    <3>2. receiving[s][n] - 1 \in Nat
      BY <3>1 DEF setPartitionOn
    <3> QED
      BY <3>1, <3>2, NodeUpdate DEF setPartitionOn
  <2>2. PartitionOn' \in [Shards -> [Nodes -> BOOLEAN]]
    BY DEF setPartitionOn, EpochInv, TypeOK
  <2> QED
    BY <1>1, <2>1, <2>2 DEF EpochInv, TypeOK, supervisorVars
<1>3. Transfers'
  BY <1>1 DEF EpochInv, Transfers, current
<1>4. CASE n # Leader
  <2>1. \A t \in Shards :
          /\ receiving'[t][Leader] = receiving[t][Leader]
          /\ PartitionOn'[t][Leader] = PartitionOn[t][Leader]
    BY <1>4 DEF setPartitionOn, EpochInv, TypeOK
  <2> QED
    BY <1>1, <1>2, <1>3, <2>1, LeadersFrame
<1>5. CASE n = Leader
  <2>1. receiving[s][Leader] = 1
    BY <1>5, LeaderBounds DEF setPartitionOn, EpochInv, OneMapAtATime
  <2>2. /\ receiving'[s][Leader] = 0
        /\ PartitionOn'[s][Leader]
        /\ \A t \in Shards \ {s} : /\ receiving'[t] = receiving[t]
                                   /\ PartitionOn'[t] = PartitionOn[t]
    BY <1>5, <2>1 DEF setPartitionOn, EpochInv, TypeOK
  <2>3. OneEpochAhead' /\ AcksEarned' /\ EpochConfirmed' /\ MapOfEpoch' /\ LeaderMaps'
    BY <1>1 DEF EpochInv, OneEpochAhead, AcksEarned, EpochConfirmed, MapOfEpoch,
       LeaderMaps, supervisorVars
  <2>4. LeaderKnows' /\ OneMapAtATime'
    BY <1>1, <2>1, <2>2 DEF EpochInv, LeaderKnows, OneMapAtATime
  <2>5. LeaderPartition'
    BY <1>1, <2>2 DEF EpochInv, LeaderPartition, current
  <2> QED
    BY <1>2, <1>3, <2>3, <2>4, <2>5 DEF EpochInv
<1> QED
  BY <1>4, <1>5

\* HandleinPropose: while a partition is on, the map of the round is the last
\* one the leader has got.
LEMMA ProposeInv ==
  ASSUME EpochInv, NEW s \in Shards, HandleinPropose(s)
  PROVE  EpochInv'
PROOF
<1> USE ShardsAndNodes
<1> DEFINE r == newRequest(s)
           mm == ModifiedMap[s][Leader]
<1>1. UNCHANGED <<supervisorVars, ModifiedMap, receiving, PartitionOn,
                  AccountTransferRound, committed, vote, partitionNet,
                  blockInfoNet>>
  BY DEF HandleinPropose, nodeVars, netVars
<1>2. mm \in Seq(Nat) /\ Len(mm) \in Nat /\ request[s] \in Seq(Requests)
      /\ committed[s][Leader] = Len(request[s])
  BY DEF EpochInv, TypeOK, HandleinPropose, leaderFree
<1>3. /\ r \in Requests /\ r.map = r.atid
      /\ r.kind = "partition" => PartitionOn[s][Leader] /\ r.atid = Len(mm)
  <2>1. CASE PartitionOn[s][Leader]
    <3>1. Len(mm) = AccountTransferRound[s][Leader] + 1
      BY <2>1 DEF EpochInv, LeaderKnows
    <3>2. mm[Len(mm)] = Len(mm)
      <4>1. Len(mm) \in 1 .. Len(mm)
        BY <1>2, <3>1, LeaderBounds
      <4> QED
        BY <4>1 DEF EpochInv, LeaderMaps
    <3>3. r = [kind |-> "partition", map |-> Len(mm), atid |-> Len(mm)]
      BY <2>1, <3>1, <3>2 DEF newRequest
    <3> QED
      BY <1>2, <2>1, <3>3 DEF Requests
  <2>2. CASE ~PartitionOn[s][Leader]
    <3>1. r = [kind |-> "block", map |-> 0, atid |-> 0]
      BY <2>2 DEF newRequest
    <3> QED
      BY <3>1 DEF Requests
  <2> QED
    BY <2>1, <2>2
<1> HIDE DEF r
<1>4. /\ request'[s] = Append(request[s], r)
      /\ \A t \in Shards \ {s} : request'[t] = request[t]
      /\ request' \in [Shards -> Seq(Requests)]
  <2>1. Append(request[s], r) \in Seq(Requests)
    BY <1>2, <1>3
  <2>2. request \in [Shards -> Seq(Requests)]
        /\ request' = [request EXCEPT ![s] = Append(request[s], r)]
    BY DEF EpochInv, TypeOK, HandleinPropose, r
  <2> QED
    BY <2>1, <2>2
<1>5. /\ Len(request'[s]) = Len(request[s]) + 1
      /\ request'[s][Len(request[s]) + 1] = r
      /\ \A k \in 1 .. Len(request[s]) : request'[s][k] = request[s][k]
      /\ Len(request[s]) \in Nat
  BY <1>2, <1>3, <1>4
<1>6. TypeOK'
  BY <1>1, <1>4 DEF EpochInv, TypeOK, supervisorVars
<1>7. OneEpochAhead' /\ AcksEarned' /\ EpochConfirmed' /\ LeaderMaps'
      /\ LeaderKnows' /\ OneMapAtATime'
  BY <1>1 DEF EpochInv, OneEpochAhead, AcksEarned, EpochConfirmed, LeaderMaps,
     LeaderKnows, OneMapAtATime, supervisorVars
<1>8. MapOfEpoch'
  <2> SUFFICES ASSUME NEW t \in Shards, NEW k \in 1 .. Len(request'[t])
               PROVE  request'[t][k].map = request'[t][k].atid
    BY DEF MapOfEpoch
  <2>1. CASE t # s
    BY <1>4, <2>1 DEF EpochInv, MapOfEpoch
  <2>2. CASE t = s /\ k \in 1 .. Len(request[s])
    BY <1>5, <2>2 DEF EpochInv, MapOfEpoch
  <2>3. CASE t = s /\ k = Len(request[s]) + 1
    BY <1>3, <1>5, <2>3
  <2> QED
    BY <1>5, <2>1, <2>2, <2>3
<1>9. LeaderPartition'
  <2> SUFFICES ASSUME NEW t \in Shards
               PROVE
      /\ PartitionOn[t][Leader] => receiving[t][Leader] = 0
      /\ Len(request'[t]) <= committed[t][Leader] + 1
      /\ committed[t][Leader] < Len(request'[t])
         /\ request'[t][committed[t][Leader] + 1].kind = "partition" =>
           /\ PartitionOn[t][Leader]
           /\ request'[t][committed[t][Leader] + 1].atid = Len(ModifiedMap[t][Leader])
    BY <1>1 DEF LeaderPartition, current
  <2>1. CASE t # s
    BY <1>4, <2>1 DEF EpochInv, LeaderPartition, current
  <2>2. CASE t = s
    BY <1>2, <1>3, <1>5, <2>2 DEF EpochInv, LeaderPartition
  <2> QED
    BY <2>1, <2>2
<1>10. Transfers'
  <2> SUFFICES ASSUME NEW t \in Shards, NEW n \in Nodes
               PROVE
      /\ committed[t][n] <= Len(request'[t])
      /\ vote[t][n] = "transfer" =>
           /\ committed[t][n] < Len(request'[t])
           /\ request'[t][committed[t][n] + 1].kind = "partition"
    BY <1>1 DEF Transfers, current
  <2>1. committed[t][n] \in Nat
    BY DEF EpochInv, TypeOK
  <2>2. CASE t # s
    BY <1>4, <2>2 DEF EpochInv, Transfers, current
  <2>3. CASE t = s
    <3>1. /\ committed[s][n] <= Len(request[s])
          /\ vote[s][n] = "transfer" =>
               /\ committed[s][n] < Len(request[s])
               /\ request[s][committed[s][n] + 1].kind = "partition"
      <4>1. Transfers
        BY DEF EpochInv
      <4> HIDE DEF EpochInv
      <4> QED
        BY <4>1, SMTT(20) DEF Transfers, current
    <3>2. committed[s][n] < Len(request[s]) =>
            request'[s][committed[s][n] + 1] = request[s][committed[s][n] + 1]
      <4> SUFFICES ASSUME committed[s][n] < Len(request[s])
                   PROVE  request'[s][committed[s][n] + 1] = request[s][committed[s][n] + 1]
        OBVIOUS
      <4>1. committed[s][n] + 1 \in 1 .. Len(request[s])
        BY <1>5, <2>1, <2>3
      <4> QED
        BY <1>5, <4>1
    <3>3. committed[s][n] <= Len(request'[s])
      BY <1>5, <2>1, <2>3, <3>1
    <3>4. committed[s][n] < Len(request[s]) => committed[s][n] < Len(request'[s])
      BY <1>5, <2>1, <2>3
    <3> QED
      BY <2>3, <3>1, <3>2, <3>3, <3>4
  <2> QED
    BY <2>2, <2>3
<1> QED
  BY <1>6, <1>7, <1>8, <1>9, <1>10 DEF EpochInv

\* handlePrePrepare: only the vote of the node changes.
LEMMA PrePrepareInv ==
  ASSUME EpochInv, NEW s \in Shards, NEW n \in Nodes, handlePrePrepare(s, n)
  PROVE  EpochInv'
PROOF
<1> USE ShardsAndNodes
<1>1. UNCHANGED <<supervisorVars, ModifiedMap, receiving, PartitionOn,
                  AccountTransferRound, request, committed, partitionNet,
                  blockInfoNet>>
  BY DEF handlePrePrepare, nodeVars, netVars
<1>2. PICK v \in {"prepare", "refuse"} : vote' = [vote EXCEPT ![s][n] = v]
  BY Zenon DEF handlePrePrepare
<1>3. vote \in [Shards -> [Nodes -> {"none", "prepare", "refuse", "transfer"}]]
  BY DEF EpochInv, TypeOK
<1>4. /\ vote' \in [Shards -> [Nodes -> {"none", "prepare", "refuse", "transfer"}]]
      /\ \A t \in Shards, m \in Nodes : vote'[t][m] = "transfer" => vote[t][m] = "transfer"
  BY <1>2, <1>3
<1>5. TypeOK'
  BY <1>1, <1>4 DEF EpochInv, TypeOK, supervisorVars
<1>6. Transfers'
  BY <1>1, <1>4 DEF EpochInv, Transfers, current
<1> QED
  BY <1>1, <1>5, <1>6, LeadersFrame

\* commitBlock: the leader reports the epoch it is in.
LEMMA CommitBlockInv ==
  ASSUME EpochInv, NEW s \in Shards, NEW n \in Nodes, commitBlock(s, n)
  PROVE  EpochInv'
PROOF
<1> USE ShardsAndNodes
<1>1. UNCHANGED <<supervisorVars, ModifiedMap, receiving, PartitionOn,
                  AccountTransferRound, request, partitionNet>>
  BY DEF commitBlock, commitNext, nodeVars
<1>2. /\ committed[s][n] \in Nat /\ Len(request[s]) \in Nat
      /\ committed[s][n] < Len(request[s])
      /\ current(s, n).kind = "block"
  BY DEF EpochInv, TypeOK, commitBlock, canCommit
<1>3. /\ committed' \in [Shards -> [Nodes -> Nat]]
      /\ committed'[s][n] = committed[s][n] + 1
      /\ \A t \in Shards, m \in Nodes :
           t # s \/ m # n => committed'[t][m] = committed[t][m]
  <2>1. committed \in [Shards -> [Nodes -> Nat]]
    BY DEF EpochInv, TypeOK
  <2>2. committed' = [committed EXCEPT ![s][n] = committed[s][n] + 1]
    BY DEF commitBlock, commitNext
  <2>3. committed[s][n] + 1 \in Nat
    BY <1>2
  <2> QED
    BY <2>1, <2>2, <2>3, NodeUpdate
<1>4. /\ vote' \in [Shards -> [Nodes -> {"none", "prepare", "refuse", "transfer"}]]
      /\ vote'[s][n] = "none"
      /\ \A t \in Shards, m \in Nodes : t # s \/ m # n => vote'[t][m] = vote[t][m]
  <2>1. /\ vote \in [Shards -> [Nodes -> {"none", "prepare", "refuse", "transfer"}]]
        /\ vote' = [vote EXCEPT ![s][n] = "none"]
    BY DEF EpochInv, TypeOK, commitBlock, commitNext
  <2> QED
    BY <2>1
<1>5. \A b \in blockInfoNet' :
        b \in blockInfoNet \/ b = [shard |-> s, epoch |-> AccountTransferRound[s][Leader]]
  BY DEF commitBlock
<1>6. TypeOK'
  <2>1. AccountTransferRound[s][Leader] \in 0 .. MaxEpochs
    <3>1. clpaCnt \in 0 .. MaxEpochs
      BY DEF EpochInv, TypeOK
    <3> QED
      BY <3>1, LeaderBounds
  <2>2. blockInfoNet' \subseteq [shard : Shards, epoch : 0 .. MaxEpochs]
    <3>1. blockInfoNet \subseteq [shard : Shards, epoch : 0 .. MaxEpochs]
      BY DEF EpochInv, TypeOK
    <3> QED
      BY <1>5, <2>1, <3>1
  <2> QED
    BY <1>1, <1>3, <1>4, <2>2 DEF EpochInv, TypeOK, supervisorVars
<1>7. OneEpochAhead' /\ EpochConfirmed' /\ LeaderMaps' /\ LeaderKnows'
      /\ OneMapAtATime' /\ MapOfEpoch'
  BY <1>1 DEF EpochInv, OneEpochAhead, EpochConfirmed, LeaderMaps, LeaderKnows,
     OneMapAtATime, MapOfEpoch, supervisorVars
<1>8. AcksEarned'
  BY <1>1, <1>5, LeaderBounds DEF EpochInv, AcksEarned, supervisorVars
<1>9. LeaderPartition'
  <2> SUFFICES ASSUME NEW t \in Shards
               PROVE
      /\ PartitionOn[t][Leader] => receiving[t][Leader] = 0
      /\ Len(request[t]) <= committed'[t][Leader] + 1
      /\ committed'[t][Leader] < Len(request[t])
         /\ request[t][committed'[t][Leader] + 1].kind = "partition" =>
           /\ PartitionOn[t][Leader]
           /\ request[t][committed'[t][Leader] + 1].atid = Len(ModifiedMap[t][Leader])
    BY <1>1 DEF LeaderPartition, current
  <2>1. CASE t # s \/ n # Leader
    BY <1>3, <2>1 DEF EpochInv, LeaderPartition, current
  <2>2. CASE t = s /\ n = Leader
    <3>1. Len(request[s]) <= committed[s][Leader] + 1
      BY DEF EpochInv, LeaderPartition
    <3>2. committed'[s][Leader] = committed[s][Leader] + 1
      BY <1>3, <2>2
    <3>3. Len(request[s]) <= committed'[s][Leader] + 1
          /\ ~(committed'[s][Leader] < Len(request[s]))
      BY <1>2, <2>2, <3>1, <3>2
    <3> QED
      BY <2>2, <3>3 DEF EpochInv, LeaderPartition
  <2> QED
    BY <2>1, <2>2
<1>10. Transfers'
  <2> SUFFICES ASSUME NEW t \in Shards, NEW m \in Nodes
               PROVE
      /\ committed'[t][m] <= Len(request[t])
      /\ vote'[t][m] = "transfer" =>
           /\ committed'[t][m] < Len(request[t])
           /\ request[t][committed'[t][m] + 1].kind = "partition"
    BY <1>1 DEF Transfers, current
  <2>1. CASE t # s \/ m # n
    <3>1. committed'[t][m] = committed[t][m] /\ vote'[t][m] = vote[t][m]
      BY <1>3, <1>4, <2>1
    <3> QED
      BY <3>1 DEF EpochInv, Transfers, current
  <2>2. CASE t = s /\ m = n
    BY <1>2, <1>3, <1>4, <2>2
  <2> QED
    BY <2>1, <2>2
<1> QED
  BY <1>6, <1>7, <1>8, <1>9, <1>10 DEF EpochInv

\* accountTransfer: the leader has as many maps as its own request says.
LEMMA TransferInv ==
  ASSUME EpochInv, NEW s \in Shards, NEW n \in Nodes, accountTransfer(s, n)
  PROVE  EpochInv'
PROOF
<1> USE ShardsAndNodes
<1> DEFINE r == current(s, n)
<1>1. UNCHANGED <<supervisorVars, receiving, PartitionOn, AccountTransferRound,
                  request, committed, partitionNet, blockInfoNet>>
  BY DEF accountTransfer, netVars
<1>2. /\ committed[s][n] \in Nat /\ request[s] \in Seq(Requests)
      /\ committed[s][n] < Len(request[s])
      /\ r.kind = "partition"
  BY DEF EpochInv, TypeOK, accountTransfer, canCommit
<1>3. r \in Requests
  BY <1>2 DEF current
<1>4. /\ ModifiedMap' \in [Shards -> [Nodes -> Seq(Nat)]]
      /\ \A t \in Shards, m \in Nodes :
           t # s \/ m # n => ModifiedMap'[t][m] = ModifiedMap[t][m]
      /\ Len(ModifiedMap[s][n]) = r.atid => ModifiedMap'[s][n] = ModifiedMap[s][n]
  <2>1. /\ ModifiedMap \in [Shards -> [Nodes -> Seq(Nat)]]
        /\ Append(ModifiedMap[s][n], r.map) \in Seq(Nat)
    BY <1>3 DEF EpochInv, TypeOK, Requests
  <2>2. ModifiedMap' = IF Len(ModifiedMap[s][n]) # r.atid
                       THEN [ModifiedMap EXCEPT ![s][n] = Append(ModifiedMap[s][n], r.map)]
                       ELSE ModifiedMap
    BY DEF accountTransfer
  <2> HIDE DEF r, EpochInv
  <2>3. CASE Len(ModifiedMap[s][n]) = r.atid
    BY <2>1, <2>2, <2>3
  <2>4. CASE Len(ModifiedMap[s][n]) # r.atid
    BY <2>1, <2>2, <2>4, NodeUpdate
  <2> QED
    BY <2>3, <2>4
<1>5. /\ vote' \in [Shards -> [Nodes -> {"none", "prepare", "refuse", "transfer"}]]
      /\ \A t \in Shards, m \in Nodes : t # s \/ m # n => vote'[t][m] = vote[t][m]
  <2>1. /\ vote \in [Shards -> [Nodes -> {"none", "prepare", "refuse", "transfer"}]]
        /\ vote' = [vote EXCEPT ![s][n] = "transfer"]
    BY DEF EpochInv, TypeOK, accountTransfer
  <2> QED
    BY <2>1
<1>6. TypeOK'
  BY <1>1, <1>4, <1>5 DEF EpochInv, TypeOK, supervisorVars
<1>7. Transfers'
  BY <1>1, <1>2, <1>5 DEF EpochInv, Transfers, current
<1>8. \A t \in Shards : ModifiedMap'[t][Leader] = ModifiedMap[t][Leader]
  <2>1. n = Leader => Len(ModifiedMap[s][Leader]) = r.atid
    BY <1>2 DEF EpochInv, LeaderPartition
  <2> QED
    BY <1>4, <2>1
<1> QED
  BY <1>1, <1>6, <1>7, <1>8, LeadersFrame

\* endTransfer: the leader is in the epoch of the last map it has got.
LEMMA EndTransferInv ==
  ASSUME EpochInv, NEW s \in Shards, NEW n \in Nodes, endTransfer(s, n)
  PROVE  EpochInv'
PROOF
<1> USE ShardsAndNodes
<1> DEFINE atid == current(s, n).atid
<1>1. UNCHANGED <<supervisorVars, ModifiedMap, receiving, request, partitionNet,
                  blockInfoNet>>
  BY DEF endTransfer, commitNext
<1>2. /\ committed[s][n] \in Nat /\ request[s] \in Seq(Requests)
      /\ committed[s][n] < Len(request[s])
      /\ current(s, n).kind = "partition"
  BY DEF EpochInv, TypeOK, endTransfer, Transfers
<1>3. atid \in Nat
  <2>1. current(s, n) \in Requests
    BY <1>2 DEF current
  <2> QED
    BY <2>1 DEF Requests
<1>4. /\ committed' \in [Shards -> [Nodes -> Nat]]
      /\ committed'[s][n] = committed[s][n] + 1
      /\ \A t \in Shards, m \in Nodes :
           t # s \/ m # n => committed'[t][m] = committed[t][m]
  <2>1. committed \in [Shards -> [Nodes -> Nat]]
    BY DEF EpochInv, TypeOK
  <2>2. committed' = [committed EXCEPT ![s][n] = committed[s][n] + 1]
    BY DEF endTransfer, commitNext
  <2>3. committed[s][n] + 1 \in Nat
    BY <1>2
  <2> QED
    BY <2>1, <2>2, <2>3, NodeUpdate
<1>5. /\ vote' \in [Shards -> [Nodes -> {"none", "prepare", "refuse", "transfer"}]]
      /\ vote'[s][n] = "none"
      /\ \A t \in Shards, m \in Nodes : t # s \/ m # n => vote'[t][m] = vote[t][m]
  <2>1. /\ vote \in [Shards -> [Nodes -> {"none", "prepare", "refuse", "transfer"}]]
        /\ vote' = [vote EXCEPT ![s][n] = "none"]
    BY DEF EpochInv, TypeOK, endTransfer, commitNext
  <2> QED
    BY <2>1
<1>6. /\ AccountTransferRound' \in [Shards -> [Nodes -> Nat]]
      /\ AccountTransferRound'[s][n] = atid
      /\ \A t \in Shards, m \in Nodes :
           t # s \/ m # n => AccountTransferRound'[t][m] = AccountTransferRound[t][m]
  <2>1. /\ AccountTransferRound \in [Shards -> [Nodes -> Nat]]
        /\ AccountTransferRound' = [AccountTransferRound EXCEPT ![s][n] = atid]
    BY DEF EpochInv, TypeOK, endTransfer
  <2> HIDE DEF atid, EpochInv
  <2> QED
    BY <1>3, <2>1, NodeUpdate
<1>7. /\ PartitionOn' \in [Shards -> [Nodes -> BOOLEAN]]
      /\ ~PartitionOn'[s][n]
      /\ \A t \in Shards, m \in Nodes :
           t # s \/ m # n => PartitionOn'[t][m] = PartitionOn[t][m]
  <2>1. /\ PartitionOn \in [Shards -> [Nodes -> BOOLEAN]]
        /\ PartitionOn' = [PartitionOn EXCEPT ![s][n] = FALSE]
    BY DEF EpochInv, TypeOK, endTransfer
  <2> QED
    BY <2>1
<1>8. TypeOK'
  BY <1>1, <1>4, <1>5, <1>6, <1>7 DEF EpochInv, TypeOK, supervisorVars
<1>9. OneEpochAhead' /\ LeaderMaps' /\ OneMapAtATime' /\ MapOfEpoch'
  BY <1>1 DEF EpochInv, OneEpochAhead, LeaderMaps, OneMapAtATime, MapOfEpoch,
     supervisorVars
<1>10. n = Leader =>
         /\ atid = Len(ModifiedMap[s][Leader])
         /\ receiving[s][Leader] = 0
  BY <1>2 DEF EpochInv, LeaderPartition
<1>11. \A t \in Shards :
         /\ AccountTransferRound[t][Leader] <= AccountTransferRound'[t][Leader]
         /\ AccountTransferRound[t][Leader] \in Nat
         /\ AccountTransferRound'[t][Leader] \in Nat
  <2> SUFFICES ASSUME NEW t \in Shards
               PROVE  /\ AccountTransferRound[t][Leader] <= AccountTransferRound'[t][Leader]
                      /\ AccountTransferRound[t][Leader] \in Nat
                      /\ AccountTransferRound'[t][Leader] \in Nat
    OBVIOUS
  <2> HIDE DEF atid
  <2>1. CASE t # s \/ n # Leader
    BY <1>6, <2>1, LeaderBounds
  <2>2. CASE t = s /\ n = Leader
    BY <1>3, <1>6, <1>10, <2>2, LeaderBounds
  <2> QED
    BY <2>1, <2>2
<1>12. AcksEarned' /\ EpochConfirmed'
  <2>1. \A e \in Epochs : epochShardAcks[e] \subseteq Shards /\ e \in Nat
    BY DEF EpochInv, TypeOK, Epochs
  <2>2. curEpoch \in Nat /\ \A b \in blockInfoNet : b.shard \in Shards /\ b.epoch \in Nat
    <3>1. curEpoch \in 0 .. MaxEpochs
          /\ blockInfoNet \subseteq [shard : Shards, epoch : 0 .. MaxEpochs]
      BY DEF EpochInv, TypeOK
    <3> QED
      BY <3>1
  <2>3. AcksEarned'
    BY <1>1, <1>11, <2>1, <2>2 DEF EpochInv, AcksEarned, supervisorVars
  <2>4. EpochConfirmed'
    BY <1>1, <1>11, <2>2 DEF EpochInv, EpochConfirmed, supervisorVars
  <2> QED
    BY <2>3, <2>4
<1>13. LeaderKnows'
  <2> SUFFICES ASSUME NEW t \in Shards
               PROVE
      Len(ModifiedMap[t][Leader]) =
        AccountTransferRound'[t][Leader] +
          (IF PartitionOn'[t][Leader] \/ receiving[t][Leader] > 0 THEN 1 ELSE 0)
    BY <1>1 DEF LeaderKnows
  <2> HIDE DEF atid
  <2>1. CASE t # s \/ n # Leader
    BY <1>6, <1>7, <2>1 DEF EpochInv, LeaderKnows
  <2>2. CASE t = s /\ n = Leader
    <3>1. ~(PartitionOn'[s][Leader] \/ receiving[s][Leader] > 0)
      BY <1>7, <1>10, <2>2
    <3>2. Len(ModifiedMap[s][Leader]) = AccountTransferRound'[s][Leader]
      BY <1>6, <1>10, <2>2
    <3> QED
      BY <1>11, <2>2, <3>1, <3>2
  <2> QED
    BY <2>1, <2>2
<1>14. LeaderPartition'
  <2> SUFFICES ASSUME NEW t \in Shards
               PROVE
      /\ PartitionOn'[t][Leader] => receiving[t][Leader] = 0
      /\ Len(request[t]) <= committed'[t][Leader] + 1
      /\ committed'[t][Leader] < Len(request[t])
         /\ request[t][committed'[t][Leader] + 1].kind = "partition" =>
           /\ PartitionOn'[t][Leader]
           /\ request[t][committed'[t][Leader] + 1].atid = Len(ModifiedMap[t][Leader])
    BY <1>1 DEF LeaderPartition, current
  <2>1. CASE t # s \/ n # Leader
    BY <1>4, <1>7, <2>1 DEF EpochInv, LeaderPartition, current
  <2>2. CASE t = s /\ n = Leader
    <3>1. Len(request[s]) <= committed[s][Leader] + 1 /\ Len(request[s]) \in Nat
      BY <1>2 DEF EpochInv, LeaderPartition
    <3>2. committed'[s][Leader] = committed[s][Leader] + 1
      BY <1>4, <2>2
    <3>3. Len(request[s]) <= committed'[s][Leader] + 1
          /\ ~(committed'[s][Leader] < Len(request[s]))
      BY <1>2, <2>2, <3>1, <3>2
    <3> QED
      BY <1>7, <2>2, <3>3
  <2> QED
    BY <2>1, <2>2
<1>15. Transfers'
  <2> SUFFICES ASSUME NEW t \in Shards, NEW m \in Nodes
               PROVE
      /\ committed'[t][m] <= Len(request[t])
      /\ vote'[t][m] = "transfer" =>
           /\ committed'[t][m] < Len(request[t])
           /\ request[t][committed'[t][m] + 1].kind = "partition"
    BY <1>1 DEF Transfers, current
  <2>1. CASE t # s \/ m # n
    <3>1. committed'[t][m] = committed[t][m] /\ vote'[t][m] = vote[t][m]
      BY <1>4, <1>5, <2>1
    <3> QED
      BY <3>1 DEF EpochInv, Transfers, current
  <2>2. CASE t = s /\ m = n
    BY <1>2, <1>4, <1>5, <2>2
  <2> QED
    BY <2>1, <2>2
<1> QED
  BY <1>8, <1>9, <1>12, <1>13, <1>14, <1>15 DEF EpochInv

-----------------------------------------------------------------------------

\* EpochInv holds of every reachable state of the resharding protocol of
\* committee_clpa.go and the CLPA modules of the nodes.
THEOREM EpochsInOrder == Spec => []EpochInv
PROOF
<1>1. EpochInv /\ [Next]_vars => EpochInv'
  <2> SUFFICES ASSUME EpochInv, [Next]_vars PROVE EpochInv'
    OBVIOUS
  <2>1. CASE clpaMapSend
    BY <2>1, MapSendInv
  <2>2. CASE nextEpochBegins
    BY <2>2, NextEpochInv
  <2>3. ASSUME NEW b \in blockInfoNet, HandleBlockInfo(b) PROVE EpochInv'
    BY <2>3, BlockInfoInv
  <2>4. ASSUME NEW s \in Shards, HandleinPropose(s) PROVE EpochInv'
    BY <2>4, ProposeInv
  <2>5. ASSUME NEW s \in Shards, NEW n \in Nodes, NodeStep(s, n) PROVE EpochInv'
    BY <2>5, PartitionMsgInv, SetOnInv, PrePrepareInv, CommitBlockInv,
       TransferInv, EndTransferInv DEF NodeStep
  <2>6. CASE UNCHANGED vars
    BY <2>6 DEF EpochInv, TypeOK, OneEpochAhead, AcksEarned, EpochConfirmed,
       LeaderMaps, LeaderKnows, LeaderPartition, OneMapAtATime, Transfers,
       MapOfEpoch, current, vars, supervisorVars, nodeVars, pbftVars, netVars
  <2> QED
    BY <2>1, <2>2, <2>3, <2>4, <2>5, <2>6 DEF Next
<1> QED
  BY <1>1, InitEpochInv, PTL DEF Spec

\* The fields of the committee, of Data_supportCLPA and the messages keep
\* their types; nobody reports an epoch past the last one.
THEOREM EpochTypes == Spec => []TypeOK
PROOF
<1>1. EpochInv => TypeOK
  BY DEF EpochInv
<1> QED
  BY <1>1, EpochsInOrder, PTL

\* recordEpochAck moves curEpoch on only to an epoch that the leader of every
\* shard has entered.
THEOREM EpochsConfirmed == Spec => []EpochConfirmed
PROOF
<1>1. EpochInv => EpochConfirmed
  BY DEF EpochInv
<1> QED
  BY <1>1, EpochsInOrder, PTL

\* No leader is two epochs ahead of another: the wait loop of
\* MsgSendingControl keeps the shards together.
THEOREM ShardsTogether == Spec => []LeadersTogether
PROOF
<1>1. EpochInv => LeadersTogether
  <2> SUFFICES ASSUME EpochInv, NEW s \in Shards, NEW t \in Shards
               PROVE  AccountTransferRound[s][Leader] <= AccountTransferRound[t][Leader] + 1
    BY DEF LeadersTogether
  <2> QED
    BY LeaderBounds
<1> QED
  BY <1>1, EpochsInOrder, PTL

\* proposePartition always pairs the map of an epoch with its number.
THEOREM MapsOfEpochs == Spec => []MapOfEpoch
PROOF
<1>1. EpochInv => MapOfEpoch
  BY DEF EpochInv
<1> QED
  BY <1>1, EpochsInOrder, PTL

\* A leader never forgets a map it has not executed: accountTransfer_do clears
\* PartitionOn only when there is none.
THEOREM LeadersKnow == Spec => []LeaderKnows
PROOF
<1>1. EpochInv => LeaderKnows
  BY DEF EpochInv
<1> QED
  BY <1>1, EpochsInOrder, PTL

\* The first k requests of a shard lead to one epoch only.
LEMMA LeadsToOne ==
  ASSUME TypeOK, NEW s \in Shards, NEW k \in Nat, NEW d, NEW e,
         leadsTo(s, k, d), leadsTo(s, k, e)
  PROVE  d = e
PROOF
<1>1. CASE \A j \in 1 .. k : request[s][j].kind = "block"
  BY <1>1 DEF leadsTo
<1>2. CASE ~\A j \in 1 .. k : request[s][j].kind = "block"
  <2>1. PICK i \in 1 .. k :
          /\ request[s][i].kind = "partition" /\ request[s][i].atid = d
          /\ \A j \in i + 1 .. k : request[s][j].kind = "block"
    BY <1>2 DEF leadsTo
  <2>2. PICK h \in 1 .. k :
          /\ request[s][h].kind = "partition" /\ request[s][h].atid = e
          /\ \A j \in h + 1 .. k : request[s][j].kind = "block"
    BY <1>2 DEF leadsTo
  <2>3. ~(i < h) /\ ~(h < i)
    BY <2>1, <2>2
  <2> QED
    BY <2>1, <2>2, <2>3
<1> QED
  BY <1>1, <1>2

\* Committing one more request: a block leaves the epoch as it is, and a
\* partition leads to its own.
LEMMA LeadsToNext ==
  ASSUME NEW s \in Shards, NEW k \in Nat, NEW e, leadsTo(s, k, e)
  PROVE  /\ request[s][k + 1].kind = "block" => leadsTo(s, k + 1, e)
         /\ request[s][k + 1].kind = "partition" => leadsTo(s, k + 1, request[s][k + 1].atid)
  BY DEF leadsTo

\* A sequence keeps its elements when one is added to it.
LEMMA AppendKeeps ==
  ASSUME NEW S, NEW q \in Seq(S), NEW e
  PROVE  \A j \in 1 .. Len(q) : Append(q, e)[j] = q[j]
  OBVIOUS

\* Every step keeps EpochOfCommitted.
LEMMA CommittedStep ==
  ASSUME EpochInv, EpochOfCommitted, [Next]_vars
  PROVE  EpochOfCommitted'
PROOF
<1> USE ShardsAndNodes
<1>0. TypeOK /\ Transfers
  BY DEF EpochInv
<1>1. CASE UNCHANGED <<request, committed, AccountTransferRound>>
  BY <1>1 DEF EpochOfCommitted, leadsTo
<1>2. ASSUME NEW s \in Shards, HandleinPropose(s) PROVE EpochOfCommitted'
  <2> SUFFICES ASSUME NEW t \in Shards, NEW n \in Nodes
               PROVE  leadsTo(t, committed[t][n], AccountTransferRound[t][n])'
    BY DEF EpochOfCommitted
  <2>1. UNCHANGED <<committed, AccountTransferRound>>
    BY <1>2 DEF HandleinPropose, nodeVars
  <2>2. committed[t][n] \in Nat /\ committed[t][n] <= Len(request[t])
        /\ request[t] \in Seq(Requests)
    BY <1>0 DEF TypeOK, Transfers
  <2>3. \A j \in 1 .. committed[t][n] : request'[t][j] = request[t][j]
    <3>1. request[s] \in Seq(Requests)
      BY <1>0 DEF TypeOK
    <3>2. request'[t] = IF t = s THEN Append(request[s], newRequest(s)) ELSE request[t]
      BY <1>0, <1>2 DEF HandleinPropose, TypeOK
    <3> QED
      BY <2>2, <3>1, <3>2, AppendKeeps
  <2>4. leadsTo(t, committed[t][n], AccountTransferRound[t][n])
    BY DEF EpochOfCommitted
  <2> QED
    BY <2>1, <2>2, <2>3, <2>4 DEF leadsTo
<1>3. ASSUME NEW s \in Shards, NEW n \in Nodes,
             commitBlock(s, n) \/ endTransfer(s, n)
      PROVE  EpochOfCommitted'
  <2> SUFFICES ASSUME NEW t \in Shards, NEW m \in Nodes
               PROVE  leadsTo(t, committed[t][m], AccountTransferRound[t][m])'
    BY DEF EpochOfCommitted
  <2>1. committed \in [Shards -> [Nodes -> Nat]]
        /\ AccountTransferRound \in [Shards -> [Nodes -> Nat]]
    BY <1>0 DEF TypeOK
  <2>2. request' = request /\ committed' = [committed EXCEPT ![s][n] = @ + 1]
    BY <1>3 DEF commitBlock, endTransfer, commitNext
  <2>3. CASE t # s \/ m # n
    <3>1. committed'[t][m] = committed[t][m]
          /\ AccountTransferRound'[t][m] = AccountTransferRound[t][m]
      BY <1>3, <2>1, <2>2, <2>3 DEF commitBlock, endTransfer, nodeVars
    <3> QED
      BY <2>2, <3>1 DEF EpochOfCommitted, leadsTo
  <2>4. CASE t = s /\ m = n
    <3>1. committed'[s][n] = committed[s][n] + 1 /\ committed[s][n] \in Nat
      BY <2>1, <2>2
    <3>2. leadsTo(s, committed[s][n], AccountTransferRound[s][n])
      BY DEF EpochOfCommitted
    <3>3. CASE commitBlock(s, n)
      <4>1. AccountTransferRound' = AccountTransferRound /\ current(s, n).kind = "block"
        BY <3>3 DEF commitBlock, nodeVars
      <4>2. leadsTo(s, committed[s][n] + 1, AccountTransferRound[s][n])
        BY <3>1, <3>2, <4>1, LeadsToNext DEF current
      <4> QED
        BY <2>2, <2>4, <3>1, <4>1, <4>2 DEF leadsTo
    <3>4. CASE endTransfer(s, n)
      <4>1. current(s, n).kind = "partition"
        BY <1>0, <3>4 DEF Transfers, endTransfer
      <4>2. AccountTransferRound'[s][n] = current(s, n).atid
        BY <2>1, <3>4 DEF endTransfer
      <4>3. leadsTo(s, committed[s][n] + 1, current(s, n).atid)
        BY <3>1, <3>2, <4>1, LeadsToNext DEF current
      <4> QED
        BY <2>2, <2>4, <3>1, <4>2, <4>3 DEF leadsTo, current
    <3> QED
      BY <1>3, <3>3, <3>4
  <2> QED
    BY <2>3, <2>4
<1>4. ASSUME NEW s \in Shards, NEW n \in Nodes,
             \/ \E e \in partitionNet[s][n] : handlePartitionMsg(s, n, e)
             \/ setPartitionOn(s, n)
             \/ handlePrePrepare(s, n)
             \/ accountTransfer(s, n)
      PROVE  UNCHANGED <<request, committed, AccountTransferRound>>
  BY <1>4 DEF handlePartitionMsg, setPartitionOn, handlePrePrepare, accountTransfer,
              nodeVars, pbftVars
<1>5. clpaMapSend \/ nextEpochBegins \/ (\E b \in blockInfoNet : HandleBlockInfo(b))
        => UNCHANGED <<request, committed, AccountTransferRound>>
  BY DEF clpaMapSend, nextEpochBegins, HandleBlockInfo, nodeVars, pbftVars
<1>6. UNCHANGED vars => UNCHANGED <<request, committed, AccountTransferRound>>
  BY DEF vars, nodeVars, pbftVars
<1> QED
  BY <1>1, <1>2, <1>3, <1>4, <1>5, <1>6 DEF Next, NodeStep

\* Nodes of a shard that have committed the same requests are in the same
\* epoch: accountTransfer_do takes the number from the request, however many
\* maps the node itself has got by then.
THEOREM NodesInSameEpoch == Spec => []SameEpoch
PROOF
<1>1. Init => EpochOfCommitted
  BY DEF Init, Everywhere, EpochOfCommitted, leadsTo
<1>2. EpochInv /\ EpochOfCommitted /\ [Next]_vars => EpochOfCommitted'
  BY CommittedStep
<1>3. EpochInv /\ EpochOfCommitted => SameEpoch
  <2> SUFFICES ASSUME EpochInv, EpochOfCommitted, NEW s \in Shards,
                      NEW m \in Nodes, NEW n \in Nodes,
                      committed[s][m] = committed[s][n]
               PROVE  AccountTransferRound[s][m] = AccountTransferRound[s][n]
    BY DEF SameEpoch
  <2>1. TypeOK /\ committed[s][n] \in Nat
    BY DEF EpochInv, TypeOK
  <2> QED
    BY <2>1, LeadsToOne DEF EpochOfCommitted
<1> QED
  BY <1>1, <1>2, <1>3, EpochsInOrder, PTL DEF Spec

=============================================================================
