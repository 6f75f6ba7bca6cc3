----------------------------- MODULE PbftProofs -----------------------------
(***************************************************************************)
(* Module Pbft for every value of the constants, view changes and restarts *)
(* included: type correctness, and how far the views go.                   *)
(***************************************************************************)
EXTENDS Pbft, TLAPS, FiniteSetTheorems

\* The steps of a node, named once for the case analysis of the proofs.
LEMMA NextCases ==
  ASSUME Next
  PROVE  \/ RestartShard
         \/ \E n \in Nodes :
              \/ BeginRound(n)
              \/ Propose(n)
              \/ SetPrepareStage(n)
              \/ \E d \in 1 .. Len(request) :
                   \/ handlePrePrepare(n, d)
                   \/ handlePrepare(n, d)
                   \/ refusePrepare(n, d)
                   \/ handleCommitCount(n, d)
                   \/ handleCommitBlock(n, d)
                   \/ handleCommitAsk(n, d)
              \/ \E m \in requestOldNet : handleRequestOldSeq(n, m)
              \/ \E m \in sendOldNet : handleSendOldSeq(n, m)
              \/ applyOldRequest(n)
              \/ endSendOldSeq(n)
              \/ viewChangePropose(n)
              \/ \E m \in viewChangeNet[n] : handleViewChangeMsg(n, m)
              \/ \E m \in newViewNet[n] : handleNewViewMsg(n, m)
              \/ resetStage(n)
  BY DEF Next, Handle, CatchUp, ChangeView

-----------------------------------------------------------------------------
(***************************************************************************)
(* Type correctness.                                                       *)
(***************************************************************************)

LEMMA AddBlockType ==
  ASSUME NEW c \in Seq(Digests), NEW d \in Digests
  PROVE  AddBlock(c, d) \in Seq(Digests)
  BY DEF AddBlock

\* What a broadcast does to the messages on their way.
LEMMA ToAllType ==
  ASSUME NEW net \in [Nodes -> [Digests -> Nat]], NEW d \in Digests
  PROVE  ToAll(net, d) \in [Nodes -> [Digests -> Nat]]
  BY DEF ToAll

LEMMA InitType == Init => TypeOK
  BY ConstantsAssumption
  DEF Init, TypeOK, ConsensusType, MapType, LockType, ViewType, PropType,
      OldType, NetType, BoundType, NoMessages, ZeroCounts, AllFalse, AllZero,
      NoOldRequest, Applying, Digests

\* A group of variables that does not change keeps its types.
LEMMA UnchangedType ==
  ASSUME TypeOK
  PROVE  /\ UNCHANGED consensusVars => ConsensusType'
         /\ UNCHANGED mapVars => MapType'
         /\ UNCHANGED lockVars => LockType'
         /\ UNCHANGED viewVars => ViewType'
         /\ UNCHANGED propVars => PropType'
         /\ UNCHANGED oldVars => OldType'
         /\ UNCHANGED netVars => NetType'
         /\ UNCHANGED boundVars => BoundType'
<1>1. UNCHANGED consensusVars => ConsensusType'
  BY DEF TypeOK, ConsensusType, consensusVars
<1>2. UNCHANGED mapVars => MapType'
  BY DEF TypeOK, MapType, mapVars
<1>3. UNCHANGED lockVars => LockType'
  BY DEF TypeOK, LockType, lockVars
<1>4. UNCHANGED viewVars => ViewType'
  BY DEF TypeOK, ViewType, viewVars
<1>5. UNCHANGED propVars => PropType'
  BY DEF TypeOK, PropType, propVars
<1>6. UNCHANGED oldVars => OldType'
  BY DEF TypeOK, OldType, oldVars
<1>7. UNCHANGED netVars => NetType'
  BY DEF TypeOK, NetType, netVars
<1>8. UNCHANGED boundVars => BoundType'
  BY DEF TypeOK, BoundType, boundVars
<1> QED
  BY <1>1, <1>2, <1>3, <1>4, <1>5, <1>6, <1>7, <1>8

LEMMA NextType == TypeOK /\ [Next]_vars => TypeOK'
<1> SUFFICES ASSUME TypeOK, [Next]_vars
             PROVE  TypeOK'
  OBVIOUS
<1> ConsensusType /\ MapType /\ LockType /\ ViewType /\ PropType /\ OldType
    /\ NetType /\ BoundType
  BY DEF TypeOK
<1>0. \A d \in 1 .. Len(request) : d \in Digests /\ request[d] \in Request
  BY ConstantsAssumption DEF ConsensusType, Digests
<1> USE ConstantsAssumption
<1>1. ASSUME RestartShard PROVE TypeOK'
  <2>1. ConsensusType'
    BY <1>1 DEF RestartShard, ConsensusType
  <2>2. MapType'
    BY <1>1 DEF RestartShard, NoMessages, ZeroCounts, MapType
  <2>3. LockType'
    BY <1>1 DEF RestartShard, AllFalse, LockType
  <2>4. ViewType'
    BY <1>1 DEF RestartShard, NoMessages, ViewType
  <2>5. PropType'
    BY <1>1 DEF RestartShard, AllZero, PropType
  <2>6. OldType'
    BY <1>1 DEF RestartShard, NoOldRequest, Applying, OldType
  <2>7. NetType'
    BY <1>1 DEF RestartShard, NoMessages, ZeroCounts, NetType
  <2>8. BoundType'
    BY <1>1 DEF RestartShard, BoundType
  <2> QED
    BY <2>1, <2>2, <2>3, <2>4, <2>5, <2>6, <2>7, <2>8 DEF TypeOK
<1>2. ASSUME NEW n \in Nodes, BeginRound(n) PROVE TypeOK'
  <2>1. PropType'
    BY <1>2 DEF BeginRound, PropType
  <2>2. UNCHANGED <<consensusVars, mapVars, lockVars, viewVars, oldVars, netVars, boundVars>>
    BY <1>2 DEF BeginRound
  <2> QED
    BY <2>1, <2>2, UnchangedType DEF TypeOK
<1>3. ASSUME NEW n \in Nodes, Propose(n) PROVE TypeOK'
  <2>1. ConsensusType'
    BY <1>3 DEF Propose, CurrentBlock, Request, Digests, ConsensusType
  <2>2. MapType'
    BY <1>3 DEF Propose, MapType
  <2>3. LockType'
    BY <1>3 DEF Propose, LockType
  <2>4. PropType'
    BY <1>3 DEF Propose, PropType
  <2>5. NetType'
    BY <1>3 DEF Propose, NetType
  <2>6. UNCHANGED <<viewVars, oldVars, boundVars>>
    BY <1>3 DEF Propose
  <2> QED
    BY <2>1, <2>2, <2>3, <2>4, <2>5, <2>6, UnchangedType DEF TypeOK
<1>4. ASSUME NEW n \in Nodes, SetPrepareStage(n) PROVE TypeOK'
  <2>1. ConsensusType'
    BY <1>4 DEF SetPrepareStage, ConsensusType
  <2>2. PropType'
    BY <1>4 DEF SetPrepareStage, PropType
  <2>3. UNCHANGED <<mapVars, lockVars, viewVars, oldVars, netVars, boundVars>>
    BY <1>4 DEF SetPrepareStage
  <2> QED
    BY <2>1, <2>2, <2>3, UnchangedType DEF TypeOK
<1>5. ASSUME NEW n \in Nodes, NEW d \in 1 .. Len(request),
             handlePrePrepare(n, d) PROVE TypeOK'
  <2>1. ConsensusType'
    <3>1. UNCHANGED <<request, view, sequenceID, chain>>
      BY <1>5 DEF handlePrePrepare
    <3>2. \/ pbftStage' = [pbftStage EXCEPT ![n] = @ + 1]
          \/ pbftStage' = pbftStage
      BY <1>5 DEF handlePrePrepare
    <3>3. pbftStage' \in [Nodes -> Nat \ {0}]
      <4>1. pbftStage \in [Nodes -> Nat \ {0}]
        BY DEF ConsensusType
      <4> QED
        BY <3>2, <4>1
    <3> QED
      BY <3>1, <3>3 DEF ConsensusType
  <2>2. MapType'
    BY <1>5, <1>0 DEF handlePrePrepare, PutHeight, MapType
  <2>3. NetType'
    <3>1. prePrepareNet' \in [Nodes -> SUBSET Digests] /\ UNCHANGED commitNet
      BY <1>5 DEF handlePrePrepare, NetType
    <3>2. prepareNet' = ToAll(prepareNet, d) \/ UNCHANGED prepareNet
      BY <1>5 DEF handlePrePrepare
    <3>3. ToAll(prepareNet, d) \in [Nodes -> [Digests -> Nat]]
      BY <1>0, ToAllType DEF NetType
    <3>4. prepareNet' \in [Nodes -> [Digests -> Nat]]
      BY <3>2, <3>3 DEF NetType
    <3> QED
      BY <3>1, <3>4 DEF NetType
  <2>4. UNCHANGED <<lockVars, viewVars, propVars, oldVars, boundVars>>
    BY <1>5 DEF handlePrePrepare
  <2> QED
    BY <2>1, <2>2, <2>3, <2>4, UnchangedType DEF TypeOK
<1>6. ASSUME NEW n \in Nodes, NEW d \in 1 .. Len(request),
             handlePrepare(n, d) PROVE TypeOK'
  <2>1. ConsensusType'
    <3>1. UNCHANGED <<request, view, sequenceID, chain>>
      BY <1>6 DEF handlePrepare
    <3>2. \/ pbftStage' = [pbftStage EXCEPT ![n] = @ + 1]
          \/ pbftStage' = pbftStage
      BY <1>6 DEF handlePrepare
    <3>3. pbftStage' \in [Nodes -> Nat \ {0}]
      <4>1. pbftStage \in [Nodes -> Nat \ {0}]
        BY DEF ConsensusType
      <4> QED
        BY <3>2, <4>1
    <3> QED
      BY <3>1, <3>3 DEF ConsensusType
  <2>2. MapType'
    <3>1. UNCHANGED <<requestPool, height2Digest, cntCommitConfirm, isReply>>
      BY <1>6 DEF handlePrepare
    <3>2. cntPrepareConfirm' \in [Nodes -> [Digests -> Nat]]
      BY <1>0, <1>6 DEF handlePrepare, MapType
    <3>3. \/ isCommitBordcast' = [isCommitBordcast EXCEPT ![n] = @ \cup {d}]
          \/ UNCHANGED isCommitBordcast
      BY <1>6 DEF handlePrepare
    <3>4. isCommitBordcast' \in [Nodes -> SUBSET Digests]
      <4>1. CASE UNCHANGED isCommitBordcast
        BY <4>1 DEF MapType
      <4>2. CASE isCommitBordcast' = [isCommitBordcast EXCEPT ![n] = @ \cup {d}]
        BY <1>0, <4>2 DEF MapType
      <4> QED
        BY <3>3, <4>1, <4>2
    <3> QED
      BY <3>1, <3>2, <3>4 DEF MapType
  <2>3. NetType'
    <3>1. prepareNet' = [prepareNet EXCEPT ![n][d] = @ - 1] /\ prepareNet[n][d] > 0
      BY <1>6 DEF handlePrepare
    <3>2. UNCHANGED prePrepareNet
      BY <1>6 DEF handlePrepare
    <3>3. commitNet' = ToAll(commitNet, d) \/ UNCHANGED commitNet
      BY <1>6 DEF handlePrepare
    <3>4. prepareNet' \in [Nodes -> [Digests -> Nat]]
      BY <1>0, <3>1 DEF NetType
    <3>5. commitNet' \in [Nodes -> [Digests -> Nat]]
      BY <1>0, <3>3, ToAllType DEF NetType
    <3> QED
      BY <3>2, <3>4, <3>5 DEF NetType
  <2>4. BoundType'
    <3>1. \/ commitSenders' = [commitSenders EXCEPT ![d] = @ \cup {n}]
          \/ UNCHANGED commitSenders
      BY <1>6 DEF handlePrepare
    <3>2. UNCHANGED <<timeouts, resets, restarts>>
      BY <1>6 DEF handlePrepare
    <3> QED
      BY <1>0, <3>1, <3>2 DEF BoundType
  <2>5. UNCHANGED <<lockVars, viewVars, propVars, oldVars>>
    BY <1>6 DEF handlePrepare
  <2> QED
    BY <2>1, <2>2, <2>3, <2>4, <2>5, UnchangedType DEF TypeOK
<1>7. ASSUME NEW n \in Nodes, NEW d \in 1 .. Len(request),
             refusePrepare(n, d) PROVE TypeOK'
  <2>1. NetType'
    BY <1>7, <1>0 DEF refusePrepare, NetType
  <2>2. UNCHANGED <<consensusVars, mapVars, lockVars, viewVars, propVars, oldVars, boundVars>>
    BY <1>7 DEF refusePrepare
  <2> QED
    BY <2>1, <2>2, UnchangedType DEF TypeOK
<1>8. ASSUME NEW n \in Nodes, NEW d \in 1 .. Len(request),
             handleCommitCount(n, d) PROVE TypeOK'
  <2>1. MapType'
    BY <1>8, <1>0 DEF handleCommitCount, countCommit, MapType
  <2>2. NetType'
    BY <1>8, <1>0 DEF handleCommitCount, countCommit, NetType
  <2>3. UNCHANGED <<consensusVars, lockVars, viewVars, propVars, oldVars, boundVars>>
    BY <1>8 DEF handleCommitCount, countCommit, consensusVars, lockVars, oldVars
  <2> QED
    BY <2>1, <2>2, <2>3, UnchangedType DEF TypeOK
<1>9. ASSUME NEW n \in Nodes, NEW d \in 1 .. Len(request),
             handleCommitBlock(n, d) PROVE TypeOK'
  <2>1. ConsensusType'
    <3>1. UNCHANGED <<request, view>>
      BY <1>9 DEF handleCommitBlock, countCommit
    <3>2. /\ sequenceID' \in [Nodes -> Nat]
          /\ pbftStage' \in [Nodes -> Nat \ {0}]
      BY <1>9 DEF handleCommitBlock, endRound, nextSequence, ConsensusType
    <3>3. chain[n] \in Seq(Digests)
      BY DEF ConsensusType
    <3>4. chain' = [chain EXCEPT ![n] = AddBlock(chain[n], d)]
      BY <1>9 DEF handleCommitBlock
    <3>5. chain' \in [Nodes -> Seq(Digests)]
      BY <1>0, <3>3, <3>4, AddBlockType DEF ConsensusType
    <3> QED
      BY <3>1, <3>2, <3>5 DEF ConsensusType
  <2>2. MapType'
    BY <1>9, <1>0 DEF handleCommitBlock, countCommit, endRound, MapType
  <2>3. LockType'
    <3>1. /\ UNCHANGED askForLock
          /\ \/ UNCHANGED <<sequenceLock, crashed>>
             \/ /\ sequenceLock' = [sequenceLock EXCEPT ![n] = FALSE]
                /\ crashed' = [crashed EXCEPT ![n] = ~sequenceLock[n]]
      BY <1>9 DEF handleCommitBlock, endRound
    <3> QED
      BY <3>1 DEF LockType
  <2>4. NetType'
    BY <1>9, <1>0 DEF handleCommitBlock, countCommit, NetType
  <2>5. UNCHANGED <<viewVars, propVars, oldVars, boundVars>>
    BY <1>9 DEF handleCommitBlock, countCommit, oldVars
  <2> QED
    BY <2>1, <2>2, <2>3, <2>4, <2>5, UnchangedType DEF TypeOK
<1>10. ASSUME NEW n \in Nodes, NEW d \in 1 .. Len(request),
             handleCommitAsk(n, d) PROVE TypeOK'
  <2>1. ConsensusType'
    BY <1>10, <1>0, SMTT(20) DEF handleCommitAsk, countCommit, endRound, ConsensusType
  <2>2. MapType'
    BY <1>10, <1>0 DEF handleCommitAsk, countCommit, endRound, MapType
  <2>3. LockType'
    BY <1>10, <1>0 DEF handleCommitAsk, endRound, LockType
  <2>4. OldType'
    <3>1. UNCHANGED <<applying, sendOldNet>>
      BY <1>10 DEF handleCommitAsk, countCommit
    <3> DEFINE ask == [to |-> view[n], from |-> n,
                       start |-> sequenceID[n] + 1, end |-> request[d].seq]
    <3>2. request[d].seq \in Nat /\ sequenceID[n] \in Nat /\ view[n] \in Nodes
      BY <1>0 DEF ConsensusType, Request
    <3>3. ask \in OldRange
      BY <3>2 DEF OldRange
    <3>4. requestOldNet' = requestOldNet \cup {ask}
      BY <1>10 DEF handleCommitAsk
    <3> QED
      BY <3>1, <3>3, <3>4 DEF OldType
  <2>5. NetType'
    BY <1>10, <1>0 DEF handleCommitAsk, countCommit, NetType
  <2>6. UNCHANGED <<viewVars, propVars, boundVars>>
    BY <1>10 DEF handleCommitAsk, countCommit
  <2> QED
    BY <2>1, <2>2, <2>3, <2>4, <2>5, <2>6, UnchangedType DEF TypeOK
<1>11. ASSUME NEW n \in Nodes, NEW m \in requestOldNet,
             handleRequestOldSeq(n, m) PROVE TypeOK'
  <2>1. OldType'
    <3>1. UNCHANGED applying
      BY <1>11 DEF handleRequestOldSeq
    <3>2. m.start \in Nat /\ m.end \in Nat /\ m.from \in Nodes
      BY DEF OldType, OldRange
    <3>3. requestOldNet' \subseteq requestOldNet
      BY <1>11 DEF handleRequestOldSeq
    <3>4. sendOldNet' \subseteq SendOld
      <4>1. CASE UNCHANGED sendOldNet
        BY <4>1 DEF OldType
      <4>2. ASSUME NEW k \in 0 .. m.end + 1 - m.start,
                   NEW oldR \in [1 .. k -> requestPool[n]],
                   sendOldNet' = sendOldNet \cup
                     {[to |-> m.from, start |-> m.start, end |-> m.end,
                       oldRequest |-> oldR]}
            PROVE  sendOldNet' \subseteq SendOld
        <5>1. k \in Nat
          BY <3>2
        <5>2. oldR \in Seq(Digests)
          BY <5>1 DEF MapType
        <5> QED
          BY <3>2, <4>2, <5>2 DEF SendOld, OldType
      <4> QED
        BY <1>11, <4>1, <4>2 DEF handleRequestOldSeq
    <3> QED
      BY <3>1, <3>3, <3>4 DEF OldType
  <2>2. UNCHANGED <<consensusVars, mapVars, lockVars, viewVars, propVars, netVars, boundVars>>
    BY <1>11 DEF handleRequestOldSeq
  <2> QED
    BY <2>1, <2>2, UnchangedType DEF TypeOK
<1>12. ASSUME NEW n \in Nodes, NEW m \in sendOldNet,
             handleSendOldSeq(n, m) PROVE TypeOK'
  <2>1. OldType'
    <3>1. sendOldNet' = sendOldNet \ {m} /\ UNCHANGED requestOldNet
      BY <1>12 DEF handleSendOldSeq
    <3>2. m.start \in Nat /\ m.end \in Nat /\ m.oldRequest \in Seq(Digests)
      BY DEF OldType, SendOld
    <3> DEFINE work ==
          [busy |-> TRUE, start |-> m.start, end |-> m.end,
           oldRequest |-> m.oldRequest,
           next |-> IF m.end + 1 - m.start = Len(m.oldRequest)
                    THEN 1 ELSE Len(m.oldRequest) + 1]
    <3>3. work \in Applying
      BY <3>2 DEF Applying
    <3>4. applying' = [applying EXCEPT ![n] = work]
      BY <1>12 DEF handleSendOldSeq
    <3> QED
      BY <3>1, <3>3, <3>4 DEF OldType
  <2>2. UNCHANGED <<consensusVars, mapVars, lockVars, viewVars, propVars, netVars, boundVars>>
    BY <1>12 DEF handleSendOldSeq
  <2> QED
    BY <2>1, <2>2, UnchangedType DEF TypeOK
<1>13. ASSUME NEW n \in Nodes, applyOldRequest(n) PROVE TypeOK'
  <2>0. applying[n] \in Applying
    BY DEF OldType
  <2>1. ConsensusType'
    <3>1. UNCHANGED <<request, view, sequenceID, pbftStage>>
      BY <1>13 DEF applyOldRequest
    <3> DEFINE o == applying[n].oldRequest[applying[n].next]
    <3>2. o \in Digests
      <4>1. /\ applying[n].oldRequest \in Seq(Digests)
            /\ applying[n].next \in Nat \ {0}
        BY <2>0 DEF Applying
      <4>2. applying[n].next <= Len(applying[n].oldRequest)
        BY <1>13 DEF applyOldRequest
      <4> QED
        BY <4>1, <4>2
    <3>3. chain' = [chain EXCEPT ![n] = AddBlock(chain[n], o)]
      BY <1>13 DEF applyOldRequest
    <3>4. chain[n] \in Seq(Digests)
      BY DEF ConsensusType
    <3>5. AddBlock(chain[n], o) \in Seq(Digests)
      BY <3>2, <3>4, AddBlockType
    <3> QED
      BY <3>1, <3>3, <3>5 DEF ConsensusType
  <2>2. OldType'
    <3>1. UNCHANGED <<requestOldNet, sendOldNet>>
      BY <1>13 DEF applyOldRequest
    <3>2. applying' = [applying EXCEPT ![n].next = @ + 1]
      BY <1>13 DEF applyOldRequest
    <3>3. [applying[n] EXCEPT !.next = @ + 1] \in Applying
      <4>1. applying[n].next + 1 \in Nat \ {0}
        BY <2>0 DEF Applying
      <4> QED
        BY <2>0, <4>1 DEF Applying
    <3> QED
      BY <3>1, <3>2, <3>3 DEF OldType
  <2>3. UNCHANGED <<mapVars, lockVars, viewVars, propVars, netVars, boundVars>>
    BY <1>13 DEF applyOldRequest
  <2> QED
    BY <2>1, <2>2, <2>3, UnchangedType DEF TypeOK
<1>14. ASSUME NEW n \in Nodes, endSendOldSeq(n) PROVE TypeOK'
  <2>1. ConsensusType'
    <3>1. UNCHANGED <<request, view, pbftStage, chain>>
      BY <1>14 DEF endSendOldSeq
    <3>2. applying[n].end + 1 \in Nat
      BY DEF OldType, Applying
    <3>3. sequenceID' = [sequenceID EXCEPT ![n] = applying[n].end + 1]
      BY <1>14 DEF endSendOldSeq
    <3> QED
      BY <3>1, <3>2, <3>3 DEF ConsensusType
  <2>2. MapType'
    <3> DEFINE a    == applying[n]
               olds == {a.oldRequest[i] : i \in 1 .. Len(a.oldRequest)}
               kept == {e \in height2Digest[n] :
                          \A o \in olds : request[e].seq # request[o].seq}
    <3>1. UNCHANGED <<cntPrepareConfirm, cntCommitConfirm, isCommitBordcast>>
      BY <1>14 DEF endSendOldSeq
    <3>2. olds \subseteq Digests
      BY DEF OldType, Applying
    <3>3. requestPool' = [requestPool EXCEPT ![n] = requestPool[n] \cup olds]
      BY <1>14 DEF endSendOldSeq
    <3>4. height2Digest' = [height2Digest EXCEPT ![n] = kept \cup olds]
      BY <1>14 DEF endSendOldSeq
    <3>5. isReply' = [isReply EXCEPT ![n] = isReply[n] \cup olds]
      BY <1>14 DEF endSendOldSeq
    <3>6. kept \subseteq height2Digest[n]
      OBVIOUS
    <3> HIDE DEF olds, kept
    <3> QED
      BY <3>1, <3>2, <3>3, <3>4, <3>5, <3>6 DEF MapType
  <2>3. LockType'
    BY <1>14 DEF endSendOldSeq, LockType
  <2>4. OldType'
    BY <1>14 DEF endSendOldSeq, Applying, NoOldRequest, OldType
  <2>5. NetType'
    BY <1>14 DEF endSendOldSeq, ToOthers, NetType
  <2>6. UNCHANGED <<viewVars, propVars, boundVars>>
    BY <1>14 DEF endSendOldSeq
  <2> QED
    BY <2>1, <2>2, <2>3, <2>4, <2>5, <2>6, UnchangedType DEF TypeOK
<1>15. ASSUME NEW n \in Nodes, viewChangePropose(n) PROVE TypeOK'
  <2>1. ConsensusType'
    BY <1>15, SMTT(20) DEF viewChangePropose, ConsensusType
  <2>2. ViewType'
    <3>1. NextViewMsg(n) \in ViewMsg
      BY DEF NextViewMsg, ViewMsg, ConsensusType
    <3> QED
      BY <1>15, <3>1 DEF viewChangePropose, ViewType
  <2>3. BoundType'
    BY <1>15 DEF viewChangePropose, BoundType
  <2>4. UNCHANGED <<mapVars, lockVars, propVars, oldVars, netVars>>
    BY <1>15 DEF viewChangePropose
  <2> QED
    BY <2>1, <2>2, <2>3, <2>4, UnchangedType DEF TypeOK
<1>16. ASSUME NEW n \in Nodes, NEW m \in viewChangeNet[n],
             handleViewChangeMsg(n, m) PROVE TypeOK'
  <2>1. ViewType'
    <3>1. UNCHANGED newViewMap
      BY <1>16 DEF handleViewChangeMsg
    <3>2. NextViewMsg(n) \in ViewMsg
      BY DEF NextViewMsg, ViewMsg, ConsensusType
    <3>3. viewChangeNet' = [viewChangeNet EXCEPT ![n] = @ \ {m}]
      BY <1>16 DEF handleViewChangeMsg
    <3>4. viewChangeMap' = [viewChangeMap EXCEPT ![n] = @ \cup {m}]
      BY <1>16 DEF handleViewChangeMsg
    <3>5. \/ newViewNet' = [x \in Nodes |-> newViewNet[x] \cup {NextViewMsg(n)}]
          \/ UNCHANGED newViewNet
      BY <1>16 DEF handleViewChangeMsg
    <3> QED
      BY <3>1, <3>2, <3>3, <3>4, <3>5 DEF ViewType
  <2>2. UNCHANGED <<consensusVars, mapVars, lockVars, propVars, oldVars, netVars, boundVars>>
    BY <1>16 DEF handleViewChangeMsg
  <2> QED
    BY <2>1, <2>2, UnchangedType DEF TypeOK
<1>17. ASSUME NEW n \in Nodes, NEW m \in newViewNet[n],
             handleNewViewMsg(n, m) PROVE TypeOK'
  <2>1. ConsensusType'
    <3>1. UNCHANGED <<request, chain>>
      BY <1>17 DEF handleNewViewMsg
    <3>2. m.nextView \in Nodes /\ m.seqID \in Nat
      BY DEF ViewType, ViewMsg
    <3>3. \/ /\ view' = [view EXCEPT ![n] = m.nextView]
             /\ sequenceID' = [sequenceID EXCEPT ![n] = m.seqID]
             /\ pbftStage' = [pbftStage EXCEPT ![n] = 1]
          \/ UNCHANGED <<view, sequenceID, pbftStage>>
      BY <1>17 DEF handleNewViewMsg
    <3>4. CASE UNCHANGED <<view, sequenceID, pbftStage>>
      BY <3>1, <3>4 DEF ConsensusType
    <3>5. CASE /\ view' = [view EXCEPT ![n] = m.nextView]
               /\ sequenceID' = [sequenceID EXCEPT ![n] = m.seqID]
               /\ pbftStage' = [pbftStage EXCEPT ![n] = 1]
      BY <3>1, <3>2, <3>5 DEF ConsensusType
    <3> QED
      BY <3>3, <3>4, <3>5
  <2>2. ViewType'
    BY <1>17 DEF handleNewViewMsg, ViewType
  <2>3. UNCHANGED <<mapVars, lockVars, propVars, oldVars, netVars, boundVars>>
    BY <1>17 DEF handleNewViewMsg
  <2> QED
    BY <2>1, <2>2, <2>3, UnchangedType DEF TypeOK
<1>18. ASSUME NEW n \in Nodes, resetStage(n) PROVE TypeOK'
  <2>1. ConsensusType'
    BY <1>18 DEF resetStage, ConsensusType
  <2>2. BoundType'
    BY <1>18 DEF resetStage, BoundType
  <2>3. UNCHANGED <<mapVars, lockVars, viewVars, propVars, oldVars, netVars>>
    BY <1>18 DEF resetStage
  <2> QED
    BY <2>1, <2>2, <2>3, UnchangedType DEF TypeOK
<1>19. CASE UNCHANGED vars
  BY <1>19, UnchangedType DEF TypeOK, vars
<1> QED
  BY NextCases, <1>1, <1>2, <1>3, <1>4, <1>5, <1>6, <1>7, <1>8, <1>9, <1>10,
     <1>11, <1>12, <1>13, <1>14, <1>15, <1>16, <1>17, <1>18, <1>19

\* Every field of every node, and every message, keeps its type, whatever the
\* number of nodes, requests, timeouts, resets and restarts.
THEOREM TypeCorrect == Spec => []TypeOK
  BY InitType, NextType, PTL DEF Spec

-----------------------------------------------------------------------------
(***************************************************************************)
(* The view change: a node leaves the first view only after a quorum has   *)
(* timed out, and when no node times out twice the shard does not go past  *)
(* the second view.                                                        *)
(***************************************************************************)

\* The steps that have no part in a view change.
LEMMA OtherSteps ==
  ASSUME [Next]_vars
  PROVE  \/ RestartShard
         \/ \E n \in Nodes :
              \/ viewChangePropose(n)
              \/ \E m \in viewChangeNet[n] : handleViewChangeMsg(n, m)
              \/ \E m \in newViewNet[n] : handleNewViewMsg(n, m)
         \/ UNCHANGED <<viewVars, view, timeouts>>
PROOF
<1>1. ASSUME NEW n \in Nodes,
             BeginRound(n) \/ Propose(n) \/ SetPrepareStage(n) \/ resetStage(n)
      PROVE  UNCHANGED <<viewVars, view, timeouts>>
  BY <1>1 DEF BeginRound, Propose, SetPrepareStage, resetStage, consensusVars, boundVars
<1>2. ASSUME NEW n \in Nodes, NEW d \in 1 .. Len(request), Handle(n, d)
      PROVE  UNCHANGED <<viewVars, view, timeouts>>
  BY <1>2 DEF Handle, handlePrePrepare, handlePrepare, refusePrepare,
              handleCommitCount, handleCommitBlock, handleCommitAsk, countCommit,
              consensusVars, boundVars
<1>3. ASSUME NEW n \in Nodes, CatchUp(n)
      PROVE  UNCHANGED <<viewVars, view, timeouts>>
  BY <1>3 DEF CatchUp, handleRequestOldSeq, handleSendOldSeq, applyOldRequest,
              endSendOldSeq, consensusVars, boundVars
<1>4. UNCHANGED vars => UNCHANGED <<viewVars, view, timeouts>>
  BY DEF vars, consensusVars, boundVars
<1> QED
  BY <1>1, <1>2, <1>3, <1>4 DEF Next, ChangeView

LEMMA QuorumType == N \in Nat /\ Quorum \in Int
  BY ConstantsAssumption, FS_CardinalityType DEF N, f, Quorum

\* Messages of different nodes are no more than the nodes they come from.
LEMMA SendersCount ==
  ASSUME NEW M \in SUBSET ViewMsg, NEW S \in SUBSET Nodes,
         \A m \in M : m.fromNode \in S, OncePerNode(M)
  PROVE  /\ IsFiniteSet(M) /\ Cardinality(M) \in Nat /\ Cardinality(S) \in Nat
         /\ Cardinality(M) <= Cardinality(S)
PROOF
<1> DEFINE g == [m \in M |-> m.fromNode]
<1>1. IsFiniteSet(S)
  BY ConstantsAssumption, FS_Subset
<1>2. g \in Injection(M, S)
  BY DEF OncePerNode, Injection, IsInjective
<1>3. IsFiniteSet(M) /\ Cardinality(M) <= Cardinality(S)
  BY <1>1, <1>2, FS_Injection
<1> QED
  BY <1>1, <1>3, FS_CardinalityType

\* Two sets of nodes that have none in common.
LEMMA NoTwoQuorums ==
  ASSUME NEW A \in SUBSET Nodes, NEW B \in SUBSET Nodes, A \cap B = {}
  PROVE  Cardinality(A) + Cardinality(B) <= N
PROOF
<1>1. IsFiniteSet(A) /\ IsFiniteSet(B)
  BY ConstantsAssumption, FS_Subset
<1>2. Cardinality(A \cup B) = Cardinality(A) + Cardinality(B) - 0
  BY <1>1, FS_Union, FS_EmptySet
<1>3. Cardinality(A \cup B) <= N
  BY ConstantsAssumption, FS_Subset DEF N
<1> QED
  BY <1>1, <1>2, <1>3, FS_CardinalityType

\* Messages with the same data are told apart by their senders.
LEMMA SameDataOnce ==
  ASSUME NEW M \in SUBSET ViewMsg, NEW m
  PROVE  SameData(M, m) \in SUBSET ViewMsg /\ OncePerNode(SameData(M, m))
PROOF
<1>1. SameData(M, m) \in SUBSET ViewMsg
  BY DEF SameData
<1>2. ASSUME NEW x \in SameData(M, m), NEW y \in SameData(M, m),
             x.fromNode = y.fromNode
      PROVE  x = y
  BY <1>2 DEF SameData, ViewMsg
<1> QED
  BY <1>1, <1>2 DEF OncePerNode

-----------------------------------------------------------------------------
(***************************************************************************)
(* ViewBacked.                                                             *)
(***************************************************************************)

LEMMA TimedOutGrows ==
  ASSUME TypeOK, TypeOK', \A n \in Nodes : timeouts'[n] >= timeouts[n]
  PROVE  /\ TimedOut \subseteq TimedOut'
         /\ Cardinality(TimedOut) >= Quorum => Cardinality(TimedOut') >= Quorum
PROOF
<1>1. TimedOut \subseteq TimedOut'
  BY DEF TimedOut, TypeOK, BoundType
<1>2. IsFiniteSet(TimedOut')
  BY ConstantsAssumption, FS_Subset DEF TimedOut
<1>3. Cardinality(TimedOut) <= Cardinality(TimedOut')
      /\ IsFiniteSet(TimedOut)
  BY <1>1, <1>2, FS_Subset
<1>4. Cardinality(TimedOut) \in Nat /\ Cardinality(TimedOut') \in Nat
  BY <1>2, <1>3, FS_CardinalityType
<1> QED
  BY <1>1, <1>3, <1>4, QuorumType

\* Every step keeps it.
LEMMA BackedStep ==
  ASSUME TypeOK, TypeOK', MessagesBacked, ViewBacked, [Next]_vars
  PROVE  MessagesBacked' /\ ViewBacked'
PROOF
<1>0. /\ TimedOut = {m \in Nodes : timeouts[m] > 0}
      /\ TimedOut' = {m \in Nodes : timeouts'[m] > 0}
  BY DEF TimedOut
<1>t. /\ view \in [Nodes -> Nodes] /\ timeouts \in [Nodes -> Nat]
      /\ ViewType
  BY DEF TypeOK, ConsensusType, BoundType
<1>1. CASE UNCHANGED <<viewVars, view, timeouts>>
  BY <1>1 DEF MessagesBacked, ViewBacked, ViewChangeMsgs, NewViewMsgs, TimedOut,
              viewVars
<1>2. CASE RestartShard
  <2>1. ViewChangeMsgs' = {} /\ NewViewMsgs' = {}
    BY <1>2 DEF RestartShard, NoMessages, ViewChangeMsgs, NewViewMsgs
  <2>2. \A n \in Nodes : view'[n] = Node0
    BY <1>2 DEF RestartShard
  <2> QED
    BY <2>1, <2>2 DEF MessagesBacked, ViewBacked
<1>3. ASSUME NEW n \in Nodes, viewChangePropose(n)
      PROVE  MessagesBacked' /\ ViewBacked'
  <2>1. /\ timeouts' = [timeouts EXCEPT ![n] = @ + 1]
        /\ viewChangeNet' = [m \in Nodes |-> viewChangeNet[m] \cup {NextViewMsg(n)}]
        /\ UNCHANGED <<view, viewChangeMap, newViewMap, newViewNet>>
    BY <1>3 DEF viewChangePropose
  <2>2. \A m \in Nodes : timeouts'[m] >= timeouts[m]
    BY <1>t, <2>1
  <2>3. n \in TimedOut'
    BY <1>t, <2>1 DEF TimedOut
  <2>4. NewViewMsgs' = NewViewMsgs
    BY <2>1 DEF NewViewMsgs
  <2>5. \A m \in ViewChangeMsgs' : m \in ViewChangeMsgs \/ m = NextViewMsg(n)
    BY <2>1 DEF ViewChangeMsgs
  <2>6. NextViewMsg(n).fromNode = n
    BY DEF NextViewMsg
  <2>7. MessagesBacked'
    BY <2>2, <2>3, <2>4, <2>5, <2>6, TimedOutGrows DEF MessagesBacked
  <2>8. ViewBacked'
    BY <1>0, <2>1, <2>2, TimedOutGrows DEF ViewBacked
  <2> QED
    BY <2>7, <2>8
<1>4. ASSUME NEW n \in Nodes, NEW m \in viewChangeNet[n], handleViewChangeMsg(n, m)
      PROVE  MessagesBacked' /\ ViewBacked'
  <2> DEFINE vcs == viewChangeMap[n] \cup {m}
  <2>1. /\ viewChangeNet' = [viewChangeNet EXCEPT ![n] = @ \ {m}]
        /\ viewChangeMap' = [viewChangeMap EXCEPT ![n] = vcs]
        /\ UNCHANGED <<view, newViewMap, timeouts>>
        /\ ~EnoughFor(vcs, m) => UNCHANGED newViewNet
    BY <1>4 DEF handleViewChangeMsg, consensusVars, boundVars
  <2>2. vcs \subseteq ViewChangeMsgs /\ vcs \in SUBSET ViewMsg
    BY <1>t DEF ViewChangeMsgs, ViewType
  <2> HIDE DEF vcs
  <2>3. ViewChangeMsgs' \subseteq ViewChangeMsgs
    BY <1>t, <2>1, <2>2 DEF ViewChangeMsgs, ViewType
  <2>4. TimedOut' = TimedOut
    BY <2>1 DEF TimedOut
  <2>5. ViewBacked'
    BY <2>1 DEF ViewBacked
  <2>6. CASE ~EnoughFor(vcs, m)
    <3>1. NewViewMsgs' = NewViewMsgs
      BY <2>1, <2>6 DEF NewViewMsgs
    <3> QED
      BY <2>3, <2>4, <2>5, <3>1 DEF MessagesBacked
  <2>7. CASE EnoughFor(vcs, m)
    <3>1. \A x \in SameData(vcs, m) : x.fromNode \in TimedOut
      BY <2>2 DEF SameData, MessagesBacked
    <3>2. Cardinality(SameData(vcs, m)) <= Cardinality(TimedOut)
      BY <2>2, <3>1, SendersCount, SameDataOnce DEF TimedOut
    <3>3. Cardinality(TimedOut) >= Quorum
      BY <2>7, <3>2, QuorumType DEF EnoughFor
    <3> QED
      BY <2>3, <2>4, <2>5, <3>3 DEF MessagesBacked
  <2> QED
    BY <2>6, <2>7
<1>5. ASSUME NEW n \in Nodes, NEW m \in newViewNet[n], handleNewViewMsg(n, m)
      PROVE  MessagesBacked' /\ ViewBacked'
  <2>1. /\ newViewNet' = [newViewNet EXCEPT ![n] = @ \ {m}]
        /\ newViewMap' = [newViewMap EXCEPT ![n] = @ \cup {m}]
        /\ UNCHANGED <<viewChangeNet, viewChangeMap, timeouts>>
    BY <1>5 DEF handleNewViewMsg, boundVars
  <2>2. ViewChangeMsgs' = ViewChangeMsgs /\ TimedOut' = TimedOut
    BY <2>1 DEF ViewChangeMsgs, TimedOut
  <2>3. Cardinality(TimedOut) >= Quorum
    BY DEF MessagesBacked, NewViewMsgs
  <2> QED
    BY <1>0, <2>2, <2>3 DEF MessagesBacked, ViewBacked
<1> QED
  BY <1>1, <1>2, <1>3, <1>4, <1>5, OtherSteps

\* A node leaves the first view only after a quorum of nodes has timed out:
\* viewChangePropose is the only source of ViewChange messages, and neither
\* handleViewChangeMsg nor handleNewViewMsg acts on less than 2f+1 of them.
THEOREM ViewsBacked == Spec => []ViewBacked
PROOF
<1>1. Init => MessagesBacked /\ ViewBacked
  BY DEF Init, NoMessages, MessagesBacked, ViewBacked, ViewChangeMsgs, NewViewMsgs
<1>2. TypeOK /\ TypeOK' /\ (MessagesBacked /\ ViewBacked) /\ [Next]_vars
        => (MessagesBacked /\ ViewBacked)'
  BY BackedStep
<1> QED
  BY <1>1, <1>2, TypeCorrect, PTL DEF Spec

-----------------------------------------------------------------------------
(***************************************************************************)
(* OneViewChange, for a shard in which no node times out twice and any two *)
(* quorums have a node in common (4, 5 or at least 7 nodes).               *)
(***************************************************************************)

OneChangeInv == NewViewOnce /\ SecondViewFirst

\* Two groups of messages with different data, of a quorum each, do not fit
\* into messages that come one from each node.
LEMMA OneQuorum ==
  ASSUME NEW M \in SUBSET ViewMsg, OncePerNode(M), 2 * Quorum > N,
         NEW A \in SUBSET M, NEW B \in SUBSET M,
         Cardinality(A) >= Quorum, Cardinality(B) >= Quorum
  PROVE  A \cap B # {}
PROOF
<1> DEFINE SA == {n \in Nodes : \E m \in A : m.fromNode = n}
           SB == {n \in Nodes : \E m \in B : m.fromNode = n}
<1>1. /\ \A m \in A : m.fromNode \in SA
      /\ \A m \in B : m.fromNode \in SB
      /\ OncePerNode(A) /\ OncePerNode(B)
  BY DEF OncePerNode, ViewMsg
<1>2. Cardinality(A) <= Cardinality(SA) /\ Cardinality(A) \in Nat
      /\ Cardinality(SA) \in Nat
  BY <1>1, SendersCount
<1>3. Cardinality(B) <= Cardinality(SB) /\ Cardinality(B) \in Nat
      /\ Cardinality(SB) \in Nat
  BY <1>1, SendersCount
<1>4. SA \cap SB # {}
  BY <1>2, <1>3, NoTwoQuorums, QuorumType
<1> QED
  BY <1>4 DEF OncePerNode

\* A message of a view change is one of the messages of the shard.
LEMMA MessagesOfAll ==
  ASSUME TypeOK
  PROVE  /\ ViewChangeMsgs \in SUBSET ViewMsg /\ NewViewMsgs \in SUBSET ViewMsg
         /\ \A n \in Nodes :
              /\ viewChangeNet[n] \subseteq ViewChangeMsgs
              /\ viewChangeMap[n] \subseteq ViewChangeMsgs
              /\ newViewNet[n] \subseteq NewViewMsgs
              /\ newViewMap[n] \subseteq NewViewMsgs
  BY DEF TypeOK, ViewType, ViewChangeMsgs, NewViewMsgs

\* The quorum for the second view stays one while messages are only added.
LEMMA SendersGrow ==
  ASSUME NewViewMsgs \subseteq NewViewMsgs', Cardinality(SecondViewSenders) >= Quorum
  PROVE  Cardinality(SecondViewSenders') >= Quorum
PROOF
<1>1. SecondViewSenders \subseteq SecondViewSenders'
  BY DEF SecondViewSenders
<1>2. IsFiniteSet(SecondViewSenders')
  BY ConstantsAssumption, FS_Subset DEF SecondViewSenders
<1>3. IsFiniteSet(SecondViewSenders)
      /\ Cardinality(SecondViewSenders) <= Cardinality(SecondViewSenders')
  BY <1>1, <1>2, FS_Subset
<1> QED
  BY <1>2, <1>3, QuorumType, FS_CardinalityType

\* viewChangePropose: the node has not sent a ViewChange before.
LEMMA ProposeOneChange ==
  ASSUME MaxTimeouts <= 1, TypeOK, TypeOK', MessagesBacked, OneChangeInv,
         NEW n \in Nodes, viewChangePropose(n)
  PROVE  OneChangeInv'
PROOF
<1>t. view \in [Nodes -> Nodes] /\ timeouts \in [Nodes -> Nat] /\ ViewType
  BY DEF TypeOK, ConsensusType, BoundType
<1>1. /\ viewChangeNet' = [m \in Nodes |-> viewChangeNet[m] \cup {NextViewMsg(n)}]
      /\ UNCHANGED <<view, viewChangeMap, newViewMap, newViewNet>>
  BY DEF viewChangePropose
<1>2. timeouts[n] = 0
  BY <1>t, ConstantsAssumption DEF viewChangePropose
<1>3. \A m \in ViewChangeMsgs : m.fromNode # n
  BY <1>2 DEF MessagesBacked, TimedOut
<1>4. ViewChangeMsgs' = ViewChangeMsgs \cup {NextViewMsg(n)}
  BY <1>1 DEF ViewChangeMsgs
<1>5. NewViewMsgs' = NewViewMsgs
  BY <1>1 DEF NewViewMsgs
<1>6. NextViewMsg(n).fromNode = n
  BY DEF NextViewMsg
<1>7. OncePerNode(ViewChangeMsgs')
  BY <1>3, <1>4, <1>6 DEF OneChangeInv, NewViewOnce, OncePerNode
<1>8. \A x \in Nodes : viewChangeNet'[x] \cap viewChangeMap'[x] = {}
  <2> SUFFICES ASSUME NEW x \in Nodes
               PROVE  viewChangeNet'[x] \cap viewChangeMap'[x] = {}
    OBVIOUS
  <2>1. NextViewMsg(n) \notin viewChangeMap[x]
    BY <1>3, <1>6, MessagesOfAll
  <2> QED
    BY <1>1, <2>1 DEF OneChangeInv, NewViewOnce
<1>9. NewViewOnce'
  BY <1>1, <1>5, <1>7, <1>8 DEF OneChangeInv, NewViewOnce, OncePerNode
<1>10. SecondViewFirst'
  BY <1>1, <1>5 DEF OneChangeInv, SecondViewFirst, SecondViewSenders
<1> QED
  BY <1>9, <1>10 DEF OneChangeInv

\* handleViewChangeMsg: a node gets to exactly 2f+1 messages with the same
\* data once, so it sends one NewView.
LEMMA ViewChangeOneChange ==
  ASSUME 2 * Quorum > N, TypeOK, TypeOK', OneChangeInv, NEW n \in Nodes,
         NEW m \in viewChangeNet[n], handleViewChangeMsg(n, m)
  PROVE  OneChangeInv'
PROOF
<1> DEFINE vcm == viewChangeMap[n]
           vcs == vcm \cup {m}
<1>t. /\ view \in [Nodes -> Nodes] /\ ViewType
      /\ vcs \in SUBSET ViewMsg /\ vcm \in SUBSET ViewMsg
  BY DEF TypeOK, ConsensusType, ViewType
<1>1. /\ viewChangeNet' = [viewChangeNet EXCEPT ![n] = @ \ {m}]
      /\ viewChangeMap' = [viewChangeMap EXCEPT ![n] = vcs]
      /\ UNCHANGED <<view, newViewMap>>
      /\ IF EnoughFor(vcs, m)
         THEN newViewNet' = [x \in Nodes |-> newViewNet[x] \cup {NextViewMsg(n)}]
         ELSE UNCHANGED newViewNet
  BY DEF handleViewChangeMsg, consensusVars
<1>2. m \notin vcm /\ vcs \subseteq ViewChangeMsgs /\ OncePerNode(ViewChangeMsgs)
  BY MessagesOfAll DEF OneChangeInv, NewViewOnce
<1>3. /\ viewChangeMap'[n] = vcs
      /\ \A x \in Nodes \ {n} : viewChangeMap'[x] = viewChangeMap[x]
      /\ viewChangeNet'[n] = viewChangeNet[n] \ {m}
      /\ \A x \in Nodes \ {n} : viewChangeNet'[x] = viewChangeNet[x]
  BY <1>t, <1>1 DEF ViewType
<1> HIDE DEF vcs
<1>4. ViewChangeMsgs' \subseteq ViewChangeMsgs
  <2>1. \A x \in Nodes : viewChangeNet'[x] \cup viewChangeMap'[x] \subseteq ViewChangeMsgs
    <3> SUFFICES ASSUME NEW x \in Nodes
                 PROVE  viewChangeNet'[x] \cup viewChangeMap'[x] \subseteq ViewChangeMsgs
      OBVIOUS
    <3>1. CASE x = n
      BY <1>2, <1>3, <3>1, MessagesOfAll
    <3>2. CASE x # n
      BY <1>3, <3>2, MessagesOfAll
    <3> QED
      BY <3>1, <3>2
  <2> QED
    BY <2>1 DEF ViewChangeMsgs
<1>5. OncePerNode(ViewChangeMsgs')
  BY <1>2, <1>4 DEF OncePerNode
<1>6. \A x \in Nodes : viewChangeNet'[x] \cap viewChangeMap'[x] = {}
  <2> SUFFICES ASSUME NEW x \in Nodes
               PROVE  viewChangeNet'[x] \cap viewChangeMap'[x] = {}
    OBVIOUS
  <2>1. viewChangeNet[x] \cap viewChangeMap[x] = {}
    BY DEF OneChangeInv, NewViewOnce
  <2>2. CASE x = n
    BY <1>3, <2>1, <2>2 DEF vcs
  <2>3. CASE x # n
    BY <1>3, <2>1, <2>3
  <2> QED
    BY <2>2, <2>3
<1>7. ASSUME NEW x \in Nodes, NEW d \in viewChangeMap[x],
             Cardinality(SameData(viewChangeMap[x], d)) >= Quorum
      PROVE  d \in viewChangeMap'[x]
             /\ Cardinality(SameData(viewChangeMap'[x], d)) >= Quorum
  <2>1. CASE x # n
    BY <1>3, <1>7, <2>1
  <2>2. CASE x = n
    <3>1. IsFiniteSet(SameData(vcs, d))
      BY <1>t, SameDataOnce, SendersCount DEF ViewMsg
    <3>2. SameData(vcm, d) \in SUBSET SameData(vcs, d)
      BY DEF SameData, vcs
    <3>3. Cardinality(SameData(vcm, d)) <= Cardinality(SameData(vcs, d))
          /\ IsFiniteSet(SameData(vcm, d))
      BY <3>1, <3>2, FS_Subset
    <3>4. Cardinality(SameData(vcm, d)) \in Nat /\ Cardinality(SameData(vcs, d)) \in Nat
      BY <3>1, <3>3, FS_CardinalityType
    <3>5. Cardinality(SameData(vcs, d)) >= Quorum
      BY <1>7, <2>2, <3>3, <3>4, QuorumType
    <3>6. d \in vcs
      BY <2>2 DEF vcs
    <3> QED
      BY <1>3, <2>2, <3>5, <3>6
  <2> QED
    BY <2>1, <2>2
<1>8. CASE ~EnoughFor(vcs, m)
  <2>1. NewViewMsgs' = NewViewMsgs
    BY <1>1, <1>8 DEF NewViewMsgs
  <2>2. \A w \in NewViewMsgs' : \E d \in viewChangeMap'[w.fromNode] :
          Cardinality(SameData(viewChangeMap'[w.fromNode], d)) >= Quorum
    <3> SUFFICES ASSUME NEW w \in NewViewMsgs
                 PROVE  \E d \in viewChangeMap'[w.fromNode] :
                          Cardinality(SameData(viewChangeMap'[w.fromNode], d)) >= Quorum
      BY <2>1
    <3>1. w.fromNode \in Nodes
      BY MessagesOfAll DEF ViewMsg
    <3> QED
      BY <1>7, <3>1 DEF OneChangeInv, NewViewOnce
  <2>3. NewViewOnce'
    BY <1>5, <1>6, <2>1, <2>2 DEF OneChangeInv, NewViewOnce, OncePerNode, SameData
  <2>4. SecondViewFirst'
    BY <1>1, <2>1 DEF OneChangeInv, SecondViewFirst, SecondViewSenders
  <2> QED
    BY <2>3, <2>4 DEF OneChangeInv
<1>9. CASE EnoughFor(vcs, m)
  <2>1. NewViewMsgs' = NewViewMsgs \cup {NextViewMsg(n)}
    BY <1>1, <1>9 DEF NewViewMsgs
  <2>2. m \in vcs /\ Cardinality(SameData(vcs, m)) = Quorum
    BY <1>9 DEF EnoughFor, vcs
  <2>3. ASSUME NEW w \in NewViewMsgs, w.fromNode = n PROVE FALSE
    <3>1. PICK d \in vcm : Cardinality(SameData(vcm, d)) >= Quorum
      BY <2>3 DEF OneChangeInv, NewViewOnce
    <3>2. SameData(vcm, d) \cap SameData(vcs, m) # {}
      <4>1. SameData(vcm, d) \in SUBSET ViewChangeMsgs
            /\ SameData(vcs, m) \in SUBSET ViewChangeMsgs
        BY <1>2 DEF SameData, vcs
      <4> QED
        BY <1>2, <2>2, <3>1, <4>1, OneQuorum, MessagesOfAll, QuorumType
    <3>3. SameData(vcs, m) = SameData(vcm, d) \cup {m} /\ m \notin SameData(vcm, d)
      BY <1>2, <3>2 DEF SameData, vcs
    <3>4. IsFiniteSet(SameData(vcm, d))
      BY <1>t, SameDataOnce, SendersCount DEF ViewMsg
    <3>5. Cardinality(SameData(vcs, m)) = Cardinality(SameData(vcm, d)) + 1
      BY <3>3, <3>4, FS_AddElement
    <3> QED
      BY <2>2, <3>1, <3>4, <3>5, FS_CardinalityType, QuorumType
  <2>4. NextViewMsg(n).fromNode = n /\ NextViewMsg(n).nextView = Succ[view[n]]
    BY DEF NextViewMsg
  <2>5. OncePerNode(NewViewMsgs')
    BY <2>1, <2>3, <2>4 DEF OneChangeInv, NewViewOnce, OncePerNode
  <2>6. ASSUME NEW w \in NewViewMsgs'
        PROVE  \E d \in viewChangeMap'[w.fromNode] :
                 Cardinality(SameData(viewChangeMap'[w.fromNode], d)) >= Quorum
    <3>1. CASE w \in NewViewMsgs
      <4>1. w.fromNode \in Nodes
        BY <3>1, MessagesOfAll DEF ViewMsg
      <4> QED
        BY <1>7, <3>1, <4>1 DEF OneChangeInv, NewViewOnce
    <3>2. CASE w = NextViewMsg(n)
      BY <1>3, <2>2, <2>4, <3>2, QuorumType
    <3> QED
      BY <2>1, <2>6, <3>1, <3>2
  <2>7. NewViewOnce'
    BY <1>5, <1>6, <2>5, <2>6 DEF NewViewOnce, OncePerNode, SameData
  <2>8. SecondViewFirst'
    <3> SUFFICES ASSUME ~(Cardinality(SecondViewSenders') >= Quorum)
                 PROVE  /\ \A x \in Nodes : view'[x] = Node0
                        /\ \A w \in NewViewMsgs' : w.nextView = Succ[Node0]
      <4>1. IsFiniteSet(SecondViewSenders')
        BY ConstantsAssumption, FS_Subset DEF SecondViewSenders
      <4> QED
        BY <4>1, FS_CardinalityType, QuorumType DEF SecondViewFirst
    <3>1. ~(Cardinality(SecondViewSenders) >= Quorum)
      BY <2>1, SendersGrow
    <3>2. IsFiniteSet(SecondViewSenders)
      BY ConstantsAssumption, FS_Subset DEF SecondViewSenders
    <3>3. Cardinality(SecondViewSenders) < Quorum
      BY <3>1, <3>2, FS_CardinalityType, QuorumType
    <3> QED
      BY <1>1, <2>1, <2>4, <3>3 DEF OneChangeInv, SecondViewFirst
  <2> QED
    BY <2>7, <2>8 DEF OneChangeInv
<1> QED
  BY <1>8, <1>9

\* handleNewViewMsg: a quorum for another view than the second one would have
\* to share a node with the quorum for the second.
LEMMA NewViewOneChange ==
  ASSUME 2 * Quorum > N, TypeOK, TypeOK', OneChangeInv, OneViewChange,
         NEW n \in Nodes, NEW m \in newViewNet[n], handleNewViewMsg(n, m)
  PROVE  OneChangeInv' /\ OneViewChange'
PROOF
<1> DEFINE nvs == newViewMap[n] \cup {m}
<1>t. view \in [Nodes -> Nodes] /\ ViewType /\ nvs \in SUBSET ViewMsg
  BY DEF TypeOK, ConsensusType, ViewType
<1>1. /\ newViewNet' = [newViewNet EXCEPT ![n] = @ \ {m}]
      /\ newViewMap' = [newViewMap EXCEPT ![n] = nvs]
      /\ UNCHANGED <<viewChangeNet, viewChangeMap>>
      /\ IF EnoughFor(nvs, m)
         THEN view' = [view EXCEPT ![n] = m.nextView]
         ELSE UNCHANGED view
  BY DEF handleNewViewMsg
<1>2. nvs \in SUBSET NewViewMsgs /\ OncePerNode(NewViewMsgs) /\ m \in nvs
  BY MessagesOfAll DEF OneChangeInv, NewViewOnce
<1>3. newViewMap'[n] = nvs /\ newViewNet'[n] = newViewNet[n] \ {m}
      /\ \A x \in Nodes \ {n} :
           newViewMap'[x] = newViewMap[x] /\ newViewNet'[x] = newViewNet[x]
  BY <1>t, <1>1 DEF ViewType
<1>4. ViewChangeMsgs' = ViewChangeMsgs /\ NewViewMsgs' = NewViewMsgs
  <2>1. ViewChangeMsgs' = ViewChangeMsgs
    BY <1>1 DEF ViewChangeMsgs
  <2>2. \A x \in Nodes : newViewNet'[x] \cup newViewMap'[x] = newViewNet[x] \cup newViewMap[x]
    BY <1>3
  <2> QED
    BY <2>1, <2>2 DEF NewViewMsgs
<1>5. NewViewOnce'
  BY <1>1, <1>4 DEF OneChangeInv, NewViewOnce, OncePerNode, SameData
<1>6. SecondViewSenders' = SecondViewSenders
  BY <1>4 DEF SecondViewSenders
<1>7. CASE ~EnoughFor(nvs, m)
  BY <1>1, <1>4, <1>5, <1>6, <1>7 DEF OneChangeInv, SecondViewFirst, OneViewChange
<1>8. CASE EnoughFor(nvs, m)
  <2> DEFINE S == {w \in NewViewMsgs : w.nextView = Succ[Node0]}
             T == SameData(nvs, m)
  <2>1. T \in SUBSET NewViewMsgs /\ Cardinality(T) = Quorum
        /\ \A w \in T : w.nextView = m.nextView
    BY <1>2, <1>8 DEF SameData, EnoughFor
  <2>2. S \in SUBSET NewViewMsgs
    OBVIOUS
  <2>3. Cardinality(SecondViewSenders) <= Cardinality(S)
        /\ IsFiniteSet(SecondViewSenders) /\ IsFiniteSet(S)
    <3>1. SecondViewSenders = {w.fromNode : w \in S}
      BY MessagesOfAll DEF SecondViewSenders, ViewMsg
    <3>2. IsFiniteSet(S)
      <4>1. OncePerNode(S) /\ S \in SUBSET ViewMsg /\ \A w \in S : w.fromNode \in Nodes
        BY <1>2, MessagesOfAll DEF OncePerNode, ViewMsg
      <4> QED
        BY <4>1, SendersCount
    <3> DEFINE g == [w \in S |-> w.fromNode]
    <3>3. g \in Surjection(S, SecondViewSenders)
      BY <3>1 DEF Surjection
    <3> QED
      BY <3>2, <3>3, FS_Surjection
  <2>4. m.nextView = Succ[Node0] /\ Cardinality(SecondViewSenders) >= Quorum
    <3>1. CASE Cardinality(SecondViewSenders) >= Quorum
      <4>1. Cardinality(S) >= Quorum
        BY <2>3, <3>1, FS_CardinalityType, QuorumType
      <4>2. NewViewMsgs \in SUBSET ViewMsg /\ Cardinality(T) >= Quorum
        <5>1. NewViewMsgs \in SUBSET ViewMsg
          BY MessagesOfAll
        <5> QED
          BY <2>1, <5>1, QuorumType
      <4> HIDE DEF S, T
      <4>3. S \cap T # {}
        BY <1>2, <2>1, <2>2, <4>1, <4>2, OneQuorum
      <4>4. PICK w \in S : w \in T
        BY <4>3
      <4>5. w.nextView = Succ[Node0]
        BY DEF S
      <4> QED
        BY <2>1, <3>1, <4>4, <4>5
    <3>2. CASE ~(Cardinality(SecondViewSenders) >= Quorum)
      <4>1. \A w \in NewViewMsgs : w.nextView = Succ[Node0]
        BY <2>3, <3>2, FS_CardinalityType, QuorumType DEF OneChangeInv, SecondViewFirst
      <4>2. \A w \in T : w.fromNode \in SecondViewSenders
        BY <2>1, <4>1, MessagesOfAll DEF SecondViewSenders, ViewMsg
      <4>3. OncePerNode(T) /\ T \in SUBSET ViewMsg
        BY <1>2, <2>1, MessagesOfAll DEF OncePerNode
      <4>4. Cardinality(T) <= Cardinality(SecondViewSenders)
        BY <4>2, <4>3, SendersCount DEF SecondViewSenders
      <4> QED
        BY <2>1, <3>2, <4>4
    <3> QED
      BY <3>1, <3>2
  <2>5. SecondViewFirst'
    BY <1>6, <2>3, <2>4, FS_CardinalityType, QuorumType DEF SecondViewFirst
  <2>6. OneViewChange'
    BY <1>t, <1>1, <1>8, <2>4 DEF OneViewChange
  <2> QED
    BY <1>5, <2>5, <2>6 DEF OneChangeInv
<1> QED
  BY <1>7, <1>8

\* Every step keeps the invariant of a shard in which no node times out twice.
LEMMA OneChangeStep ==
  ASSUME MaxTimeouts <= 1, 2 * Quorum > N, TypeOK, TypeOK', MessagesBacked,
         OneChangeInv, OneViewChange, [Next]_vars
  PROVE  OneChangeInv' /\ OneViewChange'
PROOF
<1>1. CASE UNCHANGED <<viewVars, view, timeouts>>
  <2>1. UNCHANGED <<viewChangeNet, viewChangeMap, newViewNet, newViewMap, view>>
    BY <1>1 DEF viewVars
  <2>2. ViewChangeMsgs' = ViewChangeMsgs /\ NewViewMsgs' = NewViewMsgs
    BY <2>1 DEF ViewChangeMsgs, NewViewMsgs
  <2>3. NewViewOnce'
    BY <2>1, <2>2 DEF OneChangeInv, NewViewOnce, OncePerNode, SameData
  <2>4. SecondViewFirst'
    BY <2>1, <2>2 DEF OneChangeInv, SecondViewFirst, SecondViewSenders
  <2> QED
    BY <2>1, <2>3, <2>4 DEF OneChangeInv, OneViewChange
<1>2. CASE RestartShard
  <2>1. ViewChangeMsgs' = {} /\ NewViewMsgs' = {}
        /\ \A n \in Nodes : view'[n] = Node0 /\ viewChangeNet'[n] = {}
    BY <1>2 DEF RestartShard, NoMessages, ViewChangeMsgs, NewViewMsgs
  <2> QED
    BY <2>1 DEF OneChangeInv, NewViewOnce, SecondViewFirst, OncePerNode, OneViewChange
<1>3. ASSUME NEW n \in Nodes, viewChangePropose(n)
      PROVE  OneChangeInv' /\ OneViewChange'
  BY <1>3, ProposeOneChange DEF viewChangePropose, OneViewChange
<1>4. ASSUME NEW n \in Nodes, NEW m \in viewChangeNet[n], handleViewChangeMsg(n, m)
      PROVE  OneChangeInv' /\ OneViewChange'
  BY <1>4, ViewChangeOneChange DEF handleViewChangeMsg, consensusVars, OneViewChange
<1>5. ASSUME NEW n \in Nodes, NEW m \in newViewNet[n], handleNewViewMsg(n, m)
      PROVE  OneChangeInv' /\ OneViewChange'
  BY <1>5, NewViewOneChange
<1> QED
  BY <1>1, <1>2, <1>3, <1>4, <1>5, OtherSteps

\* When no node times out twice and any two quorums have a node in common, the
\* shard moves to the second leader and no further, however late the ViewChange
\* and NewView messages come and whether or not the shard is restarted.
THEOREM OneChange ==
  ASSUME MaxTimeouts <= 1, 2 * Quorum > N
  PROVE  Spec => []OneViewChange
PROOF
<1> DEFINE Inv == OneChangeInv /\ OneViewChange /\ MessagesBacked /\ ViewBacked
<1>1. Init => Inv
  BY DEF Init, NoMessages, MessagesBacked, ViewBacked, ViewChangeMsgs, NewViewMsgs,
         OneChangeInv, NewViewOnce, SecondViewFirst, OncePerNode, OneViewChange
<1>2. TypeOK /\ TypeOK' /\ Inv /\ [Next]_vars => Inv'
  BY BackedStep, OneChangeStep
<1>3. Inv => OneViewChange
  OBVIOUS
<1> HIDE DEF Inv
<1> QED
  BY <1>1, <1>2, <1>3, TypeCorrect, PTL DEF Spec

=============================================================================
