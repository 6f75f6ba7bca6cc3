----------------------------- MODULE PbftSafety -----------------------------
(***************************************************************************)
(* The safety of a shard that keeps its first leader, for every number of  *)
(* nodes and requests: LeaderInv is inductive when no view change timeout  *)
(* expires, however often the shard is restarted, and StableInv when it is *)
(* not restarted either; and what follows from them.                       *)
(***************************************************************************)
EXTENDS PbftProofs

LEMMA InitLeader == Init => LeaderInv
<1> SUFFICES ASSUME Init PROVE LeaderInv
  OBVIOUS
<1> USE ConstantsAssumption DEF Init
<1>1. FirstView
  BY DEF FirstView, NoMessages, AllZero
<1>2. LiveRequests /\ OnlyLive
  BY DEF LiveRequests, OnlyLive, live, NoMessages, ZeroCounts
<1>3. BackupStage /\ AskStage
  BY DEF BackupStage, AskStage, AllFalse
<1>4. AskRange /\ AskOnce
  BY DEF AskRange, AskOnce, NoOldRequest
<1>5. SequenceAhead
  BY DEF SequenceAhead
<1>6. NoFatalUnlock /\ AskIsServed
  BY DEF NoFatalUnlock, AskIsServed, AllFalse
<1> QED
  BY <1>1, <1>2, <1>3, <1>4, <1>5, <1>6 DEF LeaderInv

\* Each part of the invariant depends on a few variables only.
LEMMA UnchangedLeader ==
  ASSUME LeaderInv
  PROVE  /\ UNCHANGED <<view, viewChangeNet, newViewNet, queued, broadcasted,
                        requestOldNet>> => FirstView'
         /\ UNCHANGED <<request, chain, sequenceLock, live>> => LiveRequests'
         /\ UNCHANGED <<live, requestPool, height2Digest, prePrepareNet,
                        commitNet>> => OnlyLive'
         /\ UNCHANGED <<pbftStage, askForLock, sequenceID, request, chain,
                        sequenceLock, prePrepareNet>> => BackupStage'
         /\ UNCHANGED <<askForLock, pbftStage>> => AskStage'
         /\ UNCHANGED <<requestOldNet, sequenceID, sendOldNet, request, live,
                        applying>> => AskRange'
         /\ UNCHANGED <<requestOldNet, askForLock, sendOldNet, applying>> =>
              AskOnce' /\ AskIsServed'
         /\ UNCHANGED <<sequenceID, chain>> => SequenceAhead'
         /\ UNCHANGED crashed => NoFatalUnlock'
         /\ UNCHANGED requestPool => UNCHANGED live
<1> USE DEF LeaderInv
<1>1. UNCHANGED <<view, viewChangeNet, newViewNet, queued, broadcasted,
                  requestOldNet>> => FirstView'
  BY DEF FirstView
<1>2. UNCHANGED <<request, chain, sequenceLock, live>> => LiveRequests'
  BY DEF LiveRequests, highest, CurrentBlock
<1>3. UNCHANGED <<live, requestPool, height2Digest, prePrepareNet,
                  commitNet>> => OnlyLive'
  BY DEF OnlyLive
<1>4. UNCHANGED <<pbftStage, askForLock, sequenceID, request, chain,
                  sequenceLock, prePrepareNet>> => BackupStage'
  BY DEF BackupStage, highest
<1>5. UNCHANGED <<askForLock, pbftStage>> => AskStage'
  BY DEF AskStage
<1>6. UNCHANGED <<requestOldNet, sequenceID, sendOldNet, request, live,
                  applying>> => AskRange'
  BY DEF AskRange, ahead
<1>7. UNCHANGED <<requestOldNet, askForLock, sendOldNet, applying>> =>
        AskOnce' /\ AskIsServed'
  BY DEF AskOnce, AskIsServed
<1>8. UNCHANGED <<sequenceID, chain>> => SequenceAhead'
  BY DEF SequenceAhead
<1>9. UNCHANGED crashed => NoFatalUnlock'
  BY DEF NoFatalUnlock
<1>10. UNCHANGED requestPool => UNCHANGED live
  BY DEF live
<1> QED
  BY <1>1, <1>2, <1>3, <1>4, <1>5, <1>6, <1>7, <1>8, <1>9, <1>10

\* What a node knows of a live request.
LEMMA LiveFacts ==
  ASSUME TypeOK, LeaderInv
  PROVE  /\ Node0 \in Nodes /\ highest \in Nat /\ Len(request) \in Nat
         /\ \A n \in Nodes : /\ sequenceID[n] \in Nat /\ view[n] = Node0
                             /\ sequenceID[n] > Len(chain[n])
                             /\ chain[n] \in Seq(Digests) /\ Len(chain[n]) \in Nat
         /\ \A d \in live :
              /\ d \in 1 .. Len(request) /\ d \in Digests
              /\ request[d].num = request[d].seq
              /\ request[d].seq \in Nat /\ request[d].seq <= highest
<1>1. Node0 \in Nodes /\ Len(request) \in Nat /\ Len(request) <= MaxProposals
  BY ConstantsAssumption DEF TypeOK, ConsensusType
<1>2. ASSUME NEW n \in Nodes
      PROVE  /\ sequenceID[n] \in Nat /\ view[n] = Node0
             /\ sequenceID[n] > Len(chain[n])
             /\ chain[n] \in Seq(Digests) /\ Len(chain[n]) \in Nat
  BY DEF TypeOK, ConsensusType, LeaderInv, SequenceAhead, FirstView
<1>3. highest \in Nat
  <2>1. Len(chain[Node0]) \in Nat
    BY <1>1, <1>2
  <2>2. CASE sequenceLock[Node0]
    BY <2>1, <2>2 DEF highest
  <2>3. CASE ~sequenceLock[Node0]
    BY <2>1, <2>3 DEF highest
  <2> QED
    BY <2>2, <2>3
<1>4. ASSUME NEW d \in live
      PROVE  /\ d \in 1 .. Len(request) /\ d \in Digests
             /\ request[d].num = request[d].seq
             /\ request[d].seq \in Nat /\ request[d].seq <= highest
  <2>1. /\ d \in 1 .. Len(request)
        /\ request[d].num = request[d].seq /\ request[d].seq <= highest
    BY DEF LeaderInv, LiveRequests
  <2>2. request[d] \in Request
    BY <2>1 DEF TypeOK, ConsensusType
  <2> QED
    BY <1>1, <2>1, <2>2, ConstantsAssumption DEF Request, Digests
<1> QED
  BY <1>1, <1>2, <1>3, <1>4

-----------------------------------------------------------------------------
(***************************************************************************)
(* The proposer: only the first leader proposes, one request at a time.    *)
(***************************************************************************)

LEMMA BeginRoundLeader ==
  ASSUME TypeOK, LeaderInv, NEW n \in Nodes, BeginRound(n)
  PROVE  LeaderInv'
<1>1. UNCHANGED <<consensusVars, mapVars, lockVars, viewVars, broadcasted,
                  oldVars, netVars>>
  BY DEF BeginRound
<1>2. FirstView'
  <2>1. UNCHANGED <<view, viewChangeNet, newViewNet, broadcasted, requestOldNet>>
    BY <1>1 DEF consensusVars, viewVars, oldVars
  <2>2. n = Node0 /\ queued' = [queued EXCEPT ![n] = @ + 1]
    BY DEF BeginRound, LeaderInv, FirstView
  <2>3. \A x \in Nodes : queued'[x] > 0 => x = Node0
    BY <2>2 DEF LeaderInv, FirstView, TypeOK, PropType
  <2> QED
    BY <2>1, <2>3 DEF LeaderInv, FirstView
<1> QED
  BY <1>1, <1>2, UnchangedLeader
  DEF LeaderInv, consensusVars, mapVars, lockVars, oldVars, netVars

LEMMA ProposeLeader ==
  ASSUME TypeOK, LeaderInv, NEW n \in Nodes, Propose(n)
  PROVE  LeaderInv'
<1> USE DEF LeaderInv
<1>1. UNCHANGED <<view, sequenceID, pbftStage, chain, askForLock, crashed,
                  viewVars, oldVars, commitNet>>
  BY DEF Propose
<1>2. n = Node0 /\ ~sequenceLock[n]
  BY DEF Propose, FirstView
<1> DEFINE d == Len(request) + 1
           r == [seq |-> sequenceID[n], num |-> Len(chain[n]) + 1,
                 parent |-> CurrentBlock(chain[n])]
<1>3. Len(request) \in Nat /\ Node0 \in Nodes /\ Len(chain[Node0]) \in Nat
  BY LiveFacts
<1>4. highest = Len(chain[Node0]) /\ sequenceID[n] = highest + 1
  BY <1>2, <1>3 DEF highest, SequenceAhead
<1>6. /\ request' = Append(request, r)
      /\ Len(request') = d
      /\ request'[d] = r
      /\ \A e \in 1 .. Len(request) : request'[e] = request[e]
  BY DEF Propose, TypeOK, ConsensusType
<1>7. FirstView'
  <2>1. UNCHANGED <<view, viewChangeNet, newViewNet, requestOldNet>>
    BY <1>1 DEF viewVars, oldVars
  <2>2. /\ queued' = [queued EXCEPT ![n] = @ - 1]
        /\ broadcasted' = [broadcasted EXCEPT ![n] = @ + 1]
    BY DEF Propose
  <2>3. \A x \in Nodes : queued'[x] > 0 \/ broadcasted'[x] > 0 => x = Node0
    BY <1>2, <2>2 DEF FirstView, TypeOK, PropType
  <2> QED
    BY <2>1, <2>3 DEF FirstView
<1>8. /\ requestPool' = [requestPool EXCEPT ![n] = @ \cup {d}]
      /\ height2Digest' = [height2Digest EXCEPT
           ![n] = {e \in @ : request[e].seq # r.seq} \cup {d}]
      /\ prePrepareNet' = [m \in Nodes |-> prePrepareNet[m] \cup {d}]
      /\ sequenceLock' = [sequenceLock EXCEPT ![n] = TRUE]
  BY DEF Propose
<1>9. live' = live \cup {d}
  BY <1>2, <1>3, <1>8 DEF live, TypeOK, MapType
<1>10. highest' = highest + 1 /\ highest \in Nat
  <2>1. sequenceLock'[Node0]
    BY <1>2, <1>3, <1>8 DEF TypeOK, LockType
  <2> QED
    BY <1>1, <1>3, <1>4, <2>1 DEF highest
<1>11. ASSUME NEW e \in live
       PROVE  /\ e \in 1 .. Len(request) /\ request'[e] = request[e] /\ e # d
              /\ request[e].seq \in Nat /\ request[e].seq <= highest
  BY <1>3, <1>6, LiveFacts
<1>12. request'[d].seq = highest + 1 /\ request'[d].num = highest + 1
       /\ request'[d].parent = CurrentBlock(chain[Node0])
  BY <1>2, <1>4, <1>6
<1>13. LiveRequests'
  <2> SUFFICES ASSUME NEW e \in live'
               PROVE  /\ e \in 1 .. Len(request')
                      /\ request'[e].num = request'[e].seq
                      /\ request'[e].seq <= highest'
                      /\ request'[e].seq > Len(chain[Node0]) =>
                           request'[e].parent = CurrentBlock(chain[Node0])
                      /\ \A x \in live' : request'[x].seq = request'[e].seq => x = e
    BY <1>1 DEF LiveRequests, CurrentBlock
  <2> HIDE DEF d, r
  <2>1. CASE e = d
    <3>1. \A x \in live : request'[x].seq # request'[d].seq
      BY <1>10, <1>11, <1>12
    <3>2. d \in 1 .. Len(request')
      BY <1>3, <1>6 DEF d
    <3> QED
      BY <1>9, <1>10, <1>12, <2>1, <3>1, <3>2
  <2>2. CASE e \in live
    <3>1. request'[d].seq # request'[e].seq
      BY <1>10, <1>11, <1>12, <2>2
    <3>2. \A x \in live : request'[x].seq = request'[e].seq => x = e
      BY <1>11, <2>2 DEF LiveRequests
    <3>3. /\ e \in 1 .. Len(request') /\ request'[e].seq <= highest'
          /\ ~ (request'[e].seq > Len(chain[Node0]))
      BY <1>3, <1>4, <1>6, <1>10, <1>11, <2>2 DEF d
    <3>4. request'[e].num = request'[e].seq
      BY <1>11, <2>2 DEF LiveRequests
    <3> QED
      BY <1>9, <3>1, <3>2, <3>3, <3>4
  <2> QED
    BY <1>9, <2>1, <2>2
<1>14. OnlyLive'
  <2>1. ASSUME NEW x \in Nodes
        PROVE  /\ requestPool'[x] \subseteq requestPool[x] \cup {d}
               /\ height2Digest'[x] \subseteq height2Digest[x] \cup {d}
               /\ prePrepareNet'[x] \subseteq prePrepareNet[x] \cup {d}
    BY <1>8 DEF TypeOK, MapType, NetType
  <2> HIDE DEF d
  <2> QED
    BY <1>1, <1>9, <2>1 DEF OnlyLive
<1>15. BackupStage'
  <2> SUFFICES ASSUME NEW x \in Nodes \ {Node0}, pbftStage[x] > 1 \/ askForLock[x]
               PROVE  /\ sequenceID[x] <= highest'
                      /\ \A e \in prePrepareNet'[x] : request'[e].seq # sequenceID[x]
    BY <1>1 DEF BackupStage
  <2>1. /\ sequenceID[x] <= highest /\ sequenceID[x] \in Nat
        /\ \A e \in prePrepareNet[x] : request[e].seq # sequenceID[x]
    BY LiveFacts DEF BackupStage
  <2>2. prePrepareNet'[x] = prePrepareNet[x] \cup {d} /\ prePrepareNet[x] \subseteq live
    BY <1>8 DEF OnlyLive
  <2> HIDE DEF d
  <2> QED
    BY <1>10, <1>11, <1>12, <2>1, <2>2
<1>16. AskRange'
  <2>1. UNCHANGED <<requestOldNet, sendOldNet, applying, sequenceID>>
    BY <1>1 DEF oldVars
  <2>2. ASSUME NEW x, NEW s, ahead(x, s) PROVE ahead(x, s)'
    <3> HIDE DEF d
    <3> QED
      BY <1>9, <1>11, <2>1, <2>2 DEF ahead
  <2> QED
    BY <2>1, <2>2 DEF AskRange
<1> QED
  BY <1>1, <1>7, <1>13, <1>14, <1>15, <1>16, UnchangedLeader DEF oldVars

LEMMA SetPrepareStageLeader ==
  ASSUME TypeOK, LeaderInv, NEW n \in Nodes, SetPrepareStage(n)
  PROVE  LeaderInv'
<1> USE DEF LeaderInv
<1>1. UNCHANGED <<request, view, sequenceID, chain, mapVars, lockVars, viewVars,
                  queued, oldVars, netVars>>
  BY DEF SetPrepareStage
<1>2. n = Node0 /\ ~askForLock[n]
  BY DEF SetPrepareStage, FirstView, AskStage
<1>3. \A x \in Nodes \ {Node0} : pbftStage'[x] = pbftStage[x]
  BY <1>2 DEF SetPrepareStage, TypeOK, ConsensusType
<1>4. FirstView'
  <2>1. UNCHANGED <<view, viewChangeNet, newViewNet, queued, requestOldNet>>
    BY <1>1 DEF viewVars, oldVars
  <2>2. \A x \in Nodes : broadcasted'[x] > 0 => x = Node0
    BY <1>2 DEF SetPrepareStage, FirstView, TypeOK, PropType
  <2> QED
    BY <2>1, <2>2 DEF FirstView
<1>5. BackupStage'
  BY <1>1, <1>3 DEF BackupStage, highest, lockVars, netVars
<1>6. AskStage'
  BY <1>1, <1>2, <1>3 DEF AskStage, lockVars
<1> QED
  BY <1>1, <1>4, <1>5, <1>6, UnchangedLeader
  DEF mapVars, lockVars, oldVars, netVars

-----------------------------------------------------------------------------
(***************************************************************************)
(* The three phases.                                                       *)
(***************************************************************************)

LEMMA PrePrepareLeader ==
  ASSUME TypeOK, LeaderInv, NEW n \in Nodes, NEW d \in 1 .. Len(request),
         handlePrePrepare(n, d)
  PROVE  LeaderInv'
<1> USE DEF LeaderInv
<1>1. UNCHANGED <<request, view, sequenceID, chain, lockVars, viewVars,
                  propVars, oldVars, commitNet>>
  BY DEF handlePrePrepare
<1>2. /\ d \in prePrepareNet[n]
      /\ prePrepareNet' = [prePrepareNet EXCEPT ![n] = @ \ {d}]
      /\ requestPool' = [requestPool EXCEPT ![n] = @ \cup {d}]
      /\ height2Digest' = [height2Digest EXCEPT ![n] = PutHeight(@, d)]
  BY DEF handlePrePrepare
<1>3. d \in live
  BY <1>2 DEF OnlyLive
<1>4. ASSUME NEW x \in Nodes
      PROVE  /\ requestPool'[x] \subseteq requestPool[x] \cup {d}
             /\ requestPool[x] \subseteq requestPool'[x]
             /\ height2Digest'[x] \subseteq height2Digest[x] \cup {d}
             /\ prePrepareNet'[x] \subseteq prePrepareNet[x]
  BY <1>2 DEF PutHeight, TypeOK, MapType, NetType
<1>5. UNCHANGED live
  BY <1>3, <1>4, ConstantsAssumption DEF live
<1>6. OnlyLive'
  BY <1>1, <1>3, <1>4, <1>5 DEF OnlyLive
<1>7. \/ UNCHANGED pbftStage
      \/ /\ request[d].seq = sequenceID[n]
         /\ pbftStage' = [pbftStage EXCEPT ![n] = @ + 1]
  BY DEF handlePrePrepare
<1>8. BackupStage'
  <2> SUFFICES ASSUME NEW x \in Nodes \ {Node0}, pbftStage'[x] > 1 \/ askForLock[x]
               PROVE  /\ sequenceID[x] <= highest
                      /\ \A e \in prePrepareNet'[x] : request[e].seq # sequenceID[x]
    BY <1>1 DEF BackupStage, highest, lockVars
  <2>1. CASE pbftStage'[x] = pbftStage[x]
    BY <1>4, <2>1 DEF BackupStage
  <2>2. CASE x = n /\ request[d].seq = sequenceID[n]
    <3>1. prePrepareNet'[n] \subseteq live \ {d}
      BY <1>2, <1>4 DEF OnlyLive, TypeOK, NetType
    <3>2. \A e \in live \ {d} : request[e].seq # request[d].seq
      BY <1>3 DEF LiveRequests
    <3>3. request[d].seq <= highest
      BY <1>3, LiveFacts
    <3> QED
      BY <2>2, <3>1, <3>2, <3>3
  <2> QED
    BY <1>7, <2>1, <2>2 DEF TypeOK, ConsensusType
<1>9. AskStage'
  <2> SUFFICES ASSUME NEW x \in Nodes, askForLock[x]
               PROVE  pbftStage'[x] = 1
    BY <1>1 DEF AskStage, lockVars
  <2>1. x # Node0 /\ pbftStage[x] = 1
    BY DEF AskStage
  <2>2. \A e \in prePrepareNet[x] : request[e].seq # sequenceID[x]
    BY <2>1 DEF BackupStage
  <2> QED
    BY <1>2, <1>7, <2>1, <2>2 DEF TypeOK, ConsensusType
<1> QED
  BY <1>1, <1>5, <1>6, <1>8, <1>9, UnchangedLeader
  DEF lockVars, viewVars, propVars, oldVars

LEMMA PrepareLeader ==
  ASSUME TypeOK, LeaderInv, NEW n \in Nodes, NEW d \in 1 .. Len(request),
         handlePrepare(n, d)
  PROVE  LeaderInv'
<1> USE DEF LeaderInv
<1>1. UNCHANGED <<request, view, sequenceID, chain, requestPool, height2Digest,
                  lockVars, viewVars, propVars, oldVars, prePrepareNet>>
  BY DEF handlePrepare
<1>2. pbftStage[n] >= 2 /\ d \in requestPool[n]
  BY DEF handlePrepare, Reached
<1>3. \/ pbftStage' = pbftStage
      \/ pbftStage' = [pbftStage EXCEPT ![n] = @ + 1]
  BY DEF handlePrepare
<1>4. \A x \in Nodes : pbftStage'[x] > 1 => pbftStage[x] > 1
  <2>1. CASE pbftStage' = pbftStage
    BY <2>1
  <2>2. CASE pbftStage' = [pbftStage EXCEPT ![n] = @ + 1]
    BY <1>2, <2>2 DEF TypeOK, ConsensusType
  <2> QED
    BY <1>3, <2>1, <2>2
<1>5. BackupStage'
  BY <1>1, <1>4 DEF BackupStage, highest, lockVars
<1>6. AskStage'
  <2>1. ~askForLock[n]
    BY <1>2 DEF AskStage
  <2> QED
    BY <1>1, <1>3, <2>1 DEF AskStage, lockVars, TypeOK, ConsensusType
<1>7. OnlyLive'
  <2>1. commitNet' = commitNet \/ commitNet' = ToAll(commitNet, d)
    BY DEF handlePrepare
  <2>2. d \in live /\ UNCHANGED live
    BY <1>1, <1>2 DEF OnlyLive, live
  <2>3. ASSUME NEW x \in Nodes, NEW e \in Digests, commitNet'[x][e] > 0
        PROVE  e \in live
    <3>1. CASE e = d
      BY <2>2, <3>1
    <3>2. CASE e # d
      <4>1. commitNet'[x][e] = commitNet[x][e]
        BY <2>1, <3>2 DEF ToAll, TypeOK, NetType
      <4> QED
        BY <2>3, <4>1 DEF OnlyLive
    <3> QED
      BY <3>1, <3>2
  <2> QED
    BY <1>1, <2>2, <2>3 DEF OnlyLive
<1> QED
  BY <1>1, <1>5, <1>6, <1>7, UnchangedLeader DEF lockVars, viewVars, propVars, oldVars

LEMMA RefusePrepareLeader ==
  ASSUME TypeOK, LeaderInv, NEW n \in Nodes, NEW d \in 1 .. Len(request),
         refusePrepare(n, d)
  PROVE  LeaderInv'
<1>1. UNCHANGED <<consensusVars, mapVars, lockVars, viewVars, propVars, oldVars,
                  prePrepareNet, commitNet>>
  BY DEF refusePrepare
<1> QED
  BY <1>1, UnchangedLeader
  DEF LeaderInv, consensusVars, mapVars, lockVars, viewVars, propVars, oldVars

\* A node that handles a Commit is past stage 1 and so does not wait for old
\* requests; the request is not behind it.
LEMMA CommitFacts ==
  ASSUME TypeOK, LeaderInv, NEW n \in Nodes, NEW d \in 1 .. Len(request),
         countCommit(n, d)
  PROVE  /\ pbftStage[n] >= 3 /\ ~askForLock[n] /\ d \in live
         /\ request[d].seq >= sequenceID[n]
         /\ ~applying[n].busy
         /\ \A m \in requestOldNet : m.from # n
         /\ \A m \in sendOldNet : m.to # n
         /\ UNCHANGED <<live, requestPool>> => OnlyLive'
<1> USE DEF LeaderInv
<1>0. d \in Digests
  BY ConstantsAssumption DEF TypeOK, ConsensusType, Digests
<1>1. /\ pbftStage[n] >= 3 /\ request[d].seq >= sequenceID[n]
      /\ commitNet[n][d] > 0
      /\ commitNet' = [commitNet EXCEPT ![n][d] = @ - 1]
      /\ UNCHANGED <<height2Digest, prePrepareNet>>
  BY DEF countCommit, Reached
<1>2. ~askForLock[n]
  BY <1>1 DEF AskStage
<1>3. d \in live
  BY <1>0, <1>1 DEF OnlyLive
<1>4. ASSUME NEW x \in Nodes, NEW e \in Digests, commitNet'[x][e] > 0
      PROVE  e \in live
  <2>1. CASE e = d
    BY <1>3, <2>1
  <2>2. CASE e # d
    <3>1. commitNet'[x][e] = commitNet[x][e]
      BY <1>1, <2>2 DEF TypeOK, NetType
    <3> QED
      BY <1>4, <3>1 DEF OnlyLive
  <2> QED
    BY <2>1, <2>2
<1>5. UNCHANGED <<live, requestPool>> => OnlyLive'
  BY <1>1, <1>4 DEF OnlyLive
<1> QED
  BY <1>1, <1>2, <1>3, <1>5 DEF AskOnce

LEMMA CommitCountLeader ==
  ASSUME TypeOK, LeaderInv, NEW n \in Nodes, NEW d \in 1 .. Len(request),
         handleCommitCount(n, d)
  PROVE  LeaderInv'
<1>1. UNCHANGED <<request, view, sequenceID, pbftStage, chain, requestPool,
                  height2Digest, lockVars, viewVars, propVars, applying,
                  requestOldNet, sendOldNet, prePrepareNet>>
  BY DEF handleCommitCount, countCommit
<1>2. OnlyLive'
  BY <1>1, CommitFacts DEF handleCommitCount, live
<1> QED
  BY <1>1, <1>2, UnchangedLeader DEF LeaderInv, lockVars, viewVars, propVars

\* A chain grows by one block at most.
LEMMA AddOne ==
  ASSUME TypeOK, NEW n \in Nodes, NEW d \in Digests
  PROVE  \/ AddBlock(chain[n], d) = chain[n]
         \/ /\ AddBlock(chain[n], d) = Append(chain[n], d)
            /\ Len(AddBlock(chain[n], d)) = Len(chain[n]) + 1
            /\ request[d].num = Len(chain[n]) + 1
            /\ request[d].parent = CurrentBlock(chain[n])
<1>1. chain[n] \in Seq(Digests)
  BY DEF TypeOK, ConsensusType
<1> QED
  BY <1>1 DEF AddBlock

\* The request that the leader commits is the one it holds sequenceLock for.
LEMMA LeaderCommits ==
  ASSUME TypeOK, LeaderInv, NEW d \in live, request[d].seq >= sequenceID[Node0]
  PROVE  /\ sequenceLock[Node0]
         /\ request[d].seq = Len(chain[Node0]) + 1
         /\ AddBlock(chain[Node0], d) = Append(chain[Node0], d)
<1>1. /\ sequenceID[Node0] = Len(chain[Node0]) + 1
      /\ request[d].num = request[d].seq /\ request[d].seq <= highest
      /\ request[d].seq > Len(chain[Node0]) =>
           request[d].parent = CurrentBlock(chain[Node0])
  BY DEF LeaderInv, SequenceAhead, LiveRequests
<1>2. /\ request[d].seq \in Nat /\ Len(chain[Node0]) \in Nat
      /\ chain[Node0] \in Seq(Digests) /\ highest \in Nat
  BY LiveFacts
<1>3. sequenceLock[Node0]
  <2> SUFFICES ASSUME ~sequenceLock[Node0] PROVE FALSE
    OBVIOUS
  <2>1. highest = Len(chain[Node0])
    BY <1>2 DEF highest
  <2> QED
    BY <1>1, <1>2, <2>1
<1>4. highest = Len(chain[Node0]) + 1
  BY <1>2, <1>3 DEF highest
<1>5. request[d].seq = Len(chain[Node0]) + 1
  BY <1>1, <1>2, <1>4
<1> QED
  BY <1>1, <1>2, <1>3, <1>5 DEF AddBlock

LEMMA CommitBlockLeader ==
  ASSUME TypeOK, LeaderInv, NEW n \in Nodes, NEW d \in 1 .. Len(request),
         handleCommitBlock(n, d)
  PROVE  LeaderInv'
<1> USE DEF LeaderInv
<1>1. countCommit(n, d) /\ endRound(n, d)
  BY DEF handleCommitBlock
<1>2. UNCHANGED <<request, view, requestPool, height2Digest, viewVars, propVars,
                  applying, requestOldNet, sendOldNet, prePrepareNet, askForLock>>
  BY DEF handleCommitBlock, countCommit
<1>3. /\ chain' = [chain EXCEPT ![n] = AddBlock(chain[n], d)]
      /\ sequenceID' = [sequenceID EXCEPT ![n] = sequenceID[n] + 1]
      /\ pbftStage' = [pbftStage EXCEPT ![n] = 1]
  BY DEF handleCommitBlock, endRound, nextSequence
<1>4. /\ pbftStage[n] >= 3 /\ ~askForLock[n] /\ d \in live
      /\ request[d].seq >= sequenceID[n]
      /\ ~applying[n].busy
      /\ \A m \in requestOldNet : m.from # n
      /\ \A m \in sendOldNet : m.to # n
  BY <1>1, CommitFacts
<1>5. /\ sequenceID[n] \in Nat /\ sequenceID[n] > Len(chain[n])
      /\ chain[n] \in Seq(Digests) /\ Len(chain[n]) \in Nat /\ d \in Digests
      /\ view[n] = Node0 /\ Node0 \in Nodes
  BY <1>4, LiveFacts
<1>6. \A x \in Nodes \ {n} : chain'[x] = chain[x] /\ sequenceID'[x] = sequenceID[x]
                             /\ pbftStage'[x] = pbftStage[x]
  BY <1>3 DEF TypeOK, ConsensusType
<1>7. /\ chain'[n] = AddBlock(chain[n], d)
      /\ sequenceID'[n] = sequenceID[n] + 1
      /\ pbftStage'[n] = 1
  BY <1>3 DEF TypeOK, ConsensusType
<1>8. UNCHANGED live
  BY <1>2 DEF live
<1>9. OnlyLive'
  BY <1>1, <1>2, <1>8, CommitFacts
<1>10. n = Node0 => /\ sequenceLock[n] /\ request[d].seq = Len(chain[n]) + 1
                    /\ chain'[n] = Append(chain[n], d)
                    /\ Len(chain'[n]) = Len(chain[n]) + 1
  <2> SUFFICES ASSUME n = Node0
               PROVE  /\ sequenceLock[n] /\ request[d].seq = Len(chain[n]) + 1
                      /\ chain'[n] = Append(chain[n], d)
                      /\ Len(chain'[n]) = Len(chain[n]) + 1
    OBVIOUS
  <2>1. /\ sequenceLock[n] /\ request[d].seq = Len(chain[n]) + 1
        /\ AddBlock(chain[n], d) = Append(chain[n], d)
    BY <1>4, LeaderCommits
  <2> QED
    BY <1>5, <1>7, <2>1
<1>11. n = Node0 => /\ sequenceLock' = [sequenceLock EXCEPT ![n] = FALSE]
                    /\ crashed' = [crashed EXCEPT ![n] = ~sequenceLock[n]]
  BY <1>1, <1>5 DEF endRound
<1>12. n # Node0 => UNCHANGED <<sequenceLock, crashed>>
  BY <1>1, <1>5 DEF endRound
<1>13. highest' = highest /\ Len(chain'[Node0]) >= Len(chain[Node0])
  <2>1. CASE n = Node0
    <3>1. ~sequenceLock'[Node0] /\ sequenceLock[Node0]
      BY <1>10, <1>11, <2>1 DEF TypeOK, LockType
    <3>2. Len(chain'[Node0]) = Len(chain[Node0]) + 1 /\ Len(chain[Node0]) \in Nat
      BY <1>5, <1>10, <2>1
    <3> QED
      BY <3>1, <3>2 DEF highest
  <2>2. CASE n # Node0
    <3>1. UNCHANGED sequenceLock /\ chain'[Node0] = chain[Node0]
      BY <1>5, <1>6, <1>12, <2>2
    <3>2. Len(chain[Node0]) \in Nat
      BY LiveFacts
    <3> QED
      BY <3>1, <3>2 DEF highest
  <2> QED
    BY <2>1, <2>2
<1>14. LiveRequests'
  <2> SUFFICES ASSUME NEW e \in live, request[e].seq > Len(chain'[Node0])
               PROVE  request[e].parent = CurrentBlock(chain'[Node0])
    BY <1>2, <1>8, <1>13 DEF LiveRequests, CurrentBlock
  <2>1. request[e].seq \in Nat /\ request[e].seq <= highest
    BY LiveFacts
  <2>2. n # Node0
    <3> SUFFICES ASSUME n = Node0 PROVE FALSE
      OBVIOUS
    <3>1. highest = Len(chain[n]) + 1
      BY <1>5, <1>10 DEF highest
    <3> QED
      BY <1>5, <1>10, <2>1, <3>1
  <2>3. chain'[Node0] = chain[Node0]
    BY <1>5, <1>6, <2>2
  <2> QED
    BY <2>3 DEF LiveRequests
<1>15. BackupStage' /\ AskStage'
  <2>1. BackupStage'
    BY <1>2, <1>4, <1>6, <1>7, <1>13 DEF BackupStage
  <2>2. AskStage'
    BY <1>2, <1>4, <1>6, <1>7 DEF AskStage
  <2> QED
    BY <2>1, <2>2
<1>16. AskRange'
  <2>1. \A m \in requestOldNet : m.from \in Nodes \ {n}
    BY <1>4 DEF TypeOK, OldType, OldRange
  <2>2. \A m \in sendOldNet : m.to \in Nodes \ {n}
    BY <1>4 DEF TypeOK, OldType, SendOld
  <2>3. ASSUME NEW x \in Nodes \ {n}, NEW s, ahead(x, s) PROVE ahead(x, s)'
    BY <1>2, <1>6, <1>8, <2>3 DEF ahead
  <2> QED
    BY <1>2, <1>4, <1>6, <2>1, <2>2, <2>3 DEF AskRange
<1>17. SequenceAhead'
  <2>1. sequenceID'[n] > Len(chain'[n])
    BY <1>5, <1>7, AddOne
  <2>2. n = Node0 => sequenceID'[n] = Len(chain'[n]) + 1
    BY <1>5, <1>7, <1>10 DEF SequenceAhead
  <2>3. n # Node0 => sequenceID'[Node0] = Len(chain'[Node0]) + 1
    BY <1>5, <1>6 DEF SequenceAhead
  <2>4. \A x \in Nodes : sequenceID'[x] > Len(chain'[x])
    BY <1>6, <2>1 DEF SequenceAhead
  <2> QED
    BY <2>2, <2>3, <2>4 DEF SequenceAhead
<1>18. NoFatalUnlock'
  <2>1. CASE n = Node0
    BY <1>10, <1>11, <2>1 DEF NoFatalUnlock, TypeOK, LockType
  <2>2. CASE n # Node0
    BY <1>12, <2>2 DEF NoFatalUnlock
  <2> QED
    BY <2>1, <2>2
<1> QED
  BY <1>2, <1>9, <1>14, <1>15, <1>16, <1>17, <1>18, UnchangedLeader DEF viewVars, propVars

\* Only a backup asks: the leader has every request.
LEMMA CommitAskLeader ==
  ASSUME TypeOK, LeaderInv, NEW n \in Nodes, NEW d \in 1 .. Len(request),
         handleCommitAsk(n, d)
  PROVE  LeaderInv'
<1> USE DEF LeaderInv
<1>1. countCommit(n, d) /\ endRound(n, d)
  BY DEF handleCommitAsk
<1>2. UNCHANGED <<request, view, sequenceID, chain, requestPool, height2Digest,
                  viewVars, propVars, applying, sendOldNet, prePrepareNet>>
  BY DEF handleCommitAsk, countCommit
<1>3. /\ askForLock' = [askForLock EXCEPT ![n] = TRUE]
      /\ pbftStage' = [pbftStage EXCEPT ![n] = 1]
  BY DEF handleCommitAsk, endRound
<1> DEFINE ask == [to |-> view[n], from |-> n,
                   start |-> sequenceID[n] + 1, end |-> request[d].seq]
<1>4. requestOldNet' = requestOldNet \cup {ask}
  BY DEF handleCommitAsk
<1>5. /\ pbftStage[n] >= 3 /\ ~askForLock[n] /\ d \in live
      /\ request[d].seq >= sequenceID[n]
      /\ ~applying[n].busy
      /\ \A m \in requestOldNet : m.from # n
      /\ \A m \in sendOldNet : m.to # n
  BY <1>1, CommitFacts
<1>6. sequenceID[n] \in Nat /\ view[n] = Node0 /\ Node0 \in Nodes
  BY LiveFacts
<1>7. n # Node0
  BY <1>5 DEF handleCommitAsk, live
<1>8. UNCHANGED <<sequenceLock, crashed>>
  BY <1>1, <1>6, <1>7 DEF endRound
<1>9. FirstView'
  BY <1>2, <1>4, <1>6 DEF FirstView, viewVars, propVars
<1>10. OnlyLive' /\ UNCHANGED live
  BY <1>1, <1>2, CommitFacts DEF live
<1>11. BackupStage'
  <2>1. /\ sequenceID[n] <= highest
        /\ \A e \in prePrepareNet[n] : request[e].seq # sequenceID[n]
    BY <1>5, <1>7 DEF BackupStage, TypeOK, ConsensusType
  <2>2. \A x \in Nodes \ {n} : /\ pbftStage'[x] = pbftStage[x]
                               /\ askForLock'[x] = askForLock[x]
    BY <1>3 DEF TypeOK, ConsensusType, LockType
  <2>3. highest' = highest
    BY <1>2, <1>8 DEF highest
  <2> QED
    BY <1>2, <2>1, <2>2, <2>3 DEF BackupStage
<1>12. AskStage'
  BY <1>3, <1>7 DEF AskStage, TypeOK, ConsensusType, LockType
<1>13. AskRange'
  <2>1. ASSUME NEW x, NEW s, ahead(x, s) PROVE ahead(x, s)'
    BY <1>2, <1>10, <2>1 DEF ahead
  <2> QED
    BY <1>2, <1>4, <1>5, <1>6, <2>1 DEF AskRange
<1>14. AskOnce'
  <2>1. \A x \in Nodes : askForLock[x] => askForLock'[x]
    BY <1>3 DEF TypeOK, LockType
  <2>2. askForLock'[n]
    BY <1>3 DEF TypeOK, LockType
  <2>3. \A m \in requestOldNet' : m \in requestOldNet \/ m = ask
    BY <1>4
  <2>4. /\ \A m \in requestOldNet : m.from \in Nodes
        /\ \A m \in sendOldNet : m.to \in Nodes
    BY DEF TypeOK, OldType, OldRange, SendOld
  <2> QED
    BY <1>2, <1>5, <2>1, <2>2, <2>3, <2>4 DEF AskOnce
<1>15. AskIsServed'
  <2>1. \A x \in Nodes \ {n} : askForLock'[x] = askForLock[x]
    BY <1>3 DEF TypeOK, LockType
  <2>2. ask \in requestOldNet' /\ ask.from = n
    BY <1>4
  <2> QED
    BY <1>2, <1>4, <2>1, <2>2 DEF AskIsServed
<1> QED
  BY <1>2, <1>8, <1>9, <1>10, <1>11, <1>12, <1>13, <1>14, <1>15, UnchangedLeader

-----------------------------------------------------------------------------
(***************************************************************************)
(* Catching up: what is sent to a node lies ahead of its sequence number,  *)
(* so none of it fits on its chain.                                        *)
(***************************************************************************)

LEMMA RequestOldLeader ==
  ASSUME TypeOK, LeaderInv, NEW n \in Nodes, NEW m \in requestOldNet,
         handleRequestOldSeq(n, m)
  PROVE  LeaderInv'
<1> USE DEF LeaderInv
<1>1. UNCHANGED <<consensusVars, mapVars, lockVars, viewVars, propVars, applying,
                  netVars>>
  BY DEF handleRequestOldSeq
<1>2. /\ m.from \in Nodes /\ m.start = sequenceID[m.from] + 1
      /\ m.start \in Nat /\ m.end \in Nat /\ m.end >= sequenceID[m.from]
      /\ m.to = Node0 /\ n = Node0 /\ view[n] = n
  BY DEF handleRequestOldSeq, FirstView, AskRange, TypeOK, OldType, OldRange
<1>3. requestOldNet' = requestOldNet \ {m}
  BY DEF handleRequestOldSeq
<1>0. PICK k \in 0 .. m.end + 1 - m.start :
        \E oldR \in [1 .. k -> requestPool[n]] :
          /\ IsOldRequest(n, m.start, m.end, oldR)
          /\ sendOldNet' = sendOldNet \cup
               {[to |-> m.from, start |-> m.start, end |-> m.end,
                 oldRequest |-> oldR]}
  BY <1>2 DEF handleRequestOldSeq
<1>4. PICK oldR \in [1 .. k -> requestPool[n]] :
        /\ IsOldRequest(n, m.start, m.end, oldR)
        /\ sendOldNet' = sendOldNet \cup
             {[to |-> m.from, start |-> m.start, end |-> m.end,
               oldRequest |-> oldR]}
  BY <1>0
<1> DEFINE answer == [to |-> m.from, start |-> m.start, end |-> m.end,
                      oldRequest |-> oldR]
<1>5. k \in Nat /\ Len(oldR) = k
  BY <1>2
<1>6. ahead(m.from, oldR)
  <2> SUFFICES ASSUME NEW i \in 1 .. k
               PROVE  oldR[i] \in live /\ request[oldR[i]].seq > sequenceID[m.from]
    BY <1>5 DEF ahead
  <2>1. oldR[i] \in requestPool[n] /\ request[oldR[i]].seq = m.start + i - 1
    BY <1>4, <1>5 DEF IsOldRequest, AtHeight
  <2>2. oldR[i] \in live
    BY <1>2, <2>1 DEF live
  <2>3. sequenceID[m.from] \in Nat /\ i \in Nat \ {0}
    BY <1>2, <1>5, LiveFacts
  <2> QED
    BY <1>2, <2>1, <2>2, <2>3
<1>7. sendOldNet' = sendOldNet \cup {answer}
  BY <1>4
<1>8. UNCHANGED <<sequenceID, request, askForLock, applying, live>>
  BY <1>1 DEF consensusVars, mapVars, lockVars, live
<1>9. AskRange'
  <2>1. answer.end >= sequenceID[answer.to] /\ ahead(answer.to, answer.oldRequest)
    BY <1>2, <1>6
  <2>2. ASSUME NEW x, NEW s, ahead(x, s) PROVE ahead(x, s)'
    BY <1>8, <2>2 DEF ahead
  <2> HIDE DEF answer
  <2> QED
    BY <1>3, <1>7, <1>8, <2>1, <2>2 DEF AskRange
<1>10. AskOnce'
  <2>1. answer.to = m.from
    OBVIOUS
  <2> HIDE DEF answer
  <2> QED
    BY <1>3, <1>7, <1>8, <2>1 DEF AskOnce
<1>11. AskIsServed'
  <2>1. answer.to = m.from
    OBVIOUS
  <2> HIDE DEF answer
  <2> QED
    BY <1>3, <1>7, <1>8, <2>1 DEF AskIsServed
<1>12. FirstView'
  BY <1>1, <1>3 DEF FirstView, consensusVars, viewVars, propVars
<1> QED
  BY <1>1, <1>9, <1>10, <1>11, <1>12, UnchangedLeader
  DEF consensusVars, mapVars, lockVars, netVars

LEMMA SendOldLeader ==
  ASSUME TypeOK, LeaderInv, NEW n \in Nodes, NEW m \in sendOldNet,
         handleSendOldSeq(n, m)
  PROVE  LeaderInv'
<1> USE DEF LeaderInv
<1>1. UNCHANGED <<consensusVars, mapVars, lockVars, viewVars, propVars,
                  requestOldNet, netVars>>
  BY DEF handleSendOldSeq
<1>2. m.to = n /\ sendOldNet' = sendOldNet \ {m}
  BY DEF handleSendOldSeq
<1>3. /\ applying'[n].busy /\ applying'[n].end = m.end
      /\ applying'[n].oldRequest = m.oldRequest
      /\ \A x \in Nodes \ {n} : applying'[x] = applying[x]
  BY DEF handleSendOldSeq, TypeOK, OldType
<1>4. UNCHANGED <<sequenceID, request, askForLock, requestOldNet, live>>
  BY <1>1 DEF consensusVars, mapVars, lockVars, live
<1>5. /\ \A x \in requestOldNet : x.from \in Nodes
      /\ \A x \in sendOldNet : x.to \in Nodes
  BY DEF TypeOK, OldType, OldRange, SendOld
<1>6. AskRange'
  <2>1. ASSUME NEW x, NEW s, ahead(x, s) PROVE ahead(x, s)'
    BY <1>4, <2>1 DEF ahead
  <2> QED
    BY <1>2, <1>3, <1>4, <1>5, <2>1 DEF AskRange
<1>7. AskOnce'
  BY <1>2, <1>3, <1>4, <1>5 DEF AskOnce
<1>8. AskIsServed'
  BY <1>2, <1>3, <1>4, <1>5 DEF AskIsServed
<1> QED
  BY <1>1, <1>6, <1>7, <1>8, UnchangedLeader
  DEF consensusVars, mapVars, lockVars, viewVars, propVars, netVars

LEMMA OldAddsNothing ==
  ASSUME TypeOK, LeaderInv, NEW n \in Nodes, applyOldRequest(n)
  PROVE  UNCHANGED chain
<1> USE DEF LeaderInv
<1> DEFINE a == applying[n]
           o == a.oldRequest[a.next]
<1>1. a.busy /\ a.next \in 1 .. Len(a.oldRequest)
  BY DEF applyOldRequest, TypeOK, OldType, Applying
<1>2. o \in live /\ request[o].seq > sequenceID[n]
  BY <1>1 DEF AskRange, ahead
<1>3. o \in Digests /\ request[o].num # Len(chain[n]) + 1
  BY <1>2, LiveFacts
<1>4. AddBlock(chain[n], o) = chain[n]
  BY <1>3, AddOne
<1> QED
  BY <1>4 DEF applyOldRequest, TypeOK, ConsensusType

LEMMA ApplyOldLeader ==
  ASSUME TypeOK, LeaderInv, NEW n \in Nodes, applyOldRequest(n)
  PROVE  LeaderInv'
<1> USE DEF LeaderInv
<1>1. UNCHANGED <<request, view, sequenceID, pbftStage, mapVars, lockVars,
                  viewVars, propVars, requestOldNet, sendOldNet, netVars>>
  BY DEF applyOldRequest
<1>2. UNCHANGED chain
  BY OldAddsNothing
<1>3. \A x \in Nodes : /\ applying'[x].busy = applying[x].busy
                       /\ applying'[x].end = applying[x].end
                       /\ applying'[x].oldRequest = applying[x].oldRequest
  BY DEF applyOldRequest, TypeOK, OldType, Applying
<1>4. AskRange'
  <2>1. ASSUME NEW x, NEW s, ahead(x, s) PROVE ahead(x, s)'
    BY <1>1, <2>1 DEF ahead, live, mapVars
  <2> QED
    BY <1>1, <1>3, <2>1 DEF AskRange
<1>5. AskOnce'
  <2>1. \A x \in requestOldNet : x.from \in Nodes
    BY DEF TypeOK, OldType, OldRange
  <2>2. \A x \in sendOldNet : x.to \in Nodes
    BY DEF TypeOK, OldType, SendOld
  <2> QED
    BY <1>1, <1>3, <2>1, <2>2 DEF AskOnce, lockVars
<1>6. AskIsServed'
  BY <1>1, <1>3 DEF AskIsServed, lockVars
<1> QED
  BY <1>1, <1>2, <1>4, <1>5, <1>6, UnchangedLeader
  DEF mapVars, lockVars, viewVars, propVars, netVars

LEMMA EndSendOldLeader ==
  ASSUME TypeOK, LeaderInv, NEW n \in Nodes, endSendOldSeq(n)
  PROVE  LeaderInv'
<1> USE DEF LeaderInv
<1>1. UNCHANGED <<request, view, pbftStage, chain, sequenceLock, viewVars,
                  propVars, requestOldNet, sendOldNet, prePrepareNet, commitNet>>
  BY DEF endSendOldSeq
<1> DEFINE a    == applying[n]
           olds == {a.oldRequest[i] : i \in 1 .. Len(a.oldRequest)}
<1>2. a.busy /\ askForLock[n]
  BY DEF endSendOldSeq, AskOnce
<1>3. n # Node0 /\ pbftStage[n] = 1
  BY <1>2 DEF AskStage
<1>4. /\ \A x \in requestOldNet : x.from \in Nodes \ {n}
      /\ \A x \in sendOldNet : x.to \in Nodes \ {n}
  <2>1. /\ \A x \in requestOldNet : x.from \in Nodes
        /\ \A x \in sendOldNet : x.to \in Nodes
    BY DEF TypeOK, OldType, OldRange, SendOld
  <2> QED
    BY <1>2, <2>1 DEF AskOnce
<1>5. /\ sequenceID[n] \in Nat /\ a.end \in Nat
      /\ a.end >= sequenceID[n]
  BY <1>2 DEF AskRange, TypeOK, ConsensusType, OldType, Applying
<1>6. olds \subseteq live
  BY <1>2 DEF AskRange, ahead
<1>7. /\ requestPool' = [requestPool EXCEPT ![n] = requestPool[n] \cup olds]
      /\ sequenceID' = [sequenceID EXCEPT ![n] = a.end + 1]
      /\ askForLock' = [askForLock EXCEPT ![n] = FALSE]
      /\ crashed' = [crashed EXCEPT ![n] = ~askForLock[n]]
      /\ applying' = [applying EXCEPT ![n] = NoOldRequest]
  BY DEF endSendOldSeq
<1>8. height2Digest' = [height2Digest EXCEPT ![n] =
        {e \in height2Digest[n] :
           \A o \in olds : request[e].seq # request[o].seq} \cup olds]
  BY DEF endSendOldSeq
<1> HIDE DEF olds
<1>9. UNCHANGED live
  BY <1>3, <1>7, ConstantsAssumption DEF live, TypeOK, MapType
<1>10. OnlyLive'
  <2>1. ASSUME NEW x \in Nodes
        PROVE  /\ requestPool'[x] \subseteq requestPool[x] \cup olds
               /\ height2Digest'[x] \subseteq height2Digest[x] \cup olds
    BY <1>7, <1>8 DEF TypeOK, MapType
  <2> QED
    BY <1>1, <1>6, <1>9, <2>1 DEF OnlyLive
<1>11. \A x \in Nodes \ {n} : /\ askForLock'[x] = askForLock[x]
                              /\ sequenceID'[x] = sequenceID[x]
                              /\ applying'[x] = applying[x]
  BY <1>7 DEF TypeOK, LockType, ConsensusType, OldType
<1>12. sequenceID'[n] = a.end + 1 /\ ~askForLock'[n] /\ ~applying'[n].busy
  BY <1>7 DEF TypeOK, LockType, ConsensusType, OldType, NoOldRequest
<1>13. BackupStage' /\ AskStage'
  <2>1. highest' = highest
    BY <1>1 DEF highest
  <2>2. BackupStage'
    BY <1>1, <1>3, <1>11, <1>12, <2>1 DEF BackupStage
  <2>3. AskStage'
    BY <1>1, <1>3, <1>11, <1>12, ConstantsAssumption DEF AskStage
  <2> QED
    BY <2>2, <2>3
<1>14. AskRange'
  <2>1. ASSUME NEW x \in Nodes \ {n}, NEW s, ahead(x, s) PROVE ahead(x, s)'
    BY <1>1, <1>9, <1>11, <2>1 DEF ahead
  <2> QED
    BY <1>1, <1>4, <1>11, <1>12, <2>1 DEF AskRange
<1>15. AskOnce' /\ AskIsServed'
  BY <1>1, <1>4, <1>11, <1>12 DEF AskOnce, AskIsServed
<1>16. SequenceAhead'
  <2>1. sequenceID'[n] > Len(chain[n])
    BY <1>5, <1>12 DEF SequenceAhead, TypeOK, ConsensusType
  <2> QED
    BY <1>1, <1>3, <1>11, <2>1, ConstantsAssumption DEF SequenceAhead
<1>17. NoFatalUnlock'
  BY <1>2, <1>7 DEF NoFatalUnlock, TypeOK, LockType
<1> QED
  BY <1>1, <1>9, <1>10, <1>13, <1>14, <1>15, <1>16, <1>17, UnchangedLeader
  DEF viewVars, propVars

-----------------------------------------------------------------------------
(***************************************************************************)
(* The monitor, the restart, and the whole next-state relation.            *)
(***************************************************************************)

LEMMA ResetStageLeader ==
  ASSUME TypeOK, LeaderInv, NEW n \in Nodes, resetStage(n)
  PROVE  LeaderInv'
<1> USE DEF LeaderInv
<1>1. UNCHANGED <<request, view, sequenceID, chain, mapVars, lockVars, viewVars,
                  propVars, oldVars, netVars>>
  BY DEF resetStage
<1>2. \A x \in Nodes : pbftStage'[x] = pbftStage[x] \/ pbftStage'[x] = 1
  BY DEF resetStage, TypeOK, ConsensusType
<1>3. BackupStage'
  <2>1. \A x \in Nodes : pbftStage'[x] > 1 => pbftStage[x] > 1
    BY <1>2
  <2>2. UNCHANGED <<highest, sequenceID, request, askForLock, prePrepareNet>>
    BY <1>1 DEF highest, lockVars, netVars
  <2> QED
    BY <2>1, <2>2 DEF BackupStage
<1>4. AskStage'
  BY <1>1, <1>2 DEF AskStage, lockVars
<1> QED
  BY <1>1, <1>3, <1>4, UnchangedLeader
  DEF mapVars, lockVars, viewVars, propVars, oldVars, netVars

\* The shard starts again with the chains it has stored.
LEMMA RestartLeader ==
  ASSUME TypeOK, RestartShard
  PROVE  LeaderInv'
<1>1. /\ view' = [n \in Nodes |-> Node0]
      /\ sequenceID' = [n \in Nodes |-> Len(chain[n]) + 1]
      /\ pbftStage' = [n \in Nodes |-> 1]
      /\ requestPool' = NoMessages /\ height2Digest' = NoMessages
      /\ sequenceLock' = AllFalse /\ askForLock' = AllFalse /\ crashed' = AllFalse
      /\ queued' = AllZero /\ broadcasted' = AllZero
      /\ applying' = [n \in Nodes |-> NoOldRequest]
      /\ prePrepareNet' = NoMessages /\ commitNet' = ZeroCounts
      /\ requestOldNet' = {} /\ sendOldNet' = {}
      /\ viewChangeNet' = NoMessages /\ newViewNet' = NoMessages
      /\ UNCHANGED chain
  BY DEF RestartShard
<1>2. \A n \in Nodes : Len(chain[n]) \in Nat
  BY DEF TypeOK, ConsensusType
<1> USE ConstantsAssumption
<1>3. SequenceAhead'
  BY <1>1, <1>2 DEF SequenceAhead
<1>4. FirstView'
  BY <1>1 DEF FirstView, NoMessages, AllZero
<1>5. LiveRequests' /\ OnlyLive'
  BY <1>1 DEF LiveRequests, OnlyLive, live, NoMessages, ZeroCounts
<1>6. BackupStage' /\ AskStage'
  BY <1>1 DEF BackupStage, AskStage, AllFalse
<1>7. AskRange' /\ AskOnce'
  BY <1>1 DEF AskRange, AskOnce, NoOldRequest
<1>8. NoFatalUnlock' /\ AskIsServed'
  BY <1>1 DEF NoFatalUnlock, AskIsServed, AllFalse
<1> QED
  BY <1>3, <1>4, <1>5, <1>6, <1>7, <1>8 DEF LeaderInv

\* Without a timeout nobody asks for another view.
LEMMA ViewStays ==
  ASSUME TypeOK, LeaderInv, MaxTimeouts = 0, NEW n \in Nodes
  PROVE  /\ ~viewChangePropose(n)
         /\ viewChangeNet[n] = {} /\ newViewNet[n] = {}
<1>1. ~viewChangePropose(n)
  BY DEF viewChangePropose, TypeOK, BoundType
<1> QED
  BY <1>1 DEF LeaderInv, FirstView

LEMMA NextLeader ==
  ASSUME MaxTimeouts = 0, TypeOK, LeaderInv, [Next]_vars
  PROVE  LeaderInv'
<1>1. CASE UNCHANGED vars
  BY <1>1, UnchangedLeader
  DEF LeaderInv, vars, consensusVars, mapVars, lockVars, viewVars, propVars,
      oldVars, netVars
<1>2. CASE Next
  BY <1>2, NextCases, ViewStays, BeginRoundLeader, ProposeLeader,
     SetPrepareStageLeader, PrePrepareLeader, PrepareLeader,
     RefusePrepareLeader, CommitCountLeader, CommitBlockLeader,
     CommitAskLeader, RequestOldLeader, SendOldLeader, ApplyOldLeader,
     EndSendOldLeader, ResetStageLeader, RestartLeader
<1> QED
  BY <1>1, <1>2

\* In a shard whose view change timeout never expires the facts of LeaderInv
\* always hold, also after a restart with chains of different lengths: one
\* request at a time, every lock held where it is released, every node that
\* asks for blocks served.
THEOREM LeaderStays ==
  ASSUME MaxTimeouts = 0
  PROVE  Spec => []LeaderInv
<1>1. TypeOK /\ LeaderInv /\ [Next]_vars => LeaderInv'
  BY NextLeader
<1> QED
  BY <1>1, InitLeader, TypeCorrect, PTL DEF Spec

\* No handler unlocks a mutex that is not locked, restarts included.
THEOREM LocksHeld ==
  ASSUME MaxTimeouts = 0
  PROVE  Spec => []NoFatalUnlock
<1>1. LeaderInv => NoFatalUnlock
  BY DEF LeaderInv
<1> QED
  BY <1>1, LeaderStays, PTL

\* A node that holds askForLock has its request or its answer on the way,
\* restarts included.
THEOREM AskersServed ==
  ASSUME MaxTimeouts = 0
  PROVE  Spec => []AskIsServed
<1>1. LeaderInv => AskIsServed
  BY DEF LeaderInv
<1> QED
  BY <1>1, LeaderStays, PTL

\* A node's sequence number is ahead of its chain, the leader's by one,
\* restarts included.
THEOREM SequenceIsAhead ==
  ASSUME MaxTimeouts = 0
  PROVE  Spec => []SequenceAhead
<1>1. LeaderInv => SequenceAhead
  BY DEF LeaderInv
<1> QED
  BY <1>1, LeaderStays, PTL

-----------------------------------------------------------------------------
(***************************************************************************)
(* Quorums: the confirmations are counted per message, and yet no block is *)
(* committed without 2f+1 senders.                                         *)
(***************************************************************************)

QuorumInv == CommitsHaveSenders /\ QuorumBacked

\* The sets of senders are finite and grow by one node at a time.
LEMMA SendersFinite ==
  ASSUME TypeOK, NEW d \in Digests
  PROVE  /\ IsFiniteSet(commitSenders[d])
         /\ Cardinality(commitSenders[d]) \in Nat
         /\ \A n \in Nodes \ commitSenders[d] :
              Cardinality(commitSenders[d] \cup {n}) =
                Cardinality(commitSenders[d]) + 1
<1>1. IsFiniteSet(commitSenders[d])
  BY FS_Subset, ConstantsAssumption DEF TypeOK, BoundType
<1> QED
  BY <1>1, FS_CardinalityType, FS_AddElement

LEMMA InitQuorum == Init => QuorumInv
<1> SUFFICES ASSUME Init PROVE QuorumInv
  OBVIOUS
<1>1. CommitsHaveSenders
  BY FS_EmptySet DEF Init, CommitsHaveSenders, ZeroCounts
<1>2. QuorumBacked
  BY DEF Init, QuorumBacked
<1> QED
  BY <1>1, <1>2 DEF QuorumInv

LEMMA UnchangedQuorum ==
  ASSUME QuorumInv
  PROVE  /\ UNCHANGED <<request, cntCommitConfirm, commitNet, commitSenders,
                        isCommitBordcast, live>> => CommitsHaveSenders'
         /\ UNCHANGED <<chain, commitSenders>> => QuorumBacked'
  BY DEF QuorumInv, CommitsHaveSenders, QuorumBacked

\* Nobody has sent a Commit of a new request.
LEMMA ProposeQuorum ==
  ASSUME TypeOK, LeaderInv, QuorumInv, NEW n \in Nodes, Propose(n)
  PROVE  QuorumInv'
<1>1. UNCHANGED <<cntCommitConfirm, commitNet, commitSenders, isCommitBordcast, chain>>
  BY DEF Propose, boundVars
<1>2. Len(request') = Len(request) + 1 /\ Len(request) \in Nat
  BY DEF Propose, TypeOK, ConsensusType
<1>3. live' \subseteq live \cup {Len(request) + 1}
  BY ConstantsAssumption DEF Propose, live, TypeOK, MapType
<1>4. CommitsHaveSenders'
  <2> SUFFICES ASSUME NEW d \in Digests
               PROVE  /\ d > Len(request') => commitSenders[d] = {}
                      /\ \A x \in Nodes :
                           x \in commitSenders[d] /\ d \in live' =>
                             d \in isCommitBordcast[x]
    BY <1>1 DEF QuorumInv, CommitsHaveSenders
  <2>1. /\ d > Len(request) => commitSenders[d] = {}
        /\ \A x \in Nodes :
             x \in commitSenders[d] /\ d \in live => d \in isCommitBordcast[x]
    BY DEF QuorumInv, CommitsHaveSenders
  <2>2. d \in Nat
    BY DEF Digests
  <2> QED
    BY <1>2, <1>3, <2>1, <2>2
<1> QED
  BY <1>1, <1>4, UnchangedQuorum DEF QuorumInv

\* A node adds itself to the senders and one message to every node, and it
\* does so once: isCommitBordcast says whether it has.
LEMMA PrepareQuorum ==
  ASSUME TypeOK, LeaderInv, QuorumInv, NEW n \in Nodes, NEW d \in 1 .. Len(request),
         handlePrepare(n, d)
  PROVE  QuorumInv'
<1>0. d \in Digests /\ d \in live
  <2>1. d \in Digests
    BY ConstantsAssumption DEF TypeOK, ConsensusType, Digests
  <2> QED
    BY <2>1 DEF handlePrepare, LeaderInv, OnlyLive
<1>1. UNCHANGED <<chain, cntCommitConfirm, request, live>>
  BY DEF handlePrepare, live
<1>2. CASE UNCHANGED <<commitNet, isCommitBordcast, commitSenders>>
  BY <1>1, <1>2, UnchangedQuorum DEF QuorumInv
<1>3. CASE /\ commitNet' = ToAll(commitNet, d)
           /\ isCommitBordcast' = [isCommitBordcast EXCEPT ![n] = @ \cup {d}]
           /\ commitSenders' = [commitSenders EXCEPT ![d] = @ \cup {n}]
  <2>1. n \notin commitSenders[d]
    BY <1>0 DEF handlePrepare, QuorumInv, CommitsHaveSenders
  <2>2. /\ Cardinality(commitSenders[d]) \in Nat
        /\ Cardinality(commitSenders'[d]) = Cardinality(commitSenders[d]) + 1
    BY <1>0, <1>3, <2>1, SendersFinite DEF TypeOK, BoundType
  <2>3. \A e \in Digests \ {d} : commitSenders'[e] = commitSenders[e]
    BY <1>3 DEF TypeOK, BoundType
  <2>4. \A x \in Nodes : /\ commitNet'[x][d] = commitNet[x][d] + 1
                         /\ \A e \in Digests \ {d} : commitNet'[x][e] = commitNet[x][e]
    BY <1>0, <1>3 DEF ToAll, TypeOK, NetType
  <2>5. CommitsHaveSenders'
    <3>0. ASSUME NEW e \in Digests, e > Len(request) PROVE commitSenders'[e] = {}
      <4>1. e # d
        BY <3>0 DEF TypeOK, ConsensusType
      <4> QED
        BY <2>3, <3>0, <4>1 DEF QuorumInv, CommitsHaveSenders
    <3> SUFFICES ASSUME NEW x \in Nodes, NEW e \in Digests
                 PROVE  /\ cntCommitConfirm[x][e] + commitNet'[x][e] <=
                             Cardinality(commitSenders'[e])
                        /\ x \in commitSenders'[e] /\ e \in live =>
                             e \in isCommitBordcast'[x]
      BY <1>1, <3>0 DEF CommitsHaveSenders
    <3>1. /\ cntCommitConfirm[x][e] + commitNet[x][e] <=
               Cardinality(commitSenders[e])
          /\ x \in commitSenders[e] /\ e \in live => e \in isCommitBordcast[x]
          /\ cntCommitConfirm[x][e] \in Nat /\ commitNet[x][e] \in Nat
      BY DEF QuorumInv, CommitsHaveSenders, TypeOK, MapType, NetType
    <3>2. cntCommitConfirm[x][e] + commitNet'[x][e] <= Cardinality(commitSenders'[e])
      BY <2>2, <2>3, <2>4, <3>1
    <3>3. x \in commitSenders'[e] /\ e \in live => e \in isCommitBordcast'[x]
      BY <1>0, <1>3, <3>1 DEF TypeOK, BoundType, MapType
    <3> QED
      BY <3>2, <3>3
  <2>6. QuorumBacked'
    <3> SUFFICES ASSUME NEW x \in Nodes, NEW i \in 1 .. Len(chain[x])
                 PROVE  Cardinality(commitSenders'[chain[x][i]]) >= Quorum
      BY <1>1 DEF QuorumBacked
    <3>1. chain[x][i] \in Digests
      BY DEF TypeOK, ConsensusType
    <3>2. Cardinality(commitSenders[chain[x][i]]) >= Quorum
      BY DEF QuorumInv, QuorumBacked
    <3> QED
      BY <2>2, <2>3, <3>1, <3>2, QuorumType
  <2> QED
    BY <2>5, <2>6 DEF QuorumInv
<1> QED
  BY <1>2, <1>3 DEF handlePrepare

\* A message that is counted was on its way before.
LEMMA CountKeepsSenders ==
  ASSUME TypeOK, QuorumInv, NEW n \in Nodes, NEW d \in 1 .. Len(request),
         countCommit(n, d)
  PROVE  /\ CommitsHaveSenders'
         /\ UNCHANGED commitSenders
         /\ d \in Digests
         /\ HasCommitQuorum(n, d) => Cardinality(commitSenders[d]) >= Quorum
<1>0. d \in Digests
  BY ConstantsAssumption DEF TypeOK, ConsensusType, Digests
<1>1. UNCHANGED <<commitSenders, isCommitBordcast, request, live>>
  BY DEF countCommit, boundVars, live
<1>2. /\ commitNet[n][d] > 0
      /\ commitNet' = [commitNet EXCEPT ![n][d] = @ - 1]
      /\ cntCommitConfirm' = [cntCommitConfirm EXCEPT ![n][d] = @ + 1]
  BY DEF countCommit
<1>3. ASSUME NEW x \in Nodes, NEW e \in Digests
      PROVE  /\ cntCommitConfirm[x][e] \in Nat /\ commitNet[x][e] \in Nat
             /\ cntCommitConfirm'[x][e] + commitNet'[x][e] =
                  cntCommitConfirm[x][e] + commitNet[x][e]
  <2>1. /\ cntCommitConfirm[x][e] \in Nat /\ commitNet[x][e] \in Nat
        /\ commitNet'[x][e] = IF x = n /\ e = d THEN commitNet[x][e] - 1
                                                ELSE commitNet[x][e]
        /\ cntCommitConfirm'[x][e] = IF x = n /\ e = d
                                     THEN cntCommitConfirm[x][e] + 1
                                     ELSE cntCommitConfirm[x][e]
    BY <1>0, <1>2 DEF TypeOK, MapType, NetType
  <2> QED
    BY <2>1
<1>4. CommitsHaveSenders'
  BY <1>1, <1>3 DEF QuorumInv, CommitsHaveSenders
<1>5. HasCommitQuorum(n, d) => Cardinality(commitSenders[d]) >= Quorum
  <2>1. /\ cntCommitConfirm[n][d] \in Nat /\ commitNet[n][d] \in Nat
        /\ Cardinality(commitSenders[d]) \in Nat
    BY <1>0, <1>3, SendersFinite
  <2>2. cntCommitConfirm[n][d] + commitNet[n][d] <= Cardinality(commitSenders[d])
    BY <1>0 DEF QuorumInv, CommitsHaveSenders
  <2> QED
    BY <1>2, <2>1, <2>2, QuorumType DEF HasCommitQuorum
<1> QED
  BY <1>0, <1>1, <1>4, <1>5

LEMMA CommitBlockQuorum ==
  ASSUME TypeOK, QuorumInv, NEW n \in Nodes, NEW d \in 1 .. Len(request),
         handleCommitBlock(n, d)
  PROVE  QuorumInv'
<1>1. /\ CommitsHaveSenders' /\ UNCHANGED commitSenders /\ d \in Digests
      /\ Cardinality(commitSenders[d]) >= Quorum
  BY CountKeepsSenders DEF handleCommitBlock
<1>2. chain' = [chain EXCEPT ![n] = AddBlock(chain[n], d)]
  BY DEF handleCommitBlock
<1>3. QuorumBacked'
  <2> SUFFICES ASSUME NEW x \in Nodes, NEW i \in 1 .. Len(chain'[x])
               PROVE  Cardinality(commitSenders[chain'[x][i]]) >= Quorum
    BY <1>1 DEF QuorumBacked
  <2>1. CASE chain'[x] = chain[x]
    BY <2>1 DEF QuorumInv, QuorumBacked
  <2>2. CASE x = n /\ chain'[x] = Append(chain[x], d)
    <3>1. chain[x] \in Seq(Digests)
      BY DEF TypeOK, ConsensusType
    <3>2. CASE i \in 1 .. Len(chain[x])
      BY <2>2, <3>1, <3>2 DEF QuorumInv, QuorumBacked
    <3>3. CASE i = Len(chain[x]) + 1
      BY <1>1, <2>2, <3>1, <3>3
    <3> QED
      BY <2>2, <3>1, <3>2, <3>3
  <2>3. chain'[x] = chain[x] \/ (x = n /\ chain'[x] = Append(chain[x], d))
    BY <1>2 DEF AddBlock, TypeOK, ConsensusType
  <2> QED
    BY <2>1, <2>2, <2>3
<1> QED
  BY <1>1, <1>3 DEF QuorumInv

\* A restart loses the confirmations; the chains keep their blocks, and the
\* requests of before are not live.
LEMMA RestartQuorum ==
  ASSUME TypeOK, QuorumInv, RestartShard
  PROVE  QuorumInv'
<1>1. /\ UNCHANGED <<chain, commitSenders, request>>
      /\ cntCommitConfirm' = ZeroCounts /\ commitNet' = ZeroCounts
      /\ requestPool' = NoMessages
  BY DEF RestartShard
<1>2. live' = {}
  BY <1>1, ConstantsAssumption DEF live, NoMessages
<1>3. CommitsHaveSenders'
  <2> SUFFICES ASSUME NEW d \in Digests, NEW n \in Nodes
               PROVE  /\ d > Len(request) => commitSenders[d] = {}
                      /\ cntCommitConfirm'[n][d] + commitNet'[n][d] <=
                           Cardinality(commitSenders[d])
    BY <1>1, <1>2, ConstantsAssumption DEF CommitsHaveSenders
  <2>1. cntCommitConfirm'[n][d] = 0 /\ commitNet'[n][d] = 0
    BY <1>1 DEF ZeroCounts
  <2> QED
    BY <2>1, SendersFinite DEF QuorumInv, CommitsHaveSenders
<1> QED
  BY <1>1, <1>3, UnchangedQuorum DEF QuorumInv

LEMMA NextQuorum ==
  ASSUME MaxTimeouts = 0, TypeOK, LeaderInv, QuorumInv, [Next]_vars
  PROVE  QuorumInv'
<1> USE UnchangedQuorum DEF QuorumInv
<1> DEFINE same == UNCHANGED <<request, cntCommitConfirm, commitNet, commitSenders,
                               isCommitBordcast, live, chain>>
<1>0. same => QuorumInv'
  OBVIOUS
<1>1. CASE UNCHANGED vars
  BY <1>0, <1>1 DEF vars, consensusVars, mapVars, netVars, boundVars, live
<1>3. ASSUME NEW n \in Nodes, BeginRound(n) \/ SetPrepareStage(n) \/ resetStage(n)
      PROVE  same
  BY <1>3 DEF BeginRound, SetPrepareStage, resetStage, consensusVars,
              mapVars, netVars, boundVars, live
<1>4. ASSUME NEW n \in Nodes, NEW d \in 1 .. Len(request),
             handlePrePrepare(n, d) \/ refusePrepare(n, d)
      PROVE  same
  <2>1. CASE refusePrepare(n, d)
    BY <2>1 DEF refusePrepare, consensusVars, mapVars, boundVars, live
  <2>2. CASE handlePrePrepare(n, d)
    <3>1. d \in live
      BY <2>2 DEF handlePrePrepare, LeaderInv, OnlyLive
    <3>2. requestPool' = [requestPool EXCEPT ![n] = @ \cup {d}]
      BY <2>2 DEF handlePrePrepare
    <3>3. UNCHANGED live
      BY <3>1, <3>2, ConstantsAssumption DEF live, TypeOK, MapType
    <3> QED
      BY <2>2, <3>3 DEF handlePrePrepare, boundVars
  <2> QED
    BY <1>4, <2>1, <2>2
<1>5. ASSUME NEW n \in Nodes, NEW d \in 1 .. Len(request),
             handleCommitCount(n, d) \/ handleCommitAsk(n, d)
      PROVE  QuorumInv'
  <2>1. countCommit(n, d) /\ UNCHANGED chain
    BY <1>5 DEF handleCommitCount, handleCommitAsk
  <2> QED
    BY <2>1, CountKeepsSenders
<1>6. ASSUME NEW n \in Nodes, NEW m \in requestOldNet, handleRequestOldSeq(n, m)
      PROVE  same
  BY <1>6 DEF handleRequestOldSeq, consensusVars, mapVars, netVars, boundVars, live
<1>7. ASSUME NEW n \in Nodes, NEW m \in sendOldNet, handleSendOldSeq(n, m)
      PROVE  same
  BY <1>7 DEF handleSendOldSeq, consensusVars, mapVars, netVars, boundVars, live
<1>8. ASSUME NEW n \in Nodes, applyOldRequest(n) PROVE same
  BY <1>8, OldAddsNothing DEF applyOldRequest, mapVars, netVars, boundVars, live
<1>9. ASSUME NEW n \in Nodes, endSendOldSeq(n) PROVE same
  <2>1. n # Node0
    BY <1>9 DEF endSendOldSeq, LeaderInv, AskOnce, AskStage
  <2>2. UNCHANGED live
    BY <1>9, <2>1, ConstantsAssumption DEF endSendOldSeq, live, TypeOK, MapType
  <2> QED
    BY <1>9, <2>2 DEF endSendOldSeq, boundVars
<1> HIDE DEF same
<1>10. CASE Next
  BY <1>0, <1>3, <1>4, <1>5, <1>6, <1>7, <1>8, <1>9, <1>10, NextCases,
     ViewStays, ProposeQuorum, PrepareQuorum, CommitBlockQuorum, RestartQuorum
<1> QED
  BY <1>1, <1>10

\* A block is in a chain only if 2f+1 different nodes sent a Commit of it,
\* although the maps of confirmations count messages and not nodes; restarts
\* included.
THEOREM CommitsBacked ==
  ASSUME MaxTimeouts = 0
  PROVE  Spec => []QuorumBacked
<1>1. TypeOK /\ LeaderInv /\ QuorumInv /\ [Next]_vars => QuorumInv'
  BY NextQuorum
<1>2. QuorumInv => QuorumBacked
  BY DEF QuorumInv
<1> QED
  BY <1>1, <1>2, InitQuorum, TypeCorrect, LeaderStays, PTL DEF Spec

-----------------------------------------------------------------------------
(***************************************************************************)
(* A shard that is not restarted either: the requests are numbered through *)
(* and every chain is a prefix of them.                                    *)
(***************************************************************************)

NumberedInv == NumberedChains /\ LockIffOutstanding

\* What is added to a chain is the block of the next height.
LEMMA AddNext ==
  ASSUME TypeOK, LeaderInv, NumberedInv, NEW n \in Nodes, NEW d \in 1 .. Len(request)
  PROVE  /\ d \in Digests /\ chain[n] \in Seq(Digests) /\ Len(chain[n]) \in Nat
         /\ \/ AddBlock(chain[n], d) = chain[n]
            \/ AddBlock(chain[n], d) = Append(chain[n], d) /\ d = Len(chain[n]) + 1
<1>1. d \in Digests /\ chain[n] \in Seq(Digests) /\ Len(chain[n]) \in Nat
  BY ConstantsAssumption DEF TypeOK, ConsensusType, Digests
<1>2. request[d].num = d
  BY DEF NumberedInv, NumberedChains
<1> QED
  BY <1>1, <1>2, AddOne

\* A new request is one higher than all requests before it.
LEMMA ProposeNumbered ==
  ASSUME TypeOK, LeaderInv, NumberedInv, NEW n \in Nodes, Propose(n)
  PROVE  NumberedInv'
<1> USE DEF NumberedInv
<1>1. n = Node0 /\ ~sequenceLock[n] /\ UNCHANGED chain
  BY DEF Propose, LeaderInv, FirstView
<1> DEFINE d == Len(request) + 1
           r == [seq |-> sequenceID[n], num |-> Len(chain[n]) + 1,
                 parent |-> CurrentBlock(chain[n])]
<1>2. chain[n] \in Seq(Digests) /\ Len(request) \in Nat /\ Len(chain[n]) \in Nat
  BY LiveFacts
<1>3. Len(chain[n]) = Len(request) /\ sequenceID[n] = d
  BY <1>1, <1>2 DEF LockIffOutstanding, LeaderInv, SequenceAhead
<1>4. CurrentBlock(chain[n]) = Len(request)
  BY <1>2, <1>3 DEF CurrentBlock, NumberedChains
<1>5. /\ Len(request') = d
      /\ request'[d] = r
      /\ \A e \in 1 .. Len(request) : request'[e] = request[e]
  BY DEF Propose, TypeOK, ConsensusType
<1>6. NumberedChains'
  <2>1. ASSUME NEW e \in 1 .. Len(request')
        PROVE  /\ request'[e].seq = e /\ request'[e].num = e
               /\ request'[e].parent = e - 1
    <3>1. CASE e = d
      BY <1>2, <1>3, <1>4, <1>5, <3>1
    <3>2. CASE e \in 1 .. Len(request)
      BY <1>5, <3>2 DEF NumberedChains
    <3> QED
      BY <1>2, <1>5, <3>1, <3>2
  <2>2. ASSUME NEW x \in Nodes
        PROVE  /\ Len(chain'[x]) <= Len(request')
               /\ \A i \in 1 .. Len(chain'[x]) : chain'[x][i] = i
    BY <1>1, <1>2, <1>5 DEF NumberedChains, TypeOK, ConsensusType
  <2> QED
    BY <2>1, <2>2 DEF NumberedChains
<1>7. sequenceLock'[Node0]
  BY <1>1 DEF Propose, TypeOK, LockType
<1>8. LockIffOutstanding'
  BY <1>1, <1>2, <1>3, <1>5, <1>7 DEF LockIffOutstanding
<1> QED
  BY <1>6, <1>8

\* A commit adds the next block, and the leader's ends its round.
LEMMA CommitBlockNumbered ==
  ASSUME TypeOK, LeaderInv, NumberedInv, NEW n \in Nodes, NEW d \in 1 .. Len(request),
         handleCommitBlock(n, d)
  PROVE  NumberedInv'
<1> USE DEF NumberedInv
<1>1. countCommit(n, d) /\ endRound(n, d) /\ UNCHANGED request
  BY DEF handleCommitBlock, countCommit
<1>2. chain' = [chain EXCEPT ![n] = AddBlock(chain[n], d)]
  BY DEF handleCommitBlock
<1>3. \A x \in Nodes \ {n} : chain'[x] = chain[x]
  BY <1>2 DEF TypeOK, ConsensusType
<1>4. chain'[n] = AddBlock(chain[n], d)
  BY <1>2 DEF TypeOK, ConsensusType
<1>5. d \in live /\ request[d].seq >= sequenceID[n]
  BY <1>1, CommitFacts
<1>6. Len(request) \in Nat /\ Node0 \in Nodes /\ view[n] = Node0
  BY LiveFacts
<1>7. NumberedChains'
  <2>1. /\ Len(chain'[n]) <= Len(request)
        /\ \A i \in 1 .. Len(chain'[n]) : chain'[n][i] = i
    <3>1. CASE AddBlock(chain[n], d) = chain[n]
      BY <1>4, <3>1 DEF NumberedChains
    <3>2. CASE AddBlock(chain[n], d) = Append(chain[n], d) /\ d = Len(chain[n]) + 1
      BY <1>4, <1>6, <3>2, AddNext DEF NumberedChains
    <3> QED
      BY <3>1, <3>2, AddNext
  <2> QED
    BY <1>1, <1>3, <2>1 DEF NumberedChains
<1>8. CASE n = Node0
  <2>1. sequenceLock[n] /\ chain'[n] = Append(chain[n], d)
    BY <1>4, <1>5, <1>8, LeaderCommits
  <2>2. Len(chain'[n]) = Len(chain[n]) + 1 /\ Len(chain[n]) \in Nat
    BY <2>1, AddNext
  <2>3. Len(request) = Len(chain[n]) + 1
    BY <1>8, <2>1, <2>2 DEF LockIffOutstanding
  <2>4. ~sequenceLock'[n]
    BY <1>1, <1>6, <1>8 DEF endRound, TypeOK, LockType
  <2>5. LockIffOutstanding'
    BY <1>1, <1>8, <2>2, <2>3, <2>4 DEF LockIffOutstanding
  <2> QED
    BY <1>7, <2>5
<1>9. CASE n # Node0
  <2>1. UNCHANGED sequenceLock
    BY <1>1, <1>6, <1>9 DEF endRound
  <2>2. LockIffOutstanding'
    BY <1>1, <1>3, <1>6, <1>9, <2>1 DEF LockIffOutstanding
  <2> QED
    BY <1>7, <2>2
<1> QED
  BY <1>8, <1>9

LEMMA NextNumbered ==
  ASSUME MaxTimeouts = 0, MaxRestarts = 0, TypeOK, LeaderInv, NumberedInv, [Next]_vars
  PROVE  NumberedInv'
<1> DEFINE same == UNCHANGED <<request, chain, sequenceLock>>
<1>0. same => NumberedInv'
  BY DEF NumberedInv, NumberedChains, LockIffOutstanding
<1>1. CASE UNCHANGED vars
  BY <1>0, <1>1 DEF vars, consensusVars, lockVars
<1>2. ~RestartShard
  BY DEF RestartShard, TypeOK, BoundType
<1>3. ASSUME NEW n \in Nodes, BeginRound(n) \/ SetPrepareStage(n) \/ resetStage(n)
      PROVE  same
  BY <1>3 DEF BeginRound, SetPrepareStage, resetStage, consensusVars, lockVars
<1>4. ASSUME NEW n \in Nodes, NEW d \in 1 .. Len(request),
             \/ handlePrePrepare(n, d) \/ handlePrepare(n, d)
             \/ refusePrepare(n, d) \/ handleCommitCount(n, d)
      PROVE  same
  BY <1>4 DEF handlePrePrepare, handlePrepare, refusePrepare,
              handleCommitCount, countCommit, consensusVars, lockVars
<1>5. ASSUME NEW n \in Nodes, NEW d \in 1 .. Len(request), handleCommitAsk(n, d)
      PROVE  same
  <2>1. countCommit(n, d) /\ d \notin requestPool[n] /\ endRound(n, d)
        /\ UNCHANGED <<request, chain>>
    BY <1>5 DEF handleCommitAsk, countCommit
  <2>2. n # Node0
    BY <2>1, CommitFacts DEF live
  <2>3. view[n] = Node0
    BY LiveFacts
  <2> QED
    BY <2>1, <2>2, <2>3 DEF endRound
<1>6. ASSUME NEW n \in Nodes, NEW m \in requestOldNet, handleRequestOldSeq(n, m)
      PROVE  same
  BY <1>6 DEF handleRequestOldSeq, consensusVars, lockVars
<1>7. ASSUME NEW n \in Nodes, NEW m \in sendOldNet, handleSendOldSeq(n, m)
      PROVE  same
  BY <1>7 DEF handleSendOldSeq, consensusVars, lockVars
<1>8. ASSUME NEW n \in Nodes, applyOldRequest(n) \/ endSendOldSeq(n) PROVE same
  BY <1>8, OldAddsNothing DEF applyOldRequest, endSendOldSeq, lockVars
<1> HIDE DEF same
<1>9. CASE Next
  BY <1>0, <1>2, <1>3, <1>4, <1>5, <1>6, <1>7, <1>8, <1>9, NextCases, ViewStays,
     ProposeNumbered, CommitBlockNumbered
<1> QED
  BY <1>1, <1>9

\* In a shard whose view change timeout never expires and that is not
\* restarted, the requests are numbered 1, 2, 3, ... and every chain is a
\* prefix of them.
THEOREM StableShard ==
  ASSUME MaxTimeouts = 0, MaxRestarts = 0
  PROVE  Spec => []StableInv
<1>1. Init => NumberedInv
  BY ConstantsAssumption
  DEF Init, NumberedInv, NumberedChains, LockIffOutstanding, AllFalse
<1>2. TypeOK /\ LeaderInv /\ NumberedInv /\ [Next]_vars => NumberedInv'
  BY NextNumbered
<1>3. LeaderInv /\ NumberedInv => StableInv
  BY DEF NumberedInv, StableInv
<1> QED
  BY <1>1, <1>2, <1>3, TypeCorrect, LeaderStays, PTL DEF Spec

\* "all node in the shard maintain the same blockchain": without a view change
\* and without a restart no two chains differ at a height both have.
THEOREM ChainsAgree ==
  ASSUME MaxTimeouts = 0, MaxRestarts = 0
  PROVE  Spec => []Agreement
<1>1. StableInv => Agreement
  BY DEF StableInv, NumberedChains, Agreement
<1> QED
  BY <1>1, StableShard, PTL

\* The leader proposes one request at a time: it holds sequenceLock exactly
\* while its last request is not in its chain, whatever the stage monitor does.
THEOREM OneOutstanding ==
  ASSUME MaxTimeouts = 0, MaxRestarts = 0
  PROVE  Spec => []LockIffOutstanding
<1>1. StableInv => LockIffOutstanding
  BY DEF StableInv
<1> QED
  BY <1>1, StableShard, PTL

-----------------------------------------------------------------------------
(***************************************************************************)
(* The refinement of ShardLedger: request d is entry d of the log.         *)
(***************************************************************************)

requestLog == [d \in 1 .. Len(request) |-> d]

LEMMA LogIsSequence ==
  ASSUME TypeOK
  PROVE  /\ requestLog \in Seq(Nat) /\ Len(requestLog) = Len(request)
         /\ \A d \in 1 .. Len(request) : requestLog[d] = d
<1>1. Len(request) \in Nat
  BY DEF TypeOK, ConsensusType
<1> QED
  BY <1>1 DEF requestLog

\* A proposal extends the log on top of the leader's chain.
LEMMA ProposeExtends ==
  ASSUME TypeOK, StableInv, NEW n \in Nodes, Propose(n)
  PROVE  Ledger!Extend
<1>1. n = Node0 /\ ~sequenceLock[n] /\ UNCHANGED chain
  BY DEF Propose, StableInv, LeaderInv, FirstView
<1>2. Len(request) \in Nat /\ chain[n] \in Seq(Digests) /\ Len(chain[n]) \in Nat
  BY DEF TypeOK, ConsensusType
<1>3. Len(chain[n]) = Len(request)
  BY <1>1, <1>2 DEF StableInv, LockIffOutstanding
<1>4. \A i \in 1 .. Len(chain[n]) : chain[n][i] = i
  BY DEF StableInv, NumberedChains
<1>5. chain[n] = requestLog
  BY <1>2, <1>3, <1>4, LogIsSequence DEF requestLog
<1>6. Len(request) + 1 \in Digests /\ Len(request') = Len(request) + 1
  BY <1>2 DEF Propose, TypeOK, ConsensusType
<1>7. requestLog' = Append(requestLog, Len(request) + 1)
  <2>1. requestLog' = [d \in 1 .. Len(request) + 1 |-> d]
    BY <1>6 DEF requestLog
  <2>2. DOMAIN Append(requestLog, Len(request) + 1) = 1 .. Len(request) + 1
    BY <1>2, LogIsSequence
  <2>3. \A d \in 1 .. Len(request) + 1 :
          Append(requestLog, Len(request) + 1)[d] = d
    BY <1>2, LogIsSequence
  <2>4. Append(requestLog, Len(request) + 1) =
          [d \in 1 .. Len(request) + 1 |->
             Append(requestLog, Len(request) + 1)[d]]
    BY <1>2, <2>2, LogIsSequence
  <2> QED
    BY <2>1, <2>3, <2>4
<1> QED
  BY <1>1, <1>5, <1>6, <1>7 DEF Ledger!Extend, requestLog

\* A commit applies the next entry of the log, or adds nothing.
LEMMA CommitApplies ==
  ASSUME TypeOK, StableInv, NEW n \in Nodes, NEW d \in 1 .. Len(request),
         handleCommitBlock(n, d)
  PROVE  Ledger!Apply(n) \/ UNCHANGED <<request, chain>>
<1>0. LeaderInv /\ NumberedInv
  BY DEF StableInv, NumberedInv
<1>1. UNCHANGED request
  BY DEF handleCommitBlock, countCommit
<1>2. chain' = [chain EXCEPT ![n] = AddBlock(chain[n], d)]
  BY DEF handleCommitBlock
<1>3. CASE AddBlock(chain[n], d) = chain[n]
  BY <1>1, <1>2, <1>3 DEF TypeOK, ConsensusType
<1>4. CASE AddBlock(chain[n], d) = Append(chain[n], d) /\ d = Len(chain[n]) + 1
  <2>1. requestLog[Len(chain[n]) + 1] = d
    BY <1>4, LogIsSequence
  <2>2. Len(chain[n]) < Len(requestLog)
    BY <1>0, <1>4, LogIsSequence
  <2>3. chain' = [chain EXCEPT ![n] = Append(@, requestLog[Len(@) + 1])]
    BY <1>2, <1>4, <2>1
  <2>4. UNCHANGED requestLog
    BY <1>1 DEF requestLog
  <2> QED
    BY <2>2, <2>3, <2>4 DEF Ledger!Apply, requestLog
<1> QED
  BY <1>0, <1>3, <1>4, AddNext

LEMMA NextLedger ==
  ASSUME MaxTimeouts = 0, MaxRestarts = 0, TypeOK, StableInv, [Next]_vars
  PROVE  [Ledger!Next]_Ledger!vars
<1> DEFINE same == UNCHANGED <<request, chain>>
<1>0. same => UNCHANGED Ledger!vars
  BY DEF Ledger!vars
<1>1. CASE UNCHANGED vars
  BY <1>0, <1>1 DEF vars, consensusVars
<1>2. ~RestartShard
  BY DEF RestartShard, TypeOK, BoundType
<1>3. ASSUME NEW n \in Nodes, BeginRound(n) \/ SetPrepareStage(n) \/ resetStage(n)
      PROVE  same
  BY <1>3 DEF BeginRound, SetPrepareStage, resetStage, consensusVars
<1>4. ASSUME NEW n \in Nodes, Propose(n) PROVE Ledger!Next
  BY <1>4, ProposeExtends DEF Ledger!Next
<1>5. ASSUME NEW n \in Nodes, NEW d \in 1 .. Len(request),
             \/ handlePrePrepare(n, d) \/ handlePrepare(n, d)
             \/ refusePrepare(n, d) \/ handleCommitCount(n, d)
             \/ handleCommitAsk(n, d)
      PROVE  same
  BY <1>5 DEF handlePrePrepare, handlePrepare, refusePrepare,
              handleCommitCount, handleCommitAsk, countCommit, consensusVars
<1>6. ASSUME NEW n \in Nodes, NEW d \in 1 .. Len(request), handleCommitBlock(n, d)
      PROVE  Ledger!Next \/ same
  BY <1>6, CommitApplies DEF Ledger!Next
<1>7. ASSUME NEW n \in Nodes, NEW m \in requestOldNet, handleRequestOldSeq(n, m)
      PROVE  same
  BY <1>7 DEF handleRequestOldSeq, consensusVars
<1>8. ASSUME NEW n \in Nodes, NEW m \in sendOldNet, handleSendOldSeq(n, m)
      PROVE  same
  BY <1>8 DEF handleSendOldSeq, consensusVars
<1>9. ASSUME NEW n \in Nodes, applyOldRequest(n) \/ endSendOldSeq(n) PROVE same
  BY <1>9, OldAddsNothing DEF applyOldRequest, endSendOldSeq, StableInv
<1> HIDE DEF same
<1>10. CASE Next
  BY <1>0, <1>2, <1>3, <1>4, <1>5, <1>6, <1>7, <1>8, <1>9, <1>10, NextCases,
     ViewStays DEF StableInv
<1> QED
  BY <1>1, <1>10

\* The shard implements the replicated log of ShardLedger: every step of a
\* node extends the log on top of a complete chain, lets one node apply its
\* next entry, or changes neither.
THEOREM ShardImplementsLedger ==
  ASSUME MaxTimeouts = 0, MaxRestarts = 0
  PROVE  Spec => LedgerSpec
<1>1. Init => Ledger!Init
  BY DEF Init, Ledger!Init
<1>2. TypeOK /\ StableInv /\ [Next]_vars => [Ledger!Next]_Ledger!vars
  BY NextLedger
<1> QED
  BY <1>1, <1>2, TypeCorrect, StableShard, PTL DEF Spec, LedgerSpec, Ledger!Spec

=============================================================================
