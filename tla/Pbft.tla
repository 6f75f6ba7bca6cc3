------------------------------- MODULE Pbft -------------------------------
(***************************************************************************)
(* One shard of consensus nodes running the PBFT of                        *)
(* consensus_shard/pbft_all: the proposer goroutine and the message        *)
(* handlers of messageHandle.go, the view change of view_change.go, the    *)
(* stage monitor, and the restart of the shard from its stored chains.     *)
(*                                                                         *)
(* A request is named by its digest, a number 1, 2, 3, ... in the order of *)
(* proposal: getDigest hashes the proposal time, so no two proposals have  *)
(* the same digest.  request[d] records what the code reads of request d:  *)
(* the SeqID of its PrePrepare, and the number and parent of its block.    *)
(* Every message about d carries the SeqID request[d].seq.                 *)
(*                                                                         *)
(* Every PrePrepare, Prepare and Commit is handled by a goroutine of its   *)
(* own that waits on a condition variable until the node's stage allows    *)
(* it.  A message is in one of the Net variables until its goroutine gets  *)
(* past that wait; the code after the wait is one step, it runs under      *)
(* pbftLock.  A message found out of date is dropped by the code with no   *)
(* other effect; here it stays in the network, like one delayed for ever.  *)
(* The maps of confirmations have *shard.Node pointers as keys and every   *)
(* decoded message has a fresh one, so they count messages, not senders:   *)
(* the counters of the model are numbers.                                  *)
(***************************************************************************)
EXTENDS Naturals, Sequences, FiniteSets

CONSTANTS
  Nodes,         \* the nodes of the shard
  Node0,         \* the node with NodeID 0
  Succ,          \* the node with the next NodeID, modulo node_nums
  MaxProposals,  \* bound on the number of requests ever proposed
  MaxQueued,     \* bound on a node's proposer goroutines before sequenceLock
  MaxTimeouts,   \* bound on the view change timeouts of each node
  MaxResets,     \* bound on the stage resets by each node's monitor
  Impatient,     \* the nodes whose view change timeout may expire
  MaxRestarts    \* bound on the restarts of the whole shard

\* node_nums
N == Cardinality(Nodes)

Digests == 1 .. MaxProposals

ASSUME ConstantsAssumption ==
  /\ IsFiniteSet(Nodes) /\ Node0 \in Nodes /\ Succ \in [Nodes -> Nodes]
  /\ MaxProposals \in Nat /\ MaxQueued \in Nat
  /\ MaxTimeouts \in Nat /\ MaxResets \in Nat /\ MaxRestarts \in Nat
  /\ Impatient \subseteq Nodes

\* malicious_nums
f == (N - 1) \div 3

Quorum == 2 * f + 1

VARIABLES
  request,           \* the requests proposed so far, by digest
  view, sequenceID, pbftStage,
  chain,             \* CurChain, the digests of the blocks after the genesis
  requestPool,       \* the digests in the pool
  height2Digest,     \* the range of the map; a digest's key is its seq
  cntPrepareConfirm, cntCommitConfirm,
  isCommitBordcast, isReply,
  sequenceLock, askForLock,
  viewChangeMap, newViewMap,
  queued,            \* proposer goroutines past the leader check
  broadcasted,       \* proposer goroutines before pbftStage.Store(2)
  applying,          \* the SendOld message handleSendOldSeq is working on
  crashed,           \* the node died of an Unlock of an unlocked mutex
  prePrepareNet, prepareNet, commitNet,
  requestOldNet, sendOldNet, viewChangeNet, newViewNet,
  timeouts, resets, restarts,  \* how often the bounded events happened
  commitSenders      \* history: the nodes that ever sent a Commit of a digest

consensusVars == <<request, view, sequenceID, pbftStage, chain>>
mapVars  == <<requestPool, height2Digest, cntPrepareConfirm,
              cntCommitConfirm, isCommitBordcast, isReply>>
lockVars == <<sequenceLock, askForLock, crashed>>
viewVars == <<viewChangeMap, newViewMap, viewChangeNet, newViewNet>>
propVars == <<queued, broadcasted>>
oldVars  == <<applying, requestOldNet, sendOldNet>>
netVars  == <<prePrepareNet, prepareNet, commitNet>>
boundVars == <<timeouts, resets, restarts, commitSenders>>

vars == <<consensusVars, mapVars, lockVars, viewVars, propVars, oldVars,
          netVars, boundVars>>

-----------------------------------------------------------------------------

(***************************************************************************)
(* The chain of a node.                                                    *)
(***************************************************************************)

\* The current block; 0 is the genesis block every node starts from.
CurrentBlock(c) == IF c = <<>> THEN 0 ELSE c[Len(c)]

\* Mutant of AddBlock: the number and the parent are not compared.
AddBlockUnchecked(c, d) == Append(c, d)

\* BlockChain.AddBlock: the number and the parent must fit, or it returns
\* without a word to its caller.
AddBlock(c, d) ==
  IF /\ request[d].num = Len(c) + 1
     /\ request[d].parent = CurrentBlock(c)
  THEN Append(c, d)
  ELSE c

\* HandleinPrePrepare of a block request: IsValidBlock looks at the parent
\* hash only (the transaction root of a block an honest leader made is right).
HandleinPrePrepare(n, d) == request[d].parent = CurrentBlock(chain[n])

\* height2Digest[SeqID of d] = d: the entry of the same height is replaced.
PutHeight(ds, d) == {e \in ds : request[e].seq # request[d].seq} \cup {d}

\* Mutant of Reached: waits one stage too long.
ReachedLate(n, d, stage) ==
  /\ ~crashed[n]
  /\ request[d].seq >= sequenceID[n]
  /\ pbftStage[n] > stage

\* The wait loop of the handlers: a message that is not out of date waits
\* until the stage is reached.
Reached(n, d, stage) ==
  /\ ~crashed[n]
  /\ request[d].seq >= sequenceID[n]
  /\ pbftStage[n] >= stage

\* networks.Broadcast to the neighbours and TcpDial to the node itself.
ToAll(net, d) == [m \in Nodes |-> [net[m] EXCEPT ![d] = @ + 1]]

\* networks.Broadcast alone, which leaves out the sender.
ToOthers(net, n, ds) ==
  [m \in Nodes |-> [d \in Digests |->
     IF m # n /\ d \in ds THEN net[m][d] + 1 ELSE net[m][d]]]

-----------------------------------------------------------------------------
(***************************************************************************)
(* The proposer.                                                           *)
(***************************************************************************)

\* The ticker saw stage 1 and signalled; the goroutine started for the signal
\* checks that this node is the leader, before it takes sequenceLock.
BeginRound(n) ==
  /\ ~crashed[n]
  /\ pbftStage[n] = 1
  /\ view[n] = n
  /\ queued[n] < MaxQueued /\ Len(request) < MaxProposals
  /\ queued' = [queued EXCEPT ![n] = @ + 1]
  /\ UNCHANGED <<consensusVars, mapVars, lockVars, viewVars, broadcasted,
                 oldVars, netVars, boundVars>>

\* It gets sequenceLock, makes a block on top of its current one and sends
\* the PrePrepare to every node, itself included.
Propose(n) ==
  LET d == Len(request) + 1
      r == [seq    |-> sequenceID[n],
            num    |-> Len(chain[n]) + 1,
            parent |-> CurrentBlock(chain[n])]
  IN /\ ~crashed[n]
     /\ queued[n] > 0
     /\ ~sequenceLock[n]
     /\ d \in Digests
     /\ sequenceLock' = [sequenceLock EXCEPT ![n] = TRUE]
     /\ request' = Append(request, r)
     /\ requestPool' = [requestPool EXCEPT ![n] = @ \cup {d}]
     /\ height2Digest' = [height2Digest EXCEPT
          ![n] = {e \in @ : request[e].seq # r.seq} \cup {d}]
     /\ prePrepareNet' = [m \in Nodes |-> prePrepareNet[m] \cup {d}]
     /\ queued' = [queued EXCEPT ![n] = @ - 1]
     /\ broadcasted' = [broadcasted EXCEPT ![n] = @ + 1]
     /\ UNCHANGED <<view, sequenceID, pbftStage, chain, cntPrepareConfirm,
                    cntCommitConfirm, isCommitBordcast, isReply, askForLock,
                    crashed, viewVars, oldVars, prepareNet, commitNet,
                    boundVars>>

\* Mutant of SetPrepareStage: done without a proposal.
SetPrepareStageAnytime(n) ==
  /\ ~crashed[n]
  /\ broadcasted' = [broadcasted EXCEPT ![n] = @ - 1]
  /\ pbftStage' = [pbftStage EXCEPT ![n] = 2]
  /\ UNCHANGED <<request, view, sequenceID, chain, mapVars, lockVars, viewVars,
                 queued, oldVars, netVars, boundVars>>

\* Its last statement, pbftStage.Store(2): no lock is held, and the handlers
\* may have worked on the PrePrepare since it was sent.
SetPrepareStage(n) ==
  /\ ~crashed[n]
  /\ broadcasted[n] > 0
  /\ broadcasted' = [broadcasted EXCEPT ![n] = @ - 1]
  /\ pbftStage' = [pbftStage EXCEPT ![n] = 2]
  /\ UNCHANGED <<request, view, sequenceID, chain, mapVars, lockVars, viewVars,
                 queued, oldVars, netVars, boundVars>>

-----------------------------------------------------------------------------
(***************************************************************************)
(* The three phases.                                                       *)
(***************************************************************************)

\* handlePrePrepare.  A request ahead of this node's sequence, and one that
\* is not valid here, is kept in the pool but not prepared.
handlePrePrepare(n, d) ==
  /\ d \in prePrepareNet[n]
  /\ Reached(n, d, 1)
  /\ prePrepareNet' = [prePrepareNet EXCEPT ![n] = @ \ {d}]
  /\ requestPool' = [requestPool EXCEPT ![n] = @ \cup {d}]
  /\ height2Digest' = [height2Digest EXCEPT ![n] = PutHeight(@, d)]
  /\ IF request[d].seq = sequenceID[n] /\ HandleinPrePrepare(n, d)
     THEN /\ prepareNet' = ToAll(prepareNet, d)
          /\ pbftStage' = [pbftStage EXCEPT ![n] = @ + 1]
     ELSE UNCHANGED <<prepareNet, pbftStage>>
  /\ UNCHANGED <<request, view, sequenceID, chain, cntPrepareConfirm,
                 cntCommitConfirm, isCommitBordcast, isReply, lockVars,
                 viewVars, propVars, oldVars, commitNet, boundVars>>

\* handlePrepare counts a confirmation of a pooled request of the current
\* sequence; with a quorum of them the node sends its Commit, once.  The
\* counter is not read again after that, so it is not counted on.
handlePrepare(n, d) ==
  /\ prepareNet[n][d] > 0
  /\ Reached(n, d, 2)
  /\ prepareNet' = [prepareNet EXCEPT ![n][d] = @ - 1]
  /\ d \in requestPool[n]
  /\ d \notin isCommitBordcast[n]
  /\ request[d].seq = sequenceID[n]
  /\ cntPrepareConfirm' = [cntPrepareConfirm EXCEPT ![n][d] = @ + 1]
  /\ IF cntPrepareConfirm[n][d] + 1 >= Quorum
     THEN /\ commitNet' = ToAll(commitNet, d)
          /\ isCommitBordcast' = [isCommitBordcast EXCEPT ![n] = @ \cup {d}]
          /\ commitSenders' = [commitSenders EXCEPT ![d] = @ \cup {n}]
          /\ pbftStage' = [pbftStage EXCEPT ![n] = @ + 1]
     ELSE UNCHANGED <<commitNet, isCommitBordcast, commitSenders, pbftStage>>
  /\ UNCHANGED <<request, view, sequenceID, chain, requestPool, height2Digest,
                 cntCommitConfirm, isReply, lockVars, viewVars, propVars,
                 oldVars, prePrepareNet, timeouts, resets, restarts>>

\* handlePrepare refuses a request that is not in the pool or ahead of this
\* node's sequence: the confirmation is not counted, then or later.
refusePrepare(n, d) ==
  /\ prepareNet[n][d] > 0
  /\ Reached(n, d, 2)
  /\ d \notin requestPool[n] \/ request[d].seq > sequenceID[n]
  /\ prepareNet' = [prepareNet EXCEPT ![n][d] = @ - 1]
  /\ UNCHANGED <<consensusVars, mapVars, lockVars, viewVars, propVars, oldVars,
                 prePrepareNet, commitNet, boundVars>>

\* The common part of handleCommit: the confirmation is counted, as long as
\* the counter is read (isReply is not set).
countCommit(n, d) ==
  /\ commitNet[n][d] > 0
  /\ Reached(n, d, 3)
  /\ d \notin isReply[n]
  /\ commitNet' = [commitNet EXCEPT ![n][d] = @ - 1]
  /\ cntCommitConfirm' = [cntCommitConfirm EXCEPT ![n][d] = @ + 1]
  /\ UNCHANGED <<request, view, requestPool, height2Digest, cntPrepareConfirm,
                 isCommitBordcast, viewVars, propVars, applying, sendOldNet,
                 prePrepareNet, prepareNet, boundVars>>

\* Mutant of HasCommitQuorum: one confirmation too few.
HasCommitQuorum2f(n, d) == cntCommitConfirm[n][d] + 1 >= 2 * f

\* The confirmations of d, with the one being counted, are enough.
HasCommitQuorum(n, d) == cntCommitConfirm[n][d] + 1 >= Quorum

\* Mutants of endRound: every node unlocks; nobody does.
endRoundEveryone(n, d) ==
  /\ isReply' = [isReply EXCEPT ![n] = @ \cup {d}]
  /\ pbftStage' = [pbftStage EXCEPT ![n] = 1]
  /\ sequenceLock' = [sequenceLock EXCEPT ![n] = FALSE]
  /\ crashed' = [crashed EXCEPT ![n] = ~sequenceLock[n]]

endRoundNoUnlock(n, d) ==
  /\ isReply' = [isReply EXCEPT ![n] = @ \cup {d}]
  /\ pbftStage' = [pbftStage EXCEPT ![n] = 1]
  /\ UNCHANGED <<sequenceLock, crashed>>

\* The end of a round in handleCommit.  The leader unlocks sequenceLock; Go
\* stops the process when the mutex is not locked.
endRound(n, d) ==
  /\ isReply' = [isReply EXCEPT ![n] = @ \cup {d}]
  /\ pbftStage' = [pbftStage EXCEPT ![n] = 1]
  /\ IF view[n] = n
     THEN /\ sequenceLock' = [sequenceLock EXCEPT ![n] = FALSE]
          /\ crashed' = [crashed EXCEPT ![n] = ~sequenceLock[n]]
     ELSE UNCHANGED <<sequenceLock, crashed>>

handleCommitCount(n, d) ==
  /\ countCommit(n, d)
  /\ ~HasCommitQuorum(n, d)
  /\ UNCHANGED <<sequenceID, pbftStage, chain, isReply, lockVars,
                 requestOldNet>>

\* Mutant of nextSequence: the sequence number is not increased.
sameSequence(seqID) == seqID

\* The sequence number after a round.
nextSequence(seqID) == seqID + 1

\* A quorum for a request in the pool: HandleinCommit adds the block (when it
\* fits), and the sequence goes on.
handleCommitBlock(n, d) ==
  /\ countCommit(n, d)
  /\ HasCommitQuorum(n, d)
  /\ d \in requestPool[n]
  /\ chain' = [chain EXCEPT ![n] = AddBlock(@, d)]
  /\ sequenceID' = [sequenceID EXCEPT ![n] = nextSequence(@)]
  /\ endRound(n, d)
  /\ UNCHANGED <<askForLock, requestOldNet>>

\* A quorum for a request this node does not have: it is left behind, and asks
\* the leader of its view, once it has askForLock.
handleCommitAsk(n, d) ==
  /\ countCommit(n, d)
  /\ HasCommitQuorum(n, d)
  /\ d \notin requestPool[n]
  /\ ~askForLock[n]
  /\ askForLock' = [askForLock EXCEPT ![n] = TRUE]
  /\ requestOldNet' = requestOldNet \cup
       {[to |-> view[n], from |-> n,
         start |-> sequenceID[n] + 1, end |-> request[d].seq]}
  /\ endRound(n, d)
  /\ UNCHANGED <<sequenceID, chain>>

-----------------------------------------------------------------------------
(***************************************************************************)
(* Catching up.  These two handlers, and the ones of the view change, run  *)
(* in the goroutine that reads the connection, without pbftLock.           *)
(***************************************************************************)

\* What the server has at a height: no digest, or one.
AtHeight(n, h) == {d \in height2Digest[n] : request[d].seq = h} \cap requestPool[n]

\* What the server collects for the heights from start to end: the requests
\* of consecutive heights, up to the first one it does not have.
IsOldRequest(n, start, end, oldR) ==
  LET k == Len(oldR)
  IN /\ \A i \in 1 .. k : oldR[i] \in AtHeight(n, start + i - 1)
     /\ k < end + 1 - start => AtHeight(n, start + k) = {}

\* Mutant of handleRequestOldSeq: the request is never answered.
handleRequestOldSeqIgnored(n, m) ==
  /\ ~crashed[n]
  /\ m \in requestOldNet /\ m.to = n
  /\ requestOldNet' = requestOldNet \ {m}
  /\ UNCHANGED <<consensusVars, mapVars, lockVars, viewVars, propVars, applying,
                 sendOldNet, netVars, boundVars>>

\* handleRequestOldSeq: only a node that leads in its own view answers.
handleRequestOldSeq(n, m) ==
  /\ ~crashed[n]
  /\ m \in requestOldNet /\ m.to = n
  /\ requestOldNet' = requestOldNet \ {m}
  /\ IF view[n] # n
     THEN UNCHANGED sendOldNet
     ELSE \E k \in 0 .. m.end + 1 - m.start :
          \E oldR \in [1 .. k -> requestPool[n]] :
            /\ IsOldRequest(n, m.start, m.end, oldR)
            /\ sendOldNet' = sendOldNet \cup
                 {[to |-> m.from, start |-> m.start, end |-> m.end,
                   oldRequest |-> oldR]}
  /\ UNCHANGED <<consensusVars, mapVars, lockVars, viewVars, propVars, applying,
                 netVars, boundVars>>

\* handleSendOldSeq enters HandleforSequentialRequest, which adds the blocks
\* only when as many came as were asked for.
handleSendOldSeq(n, m) ==
  /\ ~crashed[n]
  /\ m \in sendOldNet /\ m.to = n
  /\ ~applying[n].busy
  /\ sendOldNet' = sendOldNet \ {m}
  /\ applying' = [applying EXCEPT ![n] =
       [busy |-> TRUE, start |-> m.start, end |-> m.end,
        oldRequest |-> m.oldRequest,
        next |-> IF m.end + 1 - m.start = Len(m.oldRequest)
                 THEN 1 ELSE Len(m.oldRequest) + 1]]
  /\ UNCHANGED <<consensusVars, mapVars, lockVars, viewVars, propVars,
                 requestOldNet, netVars, boundVars>>

\* One turn of its loop.
applyOldRequest(n) ==
  LET a == applying[n]
  IN /\ ~crashed[n]
     /\ a.busy
     /\ a.next <= Len(a.oldRequest)
     /\ chain' = [chain EXCEPT ![n] = AddBlock(@, a.oldRequest[a.next])]
     /\ applying' = [applying EXCEPT ![n].next = @ + 1]
     /\ UNCHANGED <<request, view, sequenceID, pbftStage, mapVars, lockVars,
                    viewVars, propVars, requestOldNet, sendOldNet, netVars,
                    boundVars>>

NoOldRequest ==
  [busy |-> FALSE, start |-> 0, end |-> 0, oldRequest |-> <<>>, next |-> 1]

\* The rest of handleSendOldSeq: the requests count as replied, the sequence
\* moves past the range whatever was added, and a request already pooled for
\* the new sequence is prepared (the Prepare goes to the other nodes only).
endSendOldSeq(n) ==
  LET a    == applying[n]
      olds == {a.oldRequest[i] : i \in 1 .. Len(a.oldRequest)}
      pool == requestPool[n] \cup olds
      h2d  == {e \in height2Digest[n] :
                 \A o \in olds : request[e].seq # request[o].seq} \cup olds
      next == {d \in h2d \cap pool :
                 request[d].seq = a.end + 1 /\ HandleinPrePrepare(n, d)}
  IN /\ ~crashed[n]
     /\ a.busy
     /\ a.next > Len(a.oldRequest)
     /\ applying' = [applying EXCEPT ![n] = NoOldRequest]
     /\ requestPool' = [requestPool EXCEPT ![n] = pool]
     /\ height2Digest' = [height2Digest EXCEPT ![n] = h2d]
     /\ isReply' = [isReply EXCEPT ![n] = @ \cup olds]
     /\ sequenceID' = [sequenceID EXCEPT ![n] = a.end + 1]
     /\ prepareNet' = ToOthers(prepareNet, n, next)
     /\ askForLock' = [askForLock EXCEPT ![n] = FALSE]
     /\ crashed' = [crashed EXCEPT ![n] = ~askForLock[n]]
     /\ UNCHANGED <<request, view, pbftStage, chain, cntPrepareConfirm,
                    cntCommitConfirm, isCommitBordcast, sequenceLock, viewVars,
                    propVars, requestOldNet, sendOldNet, prePrepareNet,
                    commitNet, boundVars>>

-----------------------------------------------------------------------------
(***************************************************************************)
(* The view change.                                                        *)
(***************************************************************************)

\* The messages of a map for the same ViewChangeData as m, one per FromNode.
SameData(msgs, m) ==
  {x \in msgs : x.nextView = m.nextView /\ x.seqID = m.seqID}

\* Mutant of EnoughFor: f+1 messages or more.
EnoughForWeak(msgs, m) == Cardinality(SameData(msgs, m)) >= f + 1

\* Mutant of EnoughFor: the messages are not counted.
EnoughForAny(msgs, m) == TRUE

\* Exactly 2f+1 nodes have sent what m says.
EnoughFor(msgs, m) == Cardinality(SameData(msgs, m)) = Quorum

\* The ViewChange or NewView message node n would send now.
NextViewMsg(n) ==
  [nextView |-> Succ[view[n]], seqID |-> sequenceID[n], fromNode |-> n]

\* The monitor found no commit for PbftViewChangeTimeOut: viewChangePropose.
viewChangePropose(n) ==
  /\ ~crashed[n]
  /\ n \in Impatient /\ timeouts[n] < MaxTimeouts
  /\ timeouts' = [timeouts EXCEPT ![n] = @ + 1]
  /\ pbftStage' = [pbftStage EXCEPT ![n] = 5]
  /\ viewChangeNet' = [m \in Nodes |-> viewChangeNet[m] \cup {NextViewMsg(n)}]
  /\ UNCHANGED <<request, view, sequenceID, chain, mapVars, lockVars,
                 viewChangeMap, newViewMap, newViewNet, propVars, oldVars,
                 netVars, resets, restarts, commitSenders>>

\* handleViewChangeMsg: with exactly 2f+1 of them, a NewView with this node's
\* own next view and sequence goes to everyone.
handleViewChangeMsg(n, m) ==
  LET vcs == viewChangeMap[n] \cup {m}
  IN /\ ~crashed[n]
     /\ m \in viewChangeNet[n]
     /\ viewChangeNet' = [viewChangeNet EXCEPT ![n] = @ \ {m}]
     /\ viewChangeMap' = [viewChangeMap EXCEPT ![n] = vcs]
     /\ IF EnoughFor(vcs, m)
        THEN newViewNet' = [x \in Nodes |-> newViewNet[x] \cup {NextViewMsg(n)}]
        ELSE UNCHANGED newViewNet
     /\ UNCHANGED <<consensusVars, mapVars, lockVars, newViewMap, propVars,
                    oldVars, netVars, boundVars>>

\* handleNewViewMsg: with exactly 2f+1 of them, the node enters the view and
\* takes over its sequence number.
handleNewViewMsg(n, m) ==
  LET nvs == newViewMap[n] \cup {m}
  IN /\ ~crashed[n]
     /\ m \in newViewNet[n]
     /\ newViewNet' = [newViewNet EXCEPT ![n] = @ \ {m}]
     /\ newViewMap' = [newViewMap EXCEPT ![n] = nvs]
     /\ IF EnoughFor(nvs, m)
        THEN /\ view' = [view EXCEPT ![n] = m.nextView]
             /\ sequenceID' = [sequenceID EXCEPT ![n] = m.seqID]
             /\ pbftStage' = [pbftStage EXCEPT ![n] = 1]
        ELSE UNCHANGED <<view, sequenceID, pbftStage>>
     /\ UNCHANGED <<request, chain, mapVars, lockVars, viewChangeMap,
                    viewChangeNet, propVars, oldVars, netVars, boundVars>>

-----------------------------------------------------------------------------
(***************************************************************************)
(* The monitor and the restart of a node.                                  *)
(***************************************************************************)

\* The monitor saw the same stage for 30 s while a partition is pending and
\* puts the node back to stage 1.  It does not touch sequenceLock: the test
\* around the Unlock compares with the time it has just reset.
resetStage(n) ==
  /\ ~crashed[n]
  /\ pbftStage[n] # 1
  /\ resets[n] < MaxResets
  /\ resets' = [resets EXCEPT ![n] = @ + 1]
  /\ pbftStage' = [pbftStage EXCEPT ![n] = 1]
  /\ UNCHANGED <<request, view, sequenceID, chain, mapVars, lockVars, viewVars,
                 propVars, oldVars, netVars, timeouts, restarts, commitSenders>>

-----------------------------------------------------------------------------
(***************************************************************************)
(* Starting the shard.                                                     *)
(***************************************************************************)

NoMessages == [n \in Nodes |-> {}]

ZeroCounts == [n \in Nodes |-> [d \in Digests |-> 0]]

AllFalse == [n \in Nodes |-> FALSE]

AllZero == [n \in Nodes |-> 0]

\* NewPbftNode on every node, with a chain that holds the genesis block only.
Init ==
  /\ request = <<>>
  /\ view = [n \in Nodes |-> Node0]
  /\ sequenceID = [n \in Nodes |-> 1]
  /\ pbftStage = [n \in Nodes |-> 1]
  /\ chain = [n \in Nodes |-> <<>>]
  /\ requestPool = NoMessages /\ height2Digest = NoMessages
  /\ cntPrepareConfirm = ZeroCounts /\ cntCommitConfirm = ZeroCounts
  /\ isCommitBordcast = NoMessages /\ isReply = NoMessages
  /\ sequenceLock = AllFalse /\ askForLock = AllFalse /\ crashed = AllFalse
  /\ viewChangeMap = NoMessages /\ newViewMap = NoMessages
  /\ queued = AllZero /\ broadcasted = AllZero
  /\ applying = [n \in Nodes |-> NoOldRequest]
  /\ prePrepareNet = NoMessages
  /\ prepareNet = ZeroCounts /\ commitNet = ZeroCounts
  /\ requestOldNet = {} /\ sendOldNet = {}
  /\ viewChangeNet = NoMessages /\ newViewNet = NoMessages
  /\ timeouts = AllZero /\ resets = AllZero /\ restarts = 0
  /\ commitSenders = [d \in Digests |-> {}]

\* All the processes end, and with them the messages between them, and
\* NewPbftNode builds every node again from the chain in its storage.
RestartShard ==
  /\ restarts < MaxRestarts
  /\ restarts' = restarts + 1
  /\ view' = [n \in Nodes |-> Node0]
  /\ sequenceID' = [n \in Nodes |-> Len(chain[n]) + 1]
  /\ pbftStage' = [n \in Nodes |-> 1]
  /\ requestPool' = NoMessages /\ height2Digest' = NoMessages
  /\ cntPrepareConfirm' = ZeroCounts /\ cntCommitConfirm' = ZeroCounts
  /\ isCommitBordcast' = NoMessages /\ isReply' = NoMessages
  /\ sequenceLock' = AllFalse /\ askForLock' = AllFalse /\ crashed' = AllFalse
  /\ viewChangeMap' = NoMessages /\ newViewMap' = NoMessages
  /\ queued' = AllZero /\ broadcasted' = AllZero
  /\ applying' = [n \in Nodes |-> NoOldRequest]
  /\ prePrepareNet' = NoMessages
  /\ prepareNet' = ZeroCounts /\ commitNet' = ZeroCounts
  /\ requestOldNet' = {} /\ sendOldNet' = {}
  /\ viewChangeNet' = NoMessages /\ newViewNet' = NoMessages
  /\ UNCHANGED <<request, chain, timeouts, resets, commitSenders>>

-----------------------------------------------------------------------------

Handle(n, d) ==
  \/ handlePrePrepare(n, d)
  \/ handlePrepare(n, d)
  \/ refusePrepare(n, d)
  \/ handleCommitCount(n, d)
  \/ handleCommitBlock(n, d)
  \/ handleCommitAsk(n, d)

CatchUp(n) ==
  \/ \E m \in requestOldNet : handleRequestOldSeq(n, m)
  \/ \E m \in sendOldNet : handleSendOldSeq(n, m)
  \/ applyOldRequest(n)
  \/ endSendOldSeq(n)

ChangeView(n) ==
  \/ viewChangePropose(n)
  \/ \E m \in viewChangeNet[n] : handleViewChangeMsg(n, m)
  \/ \E m \in newViewNet[n] : handleNewViewMsg(n, m)

Next ==
  \/ RestartShard
  \/ \E n \in Nodes :
      \/ BeginRound(n)
      \/ Propose(n)
      \/ SetPrepareStage(n)
      \/ \E d \in 1 .. Len(request) : Handle(n, d)
      \/ CatchUp(n)
      \/ ChangeView(n)
      \/ resetStage(n)

Spec == Init /\ [][Next]_vars

\* Every message is delivered (TCP) and every goroutine that can go on does.
Fairness ==
  \A n \in Nodes :
    /\ WF_vars(BeginRound(n) \/ Propose(n))
    /\ WF_vars(SetPrepareStage(n))
    /\ \A d \in Digests : WF_vars(d <= Len(request) /\ Handle(n, d))
    /\ WF_vars(CatchUp(n))

FairSpec == Spec /\ Fairness

-----------------------------------------------------------------------------
(***************************************************************************)
(* Properties.                                                             *)
(***************************************************************************)

Request == [seq : Nat, num : Nat, parent : Nat]

OldRange == [to : Nodes, from : Nodes, start : Nat, end : Nat]

SendOld == [to : Nodes, start : Nat, end : Nat, oldRequest : Seq(Digests)]

Applying == [busy : BOOLEAN, start : Nat, end : Nat,
             oldRequest : Seq(Digests), next : Nat \ {0}]

ViewMsg == [nextView : Nodes, seqID : Nat, fromNode : Nodes]

ConsensusType ==
  /\ request \in Seq(Request) /\ Len(request) \in 0 .. MaxProposals
  /\ view \in [Nodes -> Nodes]
  /\ sequenceID \in [Nodes -> Nat]
  /\ pbftStage \in [Nodes -> Nat \ {0}]
  /\ chain \in [Nodes -> Seq(Digests)]

MapType ==
  /\ requestPool \in [Nodes -> SUBSET Digests]
  /\ height2Digest \in [Nodes -> SUBSET Digests]
  /\ cntPrepareConfirm \in [Nodes -> [Digests -> Nat]]
  /\ cntCommitConfirm \in [Nodes -> [Digests -> Nat]]
  /\ isCommitBordcast \in [Nodes -> SUBSET Digests]
  /\ isReply \in [Nodes -> SUBSET Digests]

LockType ==
  /\ sequenceLock \in [Nodes -> BOOLEAN]
  /\ askForLock \in [Nodes -> BOOLEAN]
  /\ crashed \in [Nodes -> BOOLEAN]

ViewType ==
  /\ viewChangeMap \in [Nodes -> SUBSET ViewMsg]
  /\ newViewMap \in [Nodes -> SUBSET ViewMsg]
  /\ viewChangeNet \in [Nodes -> SUBSET ViewMsg]
  /\ newViewNet \in [Nodes -> SUBSET ViewMsg]

PropType == queued \in [Nodes -> Nat] /\ broadcasted \in [Nodes -> Nat]

OldType ==
  /\ applying \in [Nodes -> Applying]
  /\ requestOldNet \subseteq OldRange
  /\ sendOldNet \subseteq SendOld

NetType ==
  /\ prePrepareNet \in [Nodes -> SUBSET Digests]
  /\ prepareNet \in [Nodes -> [Digests -> Nat]]
  /\ commitNet \in [Nodes -> [Digests -> Nat]]

BoundType ==
  /\ timeouts \in [Nodes -> Nat] /\ resets \in [Nodes -> Nat]
  /\ restarts \in Nat
  /\ commitSenders \in [Digests -> SUBSET Nodes]

\* The types of the fields of PbftConsensusNode and of the messages.
TypeOK ==
  /\ ConsensusType /\ MapType /\ LockType /\ ViewType
  /\ PropType /\ OldType /\ NetType /\ BoundType

\* "all node in the shard maintain the same blockchain" (pbft.go, CurChain):
\* no two nodes have different blocks at the same height.
Agreement ==
  \A m, n \in Nodes :
    \A i \in (1 .. Len(chain[m])) \cap (1 .. Len(chain[n])) :
      chain[m][i] = chain[n][i]

\* A block is in a chain only if at least 2f+1 different nodes sent a Commit
\* of it, although handleCommit counts messages and not senders.
QuorumBacked ==
  \A n \in Nodes : \A i \in 1 .. Len(chain[n]) :
    Cardinality(commitSenders[chain[n][i]]) >= Quorum

\* No handler unlocks a mutex that is not locked, which stops a Go program:
\* handleCommit unlocks sequenceLock, handleSendOldSeq unlocks askForLock.
NoFatalUnlock == \A n \in Nodes : ~crashed[n]

\* The leader holds sequenceLock exactly while a request of its own is not
\* yet in its chain: no second request is proposed before the first is a block.
LockIffOutstanding ==
  Len(request) = Len(chain[Node0]) + (IF sequenceLock[Node0] THEN 1 ELSE 0)

\* A node never has a block of a sequence number it still has to work on, and
\* the leader, which never has to catch up, never skips one.
SequenceAhead ==
  /\ \A n \in Nodes : sequenceID[n] > Len(chain[n])
  /\ sequenceID[Node0] = Len(chain[Node0]) + 1

\* A node that holds askForLock is being served: its request, or the answer,
\* is on the way or being worked on.  Nothing else ever releases the lock.
AskIsServed ==
  \A n \in Nodes :
    askForLock[n] =>
      \/ \E m \in requestOldNet : m.from = n
      \/ \E m \in sendOldNet : m.to = n
      \/ applying[n].busy

\* A node leaves the first view only after 2f+1 nodes have timed out.
ViewBacked ==
  \A n \in Nodes :
    view[n] # Node0 => Cardinality({m \in Nodes : timeouts[m] > 0}) >= Quorum

\* When every node times out at most once, the shard moves to the next leader
\* and no further, although a node that gets its last ViewChange late asks for
\* the view after the one it is already in.
OneViewChange == \A n \in Nodes : view[n] \in {Node0, Succ[Node0]}

\* Every backup adds the first block: no order in which handlePrePrepare,
\* handlePrepare and handleCommit get their messages leaves it waiting for ever.
BackupsCommit ==
  \A n \in Nodes \ {Node0} : <>(Len(chain[n]) >= 1)

-----------------------------------------------------------------------------
(***************************************************************************)
(* What holds of a shard that keeps its first leader: the parts of the     *)
(* inductive invariants from which the properties above are proved for     *)
(* MaxTimeouts = 0, and some of them for MaxRestarts = 0 besides.          *)
(***************************************************************************)

\* Only the first leader proposes, and nobody asks for another one.
FirstView ==
  /\ \A n \in Nodes :
       /\ view[n] = Node0
       /\ viewChangeNet[n] = {} /\ newViewNet[n] = {}
       /\ queued[n] > 0 \/ broadcasted[n] > 0 => n = Node0
  /\ \A m \in requestOldNet : m.to = Node0

\* The requests made since the last restart, which the leader has in its pool,
\* and the highest sequence number among those made and stored.
live == requestPool[Node0]

highest == Len(chain[Node0]) + (IF sequenceLock[Node0] THEN 1 ELSE 0)

\* A live request has a sequence number of its own, which is the number of its
\* block, and one that is not a block yet fits on the leader's chain.
LiveRequests ==
  \A d \in live :
    /\ d \in 1 .. Len(request)
    /\ request[d].num = request[d].seq /\ request[d].seq <= highest
    /\ request[d].seq > Len(chain[Node0]) =>
         request[d].parent = CurrentBlock(chain[Node0])
    /\ \A e \in live : request[e].seq = request[d].seq => e = d

\* No message or map has a request of before the restart.
OnlyLive ==
  \A n \in Nodes :
    /\ requestPool[n] \cup height2Digest[n] \cup prePrepareNet[n] \subseteq live
    /\ \A d \in Digests : commitNet[n][d] > 0 => d \in live

\* A backup past stage 1 works on a proposed request whose PrePrepare it has
\* handled; a node that asks is back at stage 1 with no PrePrepare to come for
\* its sequence number, so that number stays as it is until the answer.
BackupStage ==
  \A n \in Nodes \ {Node0} :
    pbftStage[n] > 1 \/ askForLock[n] =>
      /\ sequenceID[n] <= highest
      /\ \A d \in prePrepareNet[n] : request[d].seq # sequenceID[n]

\* The leader has every request it made, and never asks for one.
AskStage == ~askForLock[Node0] /\ \A n \in Nodes : askForLock[n] => pbftStage[n] = 1

\* What was asked for begins after the sequence number of the node that asks.
ahead(n, oldRequest) ==
  \A i \in 1 .. Len(oldRequest) :
    oldRequest[i] \in live /\ request[oldRequest[i]].seq > sequenceID[n]

AskRange ==
  /\ \A m \in requestOldNet :
       m.start = sequenceID[m.from] + 1 /\ m.end >= sequenceID[m.from]
  /\ \A m \in sendOldNet : m.end >= sequenceID[m.to] /\ ahead(m.to, m.oldRequest)
  /\ \A n \in Nodes :
       applying[n].busy =>
         applying[n].end >= sequenceID[n] /\ ahead(n, applying[n].oldRequest)

\* askForLock is held for one exchange at a time.
AskOnce ==
  /\ \A m \in requestOldNet :
       /\ askForLock[m.from] /\ ~applying[m.from].busy
       /\ \A x \in requestOldNet : x.from = m.from => x = m
       /\ \A x \in sendOldNet : x.to # m.from
  /\ \A m \in sendOldNet :
       /\ askForLock[m.to] /\ ~applying[m.to].busy
       /\ \A x \in sendOldNet : x.to = m.to => x = m
  /\ \A n \in Nodes : applying[n].busy => askForLock[n]

\* A shard whose first leader stays in place is an orderly one, restarted or
\* not: the conjunction of the facts above with the properties they are there for.
LeaderInv ==
  /\ FirstView /\ LiveRequests /\ OnlyLive
  /\ BackupStage /\ AskStage /\ AskRange /\ AskOnce
  /\ SequenceAhead /\ NoFatalUnlock /\ AskIsServed

\* No confirmation is counted or on its way without a sender of its own: a node
\* sends its Commit of a live request once.
CommitsHaveSenders ==
  \A d \in Digests :
    /\ d > Len(request) => commitSenders[d] = {}
    /\ \A n \in Nodes :
         /\ cntCommitConfirm[n][d] + commitNet[n][d] <= Cardinality(commitSenders[d])
         /\ n \in commitSenders[d] /\ d \in live => d \in isCommitBordcast[n]

\* Without a restart request d is the block of height d on top of block d - 1,
\* and a chain is the blocks 1, 2, 3, ... in their order.
NumberedChains ==
  /\ \A d \in 1 .. Len(request) :
       request[d].seq = d /\ request[d].num = d /\ request[d].parent = d - 1
  /\ \A n \in Nodes :
       /\ Len(chain[n]) <= Len(request)
       /\ \A i \in 1 .. Len(chain[n]) : chain[n][i] = i

StableInv == LeaderInv /\ NumberedChains /\ LockIffOutstanding

-----------------------------------------------------------------------------
(***************************************************************************)
(* What holds of the view change: the parts of the inductive invariants    *)
(* from which ViewBacked, and OneViewChange for MaxTimeouts <= 1, are      *)
(* proved.                                                                 *)
(***************************************************************************)

\* The ViewChange and the NewView messages of the run of the shard.
ViewChangeMsgs == UNION {viewChangeNet[n] \cup viewChangeMap[n] : n \in Nodes}

NewViewMsgs == UNION {newViewNet[n] \cup newViewMap[n] : n \in Nodes}

TimedOut == {n \in Nodes : timeouts[n] > 0}

\* A ViewChange comes from a node that timed out, a NewView from one that got
\* a quorum of ViewChange messages.
MessagesBacked ==
  /\ \A m \in ViewChangeMsgs : m.fromNode \in TimedOut
  /\ NewViewMsgs # {} => Cardinality(TimedOut) >= Quorum

\* One message per node.
OncePerNode(msgs) == \A x, y \in msgs : x.fromNode = y.fromNode => x = y

\* A node has sent a NewView only if it holds a quorum of ViewChange messages,
\* and it counts none of these twice.
NewViewOnce ==
  /\ OncePerNode(ViewChangeMsgs) /\ OncePerNode(NewViewMsgs)
  /\ \A n \in Nodes : viewChangeNet[n] \cap viewChangeMap[n] = {}
  /\ \A m \in NewViewMsgs : \E d \in viewChangeMap[m.fromNode] :
       Cardinality(SameData(viewChangeMap[m.fromNode], d)) >= Quorum

\* The nodes that asked for the leader after the first one.
SecondViewSenders ==
  {n \in Nodes : \E m \in NewViewMsgs : m.fromNode = n /\ m.nextView = Succ[Node0]}

\* Nobody is past the first view, or asks for a view after the second, before
\* a quorum has asked for the second one.
SecondViewFirst ==
  Cardinality(SecondViewSenders) < Quorum =>
    /\ \A n \in Nodes : view[n] = Node0
    /\ \A m \in NewViewMsgs : m.nextView = Succ[Node0]

-----------------------------------------------------------------------------

\* The shard as a replicated log: request d is entry d of the log, and every
\* node holds a prefix of it.
Ledger == INSTANCE ShardLedger
            WITH Blocks <- Digests,
                 log <- [d \in 1 .. Len(request) |-> d],
                 ledger <- chain

LedgerSpec == Ledger!Spec

=============================================================================
