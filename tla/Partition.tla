----------------------------- MODULE Partition -----------------------------
(***************************************************************************)
(* The graph of accounts that the supervisor keeps, and the two algorithms *)
(* that divide it among the shards: label propagation (CLPA_Partition,     *)
(* used by the CLPA_Broker committee) and the migration of address         *)
(* prefixes by an agent (AERO_Partition, used by the CLPA committee)       *)
(* (partition/, and the epochs of MsgSendingControl).                      *)
(*                                                                         *)
(* clpaLock is held through a partition, so edges are added only between   *)
(* two of them.  The order of a Go map is random: the vertices of an       *)
(* iteration come in any order.  The list of neighbours of a vertex is     *)
(* kept as the number of times each of them is in it.                      *)
(***************************************************************************)
EXTENDS Integers, FiniteSetsExt, Functions

CONSTANTS
  Vertices,       \* accounts
  FakeAddr,       \* the account of the heartbeat, which makes no transactions
  ShardNum,
  Addr2Shard,
  Prefixes, Prefix,  \* the first two digits of an address
  MaxEdges,       \* bound: edges in a graph
  MaxEpochs,      \* bound: partitions in a run
  MaxIterations,  \* 100 in the code
  MaxUpdates      \* moves of a vertex in one partition, 50 in the code

Shards == 0 .. ShardNum - 1
None == -1

ASSUME PartitionAssumption ==
  /\ ShardNum \in Nat \ {0} /\ IsFiniteSet(Vertices) /\ FakeAddr \in Vertices
  /\ Addr2Shard \in [Vertices -> Shards] /\ Prefix \in [Vertices -> Prefixes]
  /\ MaxEdges \in Nat /\ MaxEpochs \in Nat /\ MaxIterations \in Nat \ {0} /\ MaxUpdates \in Nat

VARIABLES
  \* CLPAState
  VertexSet, EdgeSet, PartitionMap, VertexsNumInShard,
  Edges2Shard, MinEdges2Shard, CrossShardEdgeNum,
  \* a partition under way
  pc, iter, todo, updateTreshold,
  payload,        \* what AERO_Partition tells the agent
  migrations,     \* what the agent answers
  res,            \* the moves that are returned, None for an account that stays
  \* the committee, which uses AERO_Partition or else CLPA_Partition
  aero, modifiedMap, epoch

graphVars == <<VertexSet, EdgeSet>>
edgeCounts == <<Edges2Shard, MinEdges2Shard, CrossShardEdgeNum>>
clpaVars == <<iter, updateTreshold>>
aeroVars == <<payload, migrations>>
committeeVars == <<aero, modifiedMap, epoch>>
vars == <<graphVars, PartitionMap, VertexsNumInShard, edgeCounts, pc, todo, clpaVars,
          aeroVars, res, committeeVars>>

-----------------------------------------------------------------------------
(***************************************************************************)
(* Counting.                                                               *)
(***************************************************************************)

\* A vertex and one that may be in its list of neighbours.
pairs == VertexSet \X VertexSet

\* The number of entries of the neighbour lists, for the pairs of a set.
entries(E) == SumFunctionOnSet([e \in pairs |-> EdgeSet[e[1]][e[2]]], E)

\* The loop of ComputeEdges2Shard: an edge between two shards counts for each
\* of them, and one inside a shard once.
edges2Shard(pm) ==
  [k \in Shards |->
     entries({e \in pairs : pm[e[1]] # pm[e[2]] /\ pm[e[2]] = k})
       + entries({e \in pairs : pm[e[1]] = k /\ pm[e[2]] = k}) \div 2]

crossShardEdges(pm) == entries({e \in pairs : pm[e[1]] # pm[e[2]]}) \div 2

\* ComputeEdges2Shard.
ComputeEdges2Shard(pm) ==
  /\ Edges2Shard' = edges2Shard(pm)
  /\ MinEdges2Shard' = Min({edges2Shard(pm)[k] : k \in Shards})
  /\ CrossShardEdgeNum' = crossShardEdges(pm)

\* The neighbours of v in a shard, each as often as it is in the list.
edgesTo(v, k) == entries({e \in pairs : e[1] = v /\ PartitionMap[e[2]] = k})

v_outdegree(v) == entries({e \in pairs : e[1] = v})

-----------------------------------------------------------------------------
(***************************************************************************)
(* The graph between two partitions.                                       *)
(***************************************************************************)

\* AddVertex of the vertices that are new among the ends of an edge.
AddVertex(new, ends) ==
  /\ VertexSet' = VertexSet \cup new
  /\ VertexsNumInShard' = [k \in Shards |->
       VertexsNumInShard[k] + Cardinality({v \in new : PartitionMap[v] = k})]

\* HandleBlockInfo calls AddEdge for a transaction in a block.
AddEdge(u, v) ==
  /\ pc = "collect" /\ epoch < MaxEpochs
  /\ u # v /\ FakeAddr \notin {u, v}
  /\ entries(pairs) < 2 * MaxEdges
  /\ AddVertex({u, v} \ VertexSet, {u, v})
  /\ EdgeSet' = [EdgeSet EXCEPT ![u][v] = @ + 1, ![v][u] = @ + 1]
  /\ UNCHANGED <<PartitionMap, edgeCounts, pc, todo, clpaVars, aeroVars, res,
                 committeeVars>>

-----------------------------------------------------------------------------
(***************************************************************************)
(* CLPA_Partition.                                                         *)
(***************************************************************************)

\* Mutant of CLPA_Partition: it starts with the counts there are.
CLPA_PartitionStale ==
  /\ ~aero /\ pc = "collect" /\ epoch < MaxEpochs
  /\ pc' = "clpa" /\ iter' = 0 /\ todo' = VertexSet
  /\ updateTreshold' = [v \in Vertices |-> 0]
  /\ UNCHANGED <<graphVars, PartitionMap, VertexsNumInShard, edgeCounts, aeroVars, res,
                 committeeVars>>

CLPA_Partition ==
  /\ ~aero /\ pc = "collect" /\ epoch < MaxEpochs
  /\ ComputeEdges2Shard(PartitionMap)
  /\ pc' = "clpa" /\ iter' = 0 /\ todo' = VertexSet
  /\ updateTreshold' = [v \in Vertices |-> 0]
  /\ UNCHANGED <<graphVars, PartitionMap, VertexsNumInShard, aeroVars, res, committeeVars>>

\* getShard_score of v and shard k, times 2 * MinEdges2Shard * v_outdegree(v)
\* (WeightPenalty is 0.5).
getShard_score(v, k) == edgesTo(v, k) * (2 * MinEdges2Shard - Edges2Shard[k])

\* -9999, the score that max_score starts from, on the same scale.
lowest(v) == -9999 * 2 * MinEdges2Shard * v_outdegree(v)

\* The shards that may get the highest score.  The first of several that are
\* equal wins, in the order of the list and up to rounding: it is any of them.
\* With MinEdges2Shard = 0 every score is -Inf, and v stays.
max_scoreShard(v) ==
  LET near == {PartitionMap[u] : u \in {w \in VertexSet : EdgeSet[v][w] > 0}}
      best == {k \in near : /\ \A j \in near : getShard_score(v, j) <= getShard_score(v, k)
                            /\ getShard_score(v, k) > lowest(v)}
  IN IF MinEdges2Shard > 0 /\ best # {} THEN best ELSE {PartitionMap[v]}

\* Mutant of changeShardRecompute: the edges to the other shards are left out.
changeShardRecomputeTwo(v, old, new) ==
  LET toOld == edgesTo(v, old)
      toNew == edgesTo(v, new)
      edges == [Edges2Shard EXCEPT ![new] = @ + toOld, ![old] = @ - toNew]
  IN /\ Edges2Shard' = edges
     /\ CrossShardEdgeNum' = CrossShardEdgeNum + toOld - toNew
     /\ MinEdges2Shard' = Min({edges[k] : k \in Shards})

\* changeShardRecompute: the counts after v has gone from one shard to another.
changeShardRecompute(v, old, new) ==
  LET toOld == edgesTo(v, old)
      toNew == edgesTo(v, new)
      other == v_outdegree(v) - toOld - toNew
      edges == [Edges2Shard EXCEPT ![new] = @ + other + toOld,
                                   ![old] = @ - other - toNew]
  IN /\ Edges2Shard' = edges
     /\ CrossShardEdgeNum' = CrossShardEdgeNum + toOld - toNew
     /\ MinEdges2Shard' = Min({edges[k] : k \in Shards})

\* The move of a vertex, in the partition map and in the number of vertices.
moveVertex(v, new) ==
  /\ PartitionMap' = [PartitionMap EXCEPT ![v] = new]
  /\ VertexsNumInShard' = [VertexsNumInShard EXCEPT ![PartitionMap[v]] = @ - 1, ![new] = @ + 1]

\* Mutant of mayLeave: the last vertex of a shard may go.
mayAlwaysLeave(v) == updateTreshold[v] < MaxUpdates

\* A vertex that has moved too often, or is the last of its shard, stays.
mayLeave(v) ==
  updateTreshold[v] < MaxUpdates /\ VertexsNumInShard[PartitionMap[v]] > 1

\* One vertex of an iteration, which moves to the shard that scores highest ...
changeShard(v, new) ==
  /\ pc = "clpa" /\ v \in todo
  /\ new \in max_scoreShard(v) /\ new # PartitionMap[v] /\ mayLeave(v)
  /\ moveVertex(v, new)
  /\ res' = [res EXCEPT ![v] = new]
  /\ updateTreshold' = [updateTreshold EXCEPT ![v] = @ + 1]
  /\ changeShardRecompute(v, PartitionMap[v], new)
  /\ todo' = todo \ {v}
  /\ UNCHANGED <<graphVars, pc, iter, aeroVars, committeeVars>>

\* ... or stays.
stay(v) ==
  /\ pc = "clpa" /\ v \in todo
  /\ PartitionMap[v] \in max_scoreShard(v) \/ ~mayLeave(v)
  /\ todo' = todo \ {v}
  /\ UNCHANGED <<graphVars, PartitionMap, VertexsNumInShard, edgeCounts, pc, clpaVars,
                 aeroVars, res, committeeVars>>

\* Mutant of nextIteration: one iteration more.
nextIterationMore ==
  /\ pc = "clpa" /\ todo = {} /\ iter <= MaxIterations
  /\ iter' = iter + 1
  /\ todo' = IF iter < MaxIterations THEN VertexSet ELSE {}
  /\ UNCHANGED <<graphVars, PartitionMap, VertexsNumInShard, edgeCounts, pc,
                 updateTreshold, aeroVars, res, committeeVars>>

nextIteration ==
  /\ pc = "clpa" /\ todo = {} /\ iter < MaxIterations
  /\ iter' = iter + 1
  /\ todo' = IF iter + 1 < MaxIterations THEN VertexSet ELSE {}
  /\ UNCHANGED <<graphVars, PartitionMap, VertexsNumInShard, edgeCounts, pc,
                 updateTreshold, aeroVars, res, committeeVars>>

endCLPA ==
  /\ pc = "clpa" /\ iter = MaxIterations
  /\ ComputeEdges2Shard(PartitionMap)
  /\ pc' = "end"
  /\ UNCHANGED <<graphVars, PartitionMap, VertexsNumInShard, todo, clpaVars, aeroVars, res,
                 committeeVars>>

-----------------------------------------------------------------------------
(***************************************************************************)
(* AERO_Partition.                                                         *)
(***************************************************************************)

\* The prefixes with edges, each with the shard of one of its vertices: the
\* first one in the order of the Go map.
hasEdges(v) == v \in VertexSet /\ v_outdegree(v) > 0
prefixMap == {Prefix[v] : v \in {w \in VertexSet : hasEdges(w)}}
currentShards ==
  {cur \in [prefixMap -> Shards] :
     \A p \in prefixMap : \E v \in VertexSet : hasEdges(v) /\ Prefix[v] = p /\ PartitionMap[v] = cur[p]}

TXVolume(p) == entries({e \in pairs : Prefix[e[1]] = p})
EdgesToShard(p, k) == entries({e \in pairs : Prefix[e[1]] = p /\ PartitionMap[e[2]] = k})

\* Mutant of CSTXVolume: each edge once.
CSTXVolumeOnce(p) ==
  entries({e \in pairs : Prefix[e[1]] = p /\ PartitionMap[e[1]] < PartitionMap[e[2]]})

CSTXVolume(p) ==
  entries({e \in pairs : Prefix[e[1]] = p /\ PartitionMap[e[1]] # PartitionMap[e[2]]})

\* One of the two volumes, summed up over some of the prefixes.
sumTX(P) == SumFunctionOnSet([p \in prefixMap |-> TXVolume(p)], P)
sumCSTX(P) == SumFunctionOnSet([p \in prefixMap |-> CSTXVolume(p)], P)

\* The state that is written for the agent; a ratio is kept as its two terms.
AEROStatePayload(cur) ==
  [ShardLoads |-> [k \in Shards |-> sumTX({p \in prefixMap : cur[p] = k})],
   ShardCSTX |-> [k \in Shards |-> sumCSTX({p \in prefixMap : cur[p] = k})],
   GlobalCSTX |-> sumCSTX(prefixMap),
   GlobalTX |-> sumTX(prefixMap),
   CandidatePrefixes |-> {p \in prefixMap : CSTXVolume(p) > 0},
   CurrentShard |-> cur]

NoPayload == [CandidatePrefixes |-> {}]
NoMigrations == [p \in Prefixes |-> None]

AERO_Partition ==
  /\ aero /\ pc = "collect" /\ epoch < MaxEpochs
  /\ ComputeEdges2Shard(PartitionMap)
  /\ \E cur \in currentShards : payload' = AEROStatePayload(cur)
  /\ pc' = "agent"
  /\ UNCHANGED <<graphVars, PartitionMap, VertexsNumInShard, todo, clpaVars, migrations,
                 res, committeeVars>>

\* aero_agent.py: for each candidate it names another shard or none.
agentAnswers(m) ==
  /\ pc = "agent"
  /\ \A p \in Prefixes : m[p] # None =>
       p \in payload.CandidatePrefixes /\ m[p] # payload.CurrentShard[p]
  /\ migrations' = m
  /\ todo' = {v \in VertexSet : m[Prefix[v]] # None}
  /\ pc' = "aero"
  /\ UNCHANGED <<graphVars, PartitionMap, VertexsNumInShard, edgeCounts, clpaVars, payload,
                 res, committeeVars>>

\* The agent fails or writes no file: nil is returned.
agentFails ==
  /\ pc = "agent" /\ pc' = "end"
  /\ UNCHANGED <<graphVars, PartitionMap, VertexsNumInShard, edgeCounts, todo, clpaVars,
                 aeroVars, res, committeeVars>>

\* Mutant of UpdatePrefixShard: only the moves are returned that the agent
\* could see.
UpdatePrefixShardSeen(v) ==
  LET new == migrations[Prefix[v]]
  IN /\ pc = "aero" /\ v \in todo
     /\ IF PartitionMap[v] = new THEN UNCHANGED <<PartitionMap, VertexsNumInShard>>
        ELSE moveVertex(v, new)
     /\ res' = IF PartitionMap[v] = payload.CurrentShard[Prefix[v]]
               THEN [res EXCEPT ![v] = new] ELSE res
     /\ todo' = todo \ {v}
     /\ UNCHANGED <<graphVars, edgeCounts, pc, clpaVars, aeroVars, committeeVars>>

\* UpdatePrefixShard for one vertex of a prefix that migrates, and its entry in
\* the result.
UpdatePrefixShard(v) ==
  LET new == migrations[Prefix[v]]
  IN /\ pc = "aero" /\ v \in todo
     /\ IF PartitionMap[v] = new THEN UNCHANGED <<PartitionMap, VertexsNumInShard>>
        ELSE moveVertex(v, new)
     /\ res' = [res EXCEPT ![v] = new]
     /\ todo' = todo \ {v}
     /\ UNCHANGED <<graphVars, edgeCounts, pc, clpaVars, aeroVars, committeeVars>>

\* The end of AERO_Partition: a result with no moves gets the fake account.
endAERO ==
  /\ pc = "aero" /\ todo = {}
  /\ res' = IF \A v \in Vertices : res[v] = None THEN [res EXCEPT ![FakeAddr] = 0] ELSE res
  /\ ComputeEdges2Shard(PartitionMap)
  /\ pc' = "end"
  /\ UNCHANGED <<graphVars, PartitionMap, VertexsNumInShard, todo, clpaVars, aeroVars,
                 committeeVars>>

-----------------------------------------------------------------------------
(***************************************************************************)
(* The committee.                                                          *)
(***************************************************************************)

\* Its map after the moves.
moved(v) == IF res[v] = None THEN modifiedMap[v] ELSE res[v]

NoEdges == [v \in Vertices |-> [u \in Vertices |-> 0]]
NoMoves == [v \in Vertices |-> None]

\* Mutant of clpaReset: the numbers of vertices are those of the last graph.
clpaResetNumbersKept ==
  /\ PartitionMap' = [v \in Vertices |-> moved(v)]
  /\ VertexSet' = {} /\ EdgeSet' = NoEdges
  /\ UNCHANGED <<VertexsNumInShard, edgeCounts>>

\* clpaReset: a new graph with the partition map of the committee.
clpaReset ==
  /\ PartitionMap' = [v \in Vertices |-> moved(v)]
  /\ VertexSet' = {} /\ EdgeSet' = NoEdges
  /\ VertexsNumInShard' = [k \in Shards |-> 0]
  /\ Edges2Shard' = [k \in Shards |-> 0] /\ MinEdges2Shard' = 0 /\ CrossShardEdgeNum' = 0

\* MsgSendingControl with the result of the partition, which is sent to the
\* shards and entered into the committee's own map.
clpaMapSend ==
  /\ pc = "end"
  /\ modifiedMap' = [v \in Vertices |-> moved(v)]
  /\ clpaReset
  /\ epoch' = epoch + 1 /\ pc' = "collect"
  /\ res' = NoMoves /\ payload' = NoPayload /\ migrations' = NoMigrations
  /\ iter' = 0 /\ updateTreshold' = [v \in Vertices |-> 0]
  /\ UNCHANGED <<todo, aero>>

Init ==
  /\ VertexSet = {} /\ EdgeSet = NoEdges
  /\ PartitionMap = Addr2Shard /\ modifiedMap = Addr2Shard
  /\ VertexsNumInShard = [k \in Shards |-> 0]
  /\ Edges2Shard = [k \in Shards |-> 0] /\ MinEdges2Shard = 0 /\ CrossShardEdgeNum = 0
  /\ pc = "collect" /\ iter = 0 /\ todo = {} /\ updateTreshold = [v \in Vertices |-> 0]
  /\ payload = NoPayload /\ migrations = NoMigrations /\ res = NoMoves
  /\ epoch = 0 /\ aero \in BOOLEAN

Next ==
  \/ \E u, v \in Vertices : AddEdge(u, v)
  \/ CLPA_Partition
  \/ \E v \in Vertices, new \in Shards : changeShard(v, new)
  \/ \E v \in Vertices : stay(v)
  \/ nextIteration
  \/ endCLPA
  \/ AERO_Partition
  \/ \E m \in [Prefixes -> Shards \cup {None}] : agentAnswers(m)
  \/ agentFails
  \/ \E v \in Vertices : UpdatePrefixShard(v)
  \/ endAERO
  \/ clpaMapSend

Spec == Init /\ [][Next]_vars

-----------------------------------------------------------------------------
(***************************************************************************)
(* Properties.                                                             *)
(***************************************************************************)

\* The fields of the graph, of a partition under way and of the committee.
TypeOK ==
  /\ VertexSet \subseteq Vertices \ {FakeAddr}
  /\ EdgeSet \in [Vertices -> [Vertices -> Nat]]
  /\ PartitionMap \in [Vertices -> Shards] /\ modifiedMap \in [Vertices -> Shards]
  /\ VertexsNumInShard \in [Shards -> Nat]
  /\ pc \in {"collect", "clpa", "agent", "aero", "end"}
  /\ todo \subseteq VertexSet /\ iter \in 0 .. MaxIterations
  /\ updateTreshold \in [Vertices -> 0 .. MaxUpdates]
  /\ migrations \in [Prefixes -> Shards \cup {None}]
  /\ res \in [Vertices -> Shards \cup {None}] /\ epoch \in 0 .. MaxEpochs
  /\ aero \in BOOLEAN

\* The counts that changeShardRecompute keeps up are those that
\* ComputeEdges2Shard would find, after any number of moves.
CountsExact ==
  pc = "clpa" =>
    /\ Edges2Shard = edges2Shard(PartitionMap)
    /\ MinEdges2Shard = Min({Edges2Shard[k] : k \in Shards})
    /\ CrossShardEdgeNum = crossShardEdges(PartitionMap)

\* No score is 0/0, which no comparison would find: a shard with a neighbour of
\* a vertex has edges.
ScoreDefined ==
  pc = "clpa" =>
    \A v \in VertexSet, u \in VertexSet :
      EdgeSet[v][u] > 0 => Edges2Shard[PartitionMap[u]] > 0

\* VertexsNumInShard is what its name says through AddVertex, the moves of both
\* algorithms and clpaReset, on which the test for the last vertex rests.
VertexsCounted ==
  \A k \in Shards : VertexsNumInShard[k] = Cardinality({v \in VertexSet : PartitionMap[v] = k})

\* Label propagation never takes the last vertex of a shard.
ShardsNotEmptied ==
  [][pc = "clpa" => \A k \in Shards : (\E v \in VertexSet : PartitionMap[v] = k)
                                        => \E v \in VertexSet : PartitionMap'[v] = k]_vars

\* What the shards are told is what the algorithm has decided: the moves that
\* are returned lead from the committee's map to the partition of the graph,
\* also for a vertex that moved several times or back.
MapComplete == \A v \in VertexSet : PartitionMap[v] = moved(v)

\* The numbers for the agent agree with those of the graph: two entries for
\* each edge, each in one shard's load, and two for each cross-shard edge.
PayloadExact ==
  pc = "agent" =>
    /\ payload.GlobalCSTX = 2 * CrossShardEdgeNum
    /\ payload.GlobalTX = entries(pairs)
    /\ SumFunction(payload.ShardLoads) = payload.GlobalTX
    /\ \A p \in prefixMap :
         SumFunction([k \in Shards |-> EdgesToShard(p, k)]) = TXVolume(p)

=============================================================================
