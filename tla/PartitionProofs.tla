-------------------------- MODULE PartitionProofs --------------------------
(***************************************************************************)
(* The number of vertices in each shard is kept up through every move, so  *)
(* label propagation empties no shard, and the moves that are returned are *)
(* the ones that were made.  The counts of edges are sums of entries of    *)
(* the neighbour lists, and each move changes them by what the sums change *)
(* by.  For any graph and any number of partitions.                        *)
(***************************************************************************)
EXTENDS Partition, SumTheorems

\* The vertices of a shard.
inShard(k) == {v \in VertexSet : PartitionMap[v] = k}

\* Where a partition is: nothing is left to do outside the loops, the loop of
\* label propagation ends with the last iteration, and a vertex in the loop of
\* the agent's moves has one.
Progress ==
  /\ pc \in {"collect", "agent", "end"} => todo = {}
  /\ pc = "clpa" /\ iter = MaxIterations => todo = {}
  /\ pc # "collect" => epoch < MaxEpochs
  /\ pc = "aero" => \A v \in todo : migrations[Prefix[v]] \in Shards

\* The moves so far lead from the committee's map to the partition map, for
\* every account but the one of the heartbeat.
MovesKept == \A v \in Vertices \ {FakeAddr} : PartitionMap[v] = moved(v)

\* The inductive invariant.
IInv == TypeOK /\ VertexsCounted /\ Progress /\ MovesKept

-----------------------------------------------------------------------------
(***************************************************************************)
(* Counting.                                                               *)
(***************************************************************************)

\* The vertices of a shard are finitely many.
LEMMA ShardFinite ==
  ASSUME TypeOK, NEW k
  PROVE  IsFiniteSet(inShard(k)) /\ Cardinality(inShard(k)) \in Nat
<1>1. inShard(k) \in SUBSET Vertices
  BY DEF TypeOK, inShard
<1>2. IsFiniteSet(inShard(k))
  BY <1>1, FS_Subset, PartitionAssumption
<1> QED
  BY <1>2, FS_CardinalityType

\* A move to another shard changes the numbers of the two shards by one.
LEMMA MoveCounted ==
  ASSUME TypeOK, VertexsCounted, NEW v \in VertexSet, NEW new \in Shards,
         new # PartitionMap[v], moveVertex(v, new), UNCHANGED VertexSet
  PROVE  /\ VertexsCounted'
         /\ VertexsNumInShard' \in [Shards -> Nat]
         /\ PartitionMap' \in [Vertices -> Shards]
<1> DEFINE old == PartitionMap[v]
<1>1. /\ v \in Vertices /\ old \in Shards /\ PartitionMap \in [Vertices -> Shards]
      /\ VertexsNumInShard \in [Shards -> Nat] /\ VertexSet \subseteq Vertices
  BY DEF TypeOK
<1>2. \A u \in VertexSet : PartitionMap'[u] = IF u = v THEN new ELSE PartitionMap[u]
  BY <1>1 DEF moveVertex
<1>3. ASSUME NEW k \in Shards
      PROVE  VertexsNumInShard'[k] = Cardinality(inShard(k)')
  <2>1. VertexsNumInShard[k] = Cardinality(inShard(k))
    BY DEF VertexsCounted, inShard
  <2>2. IsFiniteSet(inShard(k)) /\ Cardinality(inShard(k)) \in Nat
    BY ShardFinite
  <2>3. CASE k = old
    <3>1. inShard(k)' = inShard(k) \ {v}
      BY <1>2, <2>3 DEF inShard
    <3>2. v \in inShard(k)
      BY <2>3 DEF inShard
    <3>3. Cardinality(inShard(k)') = Cardinality(inShard(k)) - 1
      BY <2>2, <3>1, <3>2, FS_RemoveElement
    <3>4. VertexsNumInShard'[k] = VertexsNumInShard[k] - 1
      BY <1>1, <2>3 DEF moveVertex
    <3> QED
      BY <2>1, <3>3, <3>4
  <2>4. CASE k = new
    <3>1. inShard(k)' = inShard(k) \cup {v}
      BY <1>2, <2>4 DEF inShard
    <3>2. v \notin inShard(k)
      BY <2>4 DEF inShard
    <3>3. Cardinality(inShard(k)') = Cardinality(inShard(k)) + 1
      BY <2>2, <3>1, <3>2, FS_AddElement
    <3>4. VertexsNumInShard'[k] = VertexsNumInShard[k] + 1
      BY <1>1, <2>4 DEF moveVertex
    <3> QED
      BY <2>1, <3>3, <3>4
  <2>5. CASE k # old /\ k # new
    <3>1. inShard(k)' = inShard(k)
      BY <1>2, <2>5 DEF inShard
    <3>2. VertexsNumInShard'[k] = VertexsNumInShard[k]
      BY <1>1, <2>5 DEF moveVertex
    <3> QED
      BY <2>1, <3>1, <3>2
  <2> QED
    BY <2>3, <2>4, <2>5
<1>4. PartitionMap' \in [Vertices -> Shards]
  BY <1>1 DEF moveVertex
<1>5. ASSUME NEW k \in Shards
      PROVE  Cardinality(inShard(k)') \in Nat
  <2>1. inShard(k)' \in SUBSET Vertices
    BY <1>1 DEF inShard
  <2> QED
    BY <2>1, FS_Subset, FS_CardinalityType, PartitionAssumption
<1>6. VertexsNumInShard' \in [Shards -> Nat]
  <2>1. VertexsNumInShard' \in [Shards -> Int]
    BY <1>1 DEF moveVertex
  <2> QED
    BY <1>3, <1>5, <2>1
<1>7. VertexsCounted'
  BY <1>3 DEF VertexsCounted, inShard
<1> QED
  BY <1>4, <1>6, <1>7

\* New vertices of an edge are counted, each in its shard.
LEMMA NewCounted ==
  ASSUME TypeOK, VertexsCounted, NEW new, NEW ends, new \subseteq Vertices,
         new \cap VertexSet = {}, AddVertex(new, ends), UNCHANGED PartitionMap
  PROVE  VertexsCounted' /\ VertexsNumInShard' \in [Shards -> Nat]
<1>1. VertexsNumInShard \in [Shards -> Nat]
  BY DEF TypeOK
<1>2. ASSUME NEW k \in Shards
      PROVE  /\ VertexsNumInShard'[k] = Cardinality(inShard(k)')
             /\ VertexsNumInShard'[k] \in Nat
  <2> DEFINE add == {v \in new : PartitionMap[v] = k}
  <2>1. VertexsNumInShard[k] = Cardinality(inShard(k))
    BY DEF VertexsCounted, inShard
  <2>2. IsFiniteSet(inShard(k)) /\ Cardinality(inShard(k)) \in Nat
    BY ShardFinite
  <2>3. add \in SUBSET Vertices
    OBVIOUS
  <2>4. IsFiniteSet(add) /\ Cardinality(add) \in Nat
    BY <2>3, FS_Subset, FS_CardinalityType, PartitionAssumption
  <2>5. inShard(k)' = inShard(k) \cup add
    BY DEF inShard, AddVertex
  <2>6. inShard(k) \cap add = {}
    BY DEF inShard
  <2>7. Cardinality(inShard(k) \cup add) = Cardinality(inShard(k)) + Cardinality(add)
    <3> HIDE DEF add
    <3>1. Cardinality(inShard(k) \cup add)
            = Cardinality(inShard(k)) + Cardinality(add) - Cardinality(inShard(k) \cap add)
      BY <2>2, <2>4, FS_Union
    <3>2. Cardinality(inShard(k) \cap add) = 0
      BY <2>6, FS_EmptySet
    <3> QED
      BY <2>2, <2>4, <3>1, <3>2
  <2>8. VertexsNumInShard'[k] = VertexsNumInShard[k] + Cardinality(add)
    BY DEF AddVertex
  <2> QED
    BY <2>1, <2>2, <2>4, <2>5, <2>7, <2>8
<1>3. VertexsNumInShard' = [k \in Shards |-> VertexsNumInShard'[k]]
  BY DEF AddVertex
<1> QED
  BY <1>2, <1>3 DEF VertexsCounted, inShard

-----------------------------------------------------------------------------
(***************************************************************************)
(* The inductive invariant.                                                *)
(***************************************************************************)

\* The state in which the committee starts.
LEMMA InitIInv ==
  Init => IInv
<1> SUFFICES ASSUME Init PROVE IInv
  OBVIOUS
<1>1. TypeOK
  <2>1. VertexsNumInShard \in [Shards -> Nat]
    BY DEF Init
  <2>2. EdgeSet \in [Vertices -> [Vertices -> Nat]]
    BY DEF Init, NoEdges
  <2> QED
    BY <2>1, <2>2, PartitionAssumption DEF Init, TypeOK, NoMigrations, NoMoves
<1>2. VertexsCounted
  <2>1. \A k \in Shards : {v \in VertexSet : PartitionMap[v] = k} = {}
    BY DEF Init
  <2> QED
    BY <2>1, FS_EmptySet DEF Init, VertexsCounted
<1>3. Progress
  BY DEF Init, Progress
<1>4. MovesKept
  BY DEF Init, MovesKept, moved, NoMoves, None
<1> QED
  BY <1>1, <1>2, <1>3, <1>4 DEF IInv

\* A step that leaves the vertices and their shards alone.
LEMMA CountUnchanged ==
  ASSUME VertexsCounted, UNCHANGED <<VertexSet, PartitionMap, VertexsNumInShard>>
  PROVE  VertexsCounted'
BY DEF VertexsCounted

\* A vertex of a loop that goes to a shard, with its entry in the result.
LEMMA MoveKept ==
  ASSUME TypeOK, MovesKept, NEW v \in Vertices, NEW new \in Shards,
         PartitionMap' \in [Vertices -> Shards],
         PartitionMap' = [PartitionMap EXCEPT ![v] = new],
         res' = [res EXCEPT ![v] = new], UNCHANGED modifiedMap
  PROVE  MovesKept' /\ res' \in [Vertices -> Shards \cup {None}]
<1>1. res \in [Vertices -> Shards \cup {None}] /\ PartitionMap \in [Vertices -> Shards]
  BY DEF TypeOK
<1>2. new # None
  BY PartitionAssumption DEF Shards, None
<1>3. \A u \in Vertices : /\ res'[u] = IF u = v THEN new ELSE res[u]
                          /\ PartitionMap'[u] = IF u = v THEN new ELSE PartitionMap[u]
  BY <1>1
<1> QED
  BY <1>1, <1>2, <1>3 DEF MovesKept, moved

\* Every step keeps the invariant.
LEMMA NextIInv ==
  IInv /\ [Next]_vars => IInv'
<1> SUFFICES ASSUME IInv, [Next]_vars PROVE IInv'
  OBVIOUS
<1> USE DEF graphVars, edgeCounts, clpaVars, aeroVars, committeeVars
<1>0. TypeOK /\ VertexsCounted /\ Progress /\ MovesKept
  BY DEF IInv
<1>1. ASSUME NEW u \in Vertices, NEW v \in Vertices, AddEdge(u, v)
      PROVE  IInv'
  <2>1. AddVertex({u, v} \ VertexSet, {u, v}) /\ UNCHANGED PartitionMap
    BY <1>1 DEF AddEdge
  <2>2. VertexsCounted' /\ VertexsNumInShard' \in [Shards -> Nat]
    BY <1>0, <2>1, NewCounted
  <2>3. VertexSet' \subseteq Vertices \ {FakeAddr} /\ VertexSet \subseteq VertexSet'
    BY <1>0, <1>1, <2>1 DEF AddEdge, AddVertex, TypeOK
  <2>4. EdgeSet' \in [Vertices -> [Vertices -> Nat]]
    <3>1. EdgeSet \in [Vertices -> [Vertices -> Nat]] /\ u # v
      BY <1>0, <1>1 DEF AddEdge, TypeOK
    <3>2. EdgeSet' = [EdgeSet EXCEPT ![u][v] = @ + 1, ![v][u] = @ + 1]
      BY <1>1 DEF AddEdge
    <3> DEFINE one == [EdgeSet EXCEPT ![u][v] = @ + 1]
    <3>3. one \in [Vertices -> [Vertices -> Nat]]
      BY <3>1
    <3>4. EdgeSet' = [one EXCEPT ![v][u] = @ + 1]
      BY <3>1, <3>2, Zenon
    <3> HIDE DEF one
    <3> QED
      BY <3>3, <3>4
  <2>5. TypeOK'
    BY <1>0, <1>1, <2>2, <2>3, <2>4 DEF AddEdge, TypeOK
  <2>6. Progress'
    BY <1>0, <1>1 DEF AddEdge, Progress
  <2>7. MovesKept'
    BY <1>0, <1>1 DEF AddEdge, MovesKept, moved
  <2> QED
    BY <2>2, <2>5, <2>6, <2>7 DEF IInv
<1>2. CASE CLPA_Partition
  <2>1. VertexsCounted'
    BY <1>0, <1>2, CountUnchanged DEF CLPA_Partition
  <2>2. TypeOK'
    BY <1>0, <1>2, PartitionAssumption DEF CLPA_Partition, TypeOK
  <2>3. Progress'
    BY <1>0, <1>2, PartitionAssumption DEF CLPA_Partition, Progress
  <2>4. MovesKept'
    BY <1>0, <1>2 DEF CLPA_Partition, MovesKept, moved
  <2> QED
    BY <2>1, <2>2, <2>3, <2>4 DEF IInv
<1>3. ASSUME NEW v \in Vertices, NEW new \in Shards, changeShard(v, new)
      PROVE  IInv'
  <2>1. /\ v \in VertexSet /\ new # PartitionMap[v] /\ moveVertex(v, new)
        /\ UNCHANGED <<VertexSet, modifiedMap>> /\ res' = [res EXCEPT ![v] = new]
        /\ PartitionMap' = [PartitionMap EXCEPT ![v] = new]
    BY <1>0, <1>3 DEF changeShard, moveVertex, TypeOK
  <2>2. /\ VertexsCounted' /\ VertexsNumInShard' \in [Shards -> Nat]
        /\ PartitionMap' \in [Vertices -> Shards]
    BY <1>0, <2>1, MoveCounted
  <2>3. MovesKept' /\ res' \in [Vertices -> Shards \cup {None}]
    BY <1>0, <2>1, <2>2, MoveKept
  <2>4. updateTreshold' \in [Vertices -> 0 .. MaxUpdates]
    BY <1>0, <1>3, PartitionAssumption DEF changeShard, mayLeave, TypeOK
  <2>5. TypeOK'
    BY <1>0, <1>3, <2>2, <2>3, <2>4 DEF changeShard, TypeOK
  <2>6. Progress'
    BY <1>0, <1>3 DEF changeShard, Progress
  <2> QED
    BY <2>2, <2>3, <2>5, <2>6 DEF IInv
<1>4. ASSUME NEW v \in Vertices, stay(v)
      PROVE  IInv'
  <2>1. VertexsCounted'
    BY <1>0, <1>4, CountUnchanged DEF stay
  <2>2. TypeOK'
    BY <1>0, <1>4 DEF stay, TypeOK
  <2>3. Progress'
    BY <1>0, <1>4 DEF stay, Progress
  <2>4. MovesKept'
    BY <1>0, <1>4 DEF stay, MovesKept, moved
  <2> QED
    BY <2>1, <2>2, <2>3, <2>4 DEF IInv
<1>5. CASE nextIteration
  <2>1. VertexsCounted'
    BY <1>0, <1>5, CountUnchanged DEF nextIteration
  <2>2. iter' \in 0 .. MaxIterations /\ todo' \subseteq VertexSet'
    BY <1>0, <1>5, PartitionAssumption DEF nextIteration, TypeOK
  <2>3. TypeOK'
    BY <1>0, <1>5, <2>2 DEF nextIteration, TypeOK
  <2>4. Progress'
    BY <1>0, <1>5, PartitionAssumption DEF nextIteration, Progress, TypeOK
  <2>5. MovesKept'
    BY <1>0, <1>5 DEF nextIteration, MovesKept, moved
  <2> QED
    BY <2>1, <2>3, <2>4, <2>5 DEF IInv
<1>6. CASE endCLPA
  <2>1. VertexsCounted'
    BY <1>0, <1>6, CountUnchanged DEF endCLPA
  <2>2. TypeOK'
    BY <1>0, <1>6 DEF endCLPA, TypeOK
  <2>3. Progress'
    BY <1>0, <1>6 DEF endCLPA, Progress
  <2>4. MovesKept'
    BY <1>0, <1>6 DEF endCLPA, MovesKept, moved
  <2> QED
    BY <2>1, <2>2, <2>3, <2>4 DEF IInv
<1>7. CASE AERO_Partition
  <2>1. VertexsCounted'
    BY <1>0, <1>7, CountUnchanged DEF AERO_Partition
  <2>2. TypeOK'
    BY <1>0, <1>7 DEF AERO_Partition, TypeOK
  <2>3. Progress'
    BY <1>0, <1>7 DEF AERO_Partition, Progress
  <2>4. MovesKept'
    BY <1>0, <1>7 DEF AERO_Partition, MovesKept, moved
  <2> QED
    BY <2>1, <2>2, <2>3, <2>4 DEF IInv
<1>8. ASSUME NEW mg \in [Prefixes -> Shards \cup {None}], agentAnswers(mg)
      PROVE  IInv'
  <2>1. VertexsCounted'
    BY <1>0, <1>8, CountUnchanged DEF agentAnswers
  <2>2. TypeOK'
    BY <1>0, <1>8 DEF agentAnswers, TypeOK
  <2>3. \A v \in todo' : migrations'[Prefix[v]] \in Shards
    BY <1>0, <1>8, PartitionAssumption DEF agentAnswers, TypeOK
  <2>4. Progress'
    BY <1>0, <1>8, <2>3 DEF agentAnswers, Progress
  <2>5. MovesKept'
    BY <1>0, <1>8 DEF agentAnswers, MovesKept, moved
  <2> QED
    BY <2>1, <2>2, <2>4, <2>5 DEF IInv
<1>9. CASE agentFails
  <2>1. VertexsCounted'
    BY <1>0, <1>9, CountUnchanged DEF agentFails
  <2>2. TypeOK'
    BY <1>0, <1>9 DEF agentFails, TypeOK
  <2>3. Progress'
    BY <1>0, <1>9 DEF agentFails, Progress
  <2>4. MovesKept'
    BY <1>0, <1>9 DEF agentFails, MovesKept, moved
  <2> QED
    BY <2>1, <2>2, <2>3, <2>4 DEF IInv
<1>10. ASSUME NEW v \in Vertices, UpdatePrefixShard(v)
       PROVE  IInv'
  <2> DEFINE new == migrations[Prefix[v]]
  <2>1. /\ v \in VertexSet /\ new \in Shards
        /\ UNCHANGED <<VertexSet, modifiedMap>> /\ res' = [res EXCEPT ![v] = new]
    BY <1>0, <1>10 DEF UpdatePrefixShard, Progress, TypeOK
  <2>2. /\ VertexsCounted' /\ VertexsNumInShard' \in [Shards -> Nat]
        /\ PartitionMap' \in [Vertices -> Shards]
        /\ PartitionMap' = [PartitionMap EXCEPT ![v] = new]
    <3>1. CASE PartitionMap[v] = new
      <4>1. UNCHANGED <<PartitionMap, VertexsNumInShard>>
        BY <1>10, <3>1 DEF UpdatePrefixShard
      <4>2. VertexsCounted'
        BY <1>0, <2>1, <4>1, CountUnchanged
      <4> QED
        BY <1>0, <3>1, <4>1, <4>2 DEF TypeOK
    <3>2. CASE PartitionMap[v] # new
      <4>1. moveVertex(v, new)
        BY <1>10, <3>2 DEF UpdatePrefixShard
      <4>2. PartitionMap' = [PartitionMap EXCEPT ![v] = new]
        BY <4>1 DEF moveVertex
      <4> HIDE DEF new
      <4> QED
        BY <1>0, <2>1, <3>2, <4>1, <4>2, MoveCounted
    <3> QED
      BY <3>1, <3>2
  <2>3. MovesKept' /\ res' \in [Vertices -> Shards \cup {None}]
    <3> HIDE DEF new
    <3> QED
      BY <1>0, <2>1, <2>2, MoveKept
  <2>4. TypeOK'
    BY <1>0, <1>10, <2>2, <2>3 DEF UpdatePrefixShard, TypeOK
  <2>5. Progress'
    BY <1>0, <1>10 DEF UpdatePrefixShard, Progress
  <2> QED
    BY <2>2, <2>3, <2>4, <2>5 DEF IInv
<1>11. CASE endAERO
  <2>1. VertexsCounted'
    BY <1>0, <1>11, CountUnchanged DEF endAERO
  <2>2. 0 \in Shards
    BY PartitionAssumption DEF Shards
  <2>3. res' \in [Vertices -> Shards \cup {None}]
    BY <1>0, <1>11, <2>2 DEF endAERO, TypeOK
  <2>4. TypeOK'
    BY <1>0, <1>11, <2>3 DEF endAERO, TypeOK
  <2>5. Progress'
    BY <1>0, <1>11 DEF endAERO, Progress
  <2>6. \A v \in Vertices \ {FakeAddr} : res'[v] = res[v]
    BY <1>0, <1>11 DEF endAERO, TypeOK
  <2>7. MovesKept'
    BY <1>0, <1>11, <2>6 DEF endAERO, MovesKept, moved
  <2> QED
    BY <2>1, <2>4, <2>5, <2>7 DEF IInv
<1>12. CASE clpaMapSend
  <2>1. /\ VertexSet' = {} /\ VertexsNumInShard' = [k \in Shards |-> 0]
        /\ PartitionMap' = [v \in Vertices |-> moved(v)] /\ modifiedMap' = PartitionMap'
        /\ EdgeSet' = NoEdges /\ res' = NoMoves
    BY <1>12 DEF clpaMapSend, clpaReset
  <2>2. VertexsCounted'
    <3>1. \A k \in Shards : {v \in VertexSet' : PartitionMap'[v] = k} = {}
      BY <2>1
    <3> QED
      BY <2>1, <3>1, FS_EmptySet DEF VertexsCounted
  <2>3. \A v \in Vertices : moved(v) \in Shards
    BY <1>0 DEF TypeOK, moved
  <2>4. PartitionMap' \in [Vertices -> Shards] /\ modifiedMap' \in [Vertices -> Shards]
    BY <2>1, <2>3
  <2>5. EdgeSet' \in [Vertices -> [Vertices -> Nat]]
    BY <2>1 DEF NoEdges
  <2>6. todo' = {}
    BY <1>0, <1>12 DEF clpaMapSend, Progress
  <2>7. epoch' \in 0 .. MaxEpochs
    BY <1>0, <1>12, PartitionAssumption DEF clpaMapSend, Progress, TypeOK
  <2>8. TypeOK'
    BY <1>0, <1>12, <2>1, <2>4, <2>5, <2>6, <2>7, PartitionAssumption
    DEF clpaMapSend, TypeOK, NoMoves, NoMigrations
  <2>9. Progress'
    BY <1>12, <2>6 DEF clpaMapSend, Progress
  <2>10. MovesKept'
    BY <2>1 DEF MovesKept, moved, NoMoves
  <2> QED
    BY <2>2, <2>8, <2>9, <2>10 DEF IInv
<1>13. CASE UNCHANGED vars
  <2>1. VertexsCounted'
    BY <1>0, <1>13, CountUnchanged DEF vars
  <2>2. TypeOK' /\ Progress'
    BY <1>0, <1>13 DEF vars, TypeOK, Progress
  <2>3. MovesKept'
    BY <1>0, <1>13 DEF vars, MovesKept, moved
  <2> QED
    BY <2>1, <2>2, <2>3 DEF IInv
<1> QED
  BY <1>1, <1>2, <1>3, <1>4, <1>5, <1>6, <1>7, <1>8, <1>9, <1>10, <1>11, <1>12, <1>13 DEF Next

-----------------------------------------------------------------------------
(***************************************************************************)
(* The theorems.                                                           *)
(***************************************************************************)

\* The inductive invariant, for every graph and any number of partitions with
\* either algorithm.
THEOREM PartitionInvariant == Spec => []IInv
<1>1. Init => IInv
  BY InitIInv
<1>2. IInv /\ [Next]_vars => IInv'
  BY NextIInv
<1> QED
  BY <1>1, <1>2, PTL DEF Spec

\* The fields of CLPAState, of a partition and of the committee keep their types.
THEOREM PartitionTypes == Spec => []TypeOK
<1>1. IInv => TypeOK
  BY DEF IInv
<1> QED
  BY <1>1, PartitionInvariant, PTL

\* VertexsNumInShard stays the number of vertices in each shard.
THEOREM VertexsNumRight == Spec => []VertexsCounted
<1>1. IInv => VertexsCounted
  BY DEF IInv
<1> QED
  BY <1>1, PartitionInvariant, PTL

\* The map the shards get leads to the partition the algorithm has decided.
THEOREM MapIsComplete == Spec => []MapComplete
<1>1. IInv => MapComplete
  BY DEF IInv, TypeOK, MovesKept, MapComplete
<1> QED
  BY <1>1, PartitionInvariant, PTL

\* CLPA_Partition never empties a shard: the count it tests is right, and more
\* than one vertex in a shard means another one than the vertex that leaves.
THEOREM NoShardEmptied == Spec => ShardsNotEmptied
<1> DEFINE Kept == \A k \in Shards : (\E v \in VertexSet : PartitionMap[v] = k)
                                       => \E v \in VertexSet : PartitionMap'[v] = k
<1>1. ASSUME IInv, [Next]_vars, pc = "clpa"
      PROVE  Kept
  <2>0. TypeOK /\ VertexsCounted
    BY <1>1 DEF IInv
  <2>1. CASE UNCHANGED PartitionMap
    BY <2>1
  <2>2. ASSUME NEW v \in Vertices, NEW new \in Shards, changeShard(v, new)
        PROVE  Kept
    <3>1. /\ v \in VertexSet /\ VertexsNumInShard[PartitionMap[v]] > 1
          /\ PartitionMap' = [PartitionMap EXCEPT ![v] = new]
      BY <2>0, <2>2 DEF changeShard, moveVertex, mayLeave, TypeOK
    <3>2. PartitionMap \in [Vertices -> Shards] /\ VertexSet \subseteq Vertices
      BY <2>0 DEF TypeOK
    <3>3. \A u \in VertexSet : PartitionMap'[u] = IF u = v THEN new ELSE PartitionMap[u]
      BY <3>1, <3>2
    <3>4. PICK u \in VertexSet : u # v /\ PartitionMap[u] = PartitionMap[v]
      <4> DEFINE old == PartitionMap[v]
      <4>1. Cardinality(inShard(old)) > 1
        BY <2>0, <3>1, <3>2 DEF VertexsCounted, inShard
      <4>2. inShard(old) # {v}
        <5>1. Cardinality({v}) = 1
          BY FS_Singleton
        <5> QED
          BY <4>1, <5>1
      <4>3. v \in inShard(old)
        BY <3>1 DEF inShard
      <4>4. \E u \in inShard(old) : u # v
        BY <4>2, <4>3
      <4> QED
        BY <4>4 DEF inShard
    <3> QED
      BY <3>1, <3>3, <3>4
  <2>3. CASE nextIteration
    BY <2>1, <2>3 DEF nextIteration
  <2> QED
    <3>1. ASSUME NEW v \in Vertices, stay(v) PROVE Kept
      BY <2>1, <3>1 DEF stay
    <3>2. CASE endCLPA
      BY <2>1, <3>2 DEF endCLPA
    <3>3. CASE UNCHANGED vars
      BY <2>1, <3>3 DEF vars
    <3>4. \/ \E v \in Vertices, new \in Shards : changeShard(v, new)
          \/ \E v \in Vertices : stay(v)
          \/ nextIteration \/ endCLPA \/ UNCHANGED vars
      BY <1>1 DEF Next, AddEdge, CLPA_Partition, AERO_Partition, agentAnswers, agentFails,
                  UpdatePrefixShard, endAERO, clpaMapSend
    <3> QED
      BY <2>2, <2>3, <3>1, <3>2, <3>3, <3>4
<1>2. IInv /\ [Next]_vars => [pc = "clpa" => Kept]_vars
  BY <1>1
<1> QED
  BY <1>2, PartitionInvariant, PTL DEF Spec, ShardsNotEmptied

-----------------------------------------------------------------------------
(***************************************************************************)
(* The entries of the neighbour lists.                                     *)
(***************************************************************************)

\* AddEdge enters each of two vertices into the list of the other.
Symmetric ==
  \A v, u \in Vertices : EdgeSet[v][u] = EdgeSet[u][v] /\ EdgeSet[v][v] = 0

\* The numbers of entries are natural numbers.
LEMMA EntriesNat ==
  ASSUME TypeOK, NEW E \in SUBSET pairs
  PROVE  /\ IsFiniteSet(E) /\ entries(E) \in Nat
         /\ \A e \in E : EdgeSet[e[1]][e[2]] <= entries(E)
<1> DEFINE w == [e \in pairs |-> EdgeSet[e[1]][e[2]]]
<1>1. VertexSet \in SUBSET Vertices /\ EdgeSet \in [Vertices -> [Vertices -> Nat]]
  BY DEF TypeOK
<1>2. IsFiniteSet(VertexSet)
  BY <1>1, FS_Subset, PartitionAssumption
<1>3. IsFiniteSet(pairs)
  BY <1>2, FS_Product DEF pairs
<1>4. IsFiniteSet(E)
  BY <1>3, FS_Subset
<1>5. \A e \in E : w[e] = EdgeSet[e[1]][e[2]] /\ w[e] \in Nat
  BY <1>1 DEF pairs
<1> HIDE DEF w
<1>6. SumFunctionOnSet(w, E) \in Nat /\ \A e \in E : w[e] <= SumFunctionOnSet(w, E)
  BY <1>4, <1>5, SumNat
<1>7. entries(E) = SumFunctionOnSet(w, E)
  BY DEF entries, w
<1> QED
  BY <1>4, <1>5, <1>6, <1>7

\* The entries of two disjoint sets of pairs.
LEMMA EntriesUnion ==
  ASSUME TypeOK, NEW E \in SUBSET pairs, NEW F \in SUBSET pairs, E \cap F = {}
  PROVE  entries(E \cup F) = entries(E) + entries(F)
<1> DEFINE w == [e \in pairs |-> EdgeSet[e[1]][e[2]]]
<1>1. VertexSet \in SUBSET Vertices /\ EdgeSet \in [Vertices -> [Vertices -> Nat]]
  BY DEF TypeOK
<1>2. IsFiniteSet(E) /\ IsFiniteSet(F)
  BY EntriesNat
<1>3. \A e \in E \cup F : w[e] \in Int
  BY <1>1 DEF pairs
<1> HIDE DEF w
<1>4. SumFunctionOnSet(w, E \cup F) = SumFunctionOnSet(w, E) + SumFunctionOnSet(w, F)
  BY <1>2, <1>3, SumUnion
<1> QED
  BY <1>4 DEF entries, w

\* Pairs without edges.
LEMMA EntriesZero ==
  ASSUME TypeOK, NEW E \in SUBSET pairs, \A e \in E : EdgeSet[e[1]][e[2]] = 0
  PROVE  entries(E) = 0
<1> DEFINE w == [e \in pairs |-> EdgeSet[e[1]][e[2]]]
<1>1. IsFiniteSet(E)
  BY EntriesNat
<1>2. \A e \in E : w[e] = 0
  OBVIOUS
<1> HIDE DEF w
<1>3. SumFunctionOnSet(w, E) = 0
  BY <1>1, <1>2, SumZero
<1> QED
  BY <1>3 DEF entries, w

\* The pairs of a set the other way round have as many entries.
swap(E) == {e \in pairs : <<e[2], e[1]>> \in E}

LEMMA EntriesSwap ==
  ASSUME TypeOK, Symmetric, NEW E \in SUBSET pairs
  PROVE  entries(swap(E)) = entries(E)
<1> DEFINE w == [e \in pairs |-> EdgeSet[e[1]][e[2]]]
           F == {T \in SUBSET E : entries(swap(T)) = entries(T)}
<1>1. VertexSet \in SUBSET Vertices /\ EdgeSet \in [Vertices -> [Vertices -> Nat]]
  BY DEF TypeOK
<1>2. {} \in F
  <2>1. swap({}) = {}
    BY DEF swap
  <2> QED
    BY <2>1
<1>3. ASSUME NEW T \in SUBSET E, IsFiniteSet(T), T # {}, \A x \in T : T \ {x} \in F
      PROVE  T \in F
  <2>1. PICK x \in T : TRUE
    BY <1>3
  <2> DEFINE R == T \ {x}
             y == <<x[2], x[1]>>
  <2>2. /\ x \in pairs /\ y \in pairs /\ x = <<x[1], x[2]>>
        /\ R \in SUBSET pairs /\ T \in SUBSET pairs
    BY DEF pairs
  <2>3. swap(T) = swap(R) \cup {y} /\ y \notin swap(R)
    <3>1. ASSUME NEW e \in pairs PROVE e = y <=> <<e[2], e[1]>> = x
      <4>1. e = <<e[1], e[2]>>
        BY DEF pairs
      <4> QED
        BY <2>2, <4>1
    <3> QED
      BY <2>2, <3>1 DEF swap
  <2>4. swap(R) \in SUBSET pairs /\ {x} \in SUBSET pairs /\ {y} \in SUBSET pairs
    BY <2>2 DEF swap
  <2>5. entries({x}) = EdgeSet[x[1]][x[2]] /\ entries({y}) = EdgeSet[x[2]][x[1]]
    <3>1. ASSUME NEW e \in pairs PROVE entries({e}) = EdgeSet[e[1]][e[2]]
      <4>1. w[e] = EdgeSet[e[1]][e[2]] /\ w[e] \in Int
        BY <1>1 DEF pairs
      <4> HIDE DEF w
      <4>2. IsFiniteSet({}) /\ {} \cup {e} = {e}
        BY FS_EmptySet
      <4>3. SumFunctionOnSet(w, {} \cup {e}) = w[e] + SumFunctionOnSet(w, {})
        BY <4>1, <4>2, SumMore
      <4>4. SumFunctionOnSet(w, {e}) = w[e]
        BY <4>1, <4>2, <4>3, SumEmpty
      <4> QED
        BY <4>1, <4>4 DEF entries, w
    <3> QED
      BY <2>2, <3>1
  <2>6. EdgeSet[x[1]][x[2]] = EdgeSet[x[2]][x[1]]
    BY <1>1, <2>2 DEF Symmetric, pairs
  <2>7. entries(swap(T)) = entries(swap(R)) + entries({y})
    <3>1. swap(R) \cap {y} = {}
      BY <2>3
    <3> QED
      BY <2>3, <2>4, <3>1, EntriesUnion
  <2>8. entries(T) = entries(R) + entries({x})
    <3>1. T = R \cup {x} /\ R \cap {x} = {}
      OBVIOUS
    <3> HIDE DEF R
    <3> QED
      BY <2>2, <2>4, <3>1, EntriesUnion
  <2>9. entries(swap(R)) = entries(R)
    BY <1>3
  <2>10. entries(swap(T)) = entries(T)
    BY <2>5, <2>6, <2>7, <2>8, <2>9
  <2> QED
    BY <2>10
<1>4. IsFiniteSet(E)
  BY EntriesNat
<1> HIDE DEF F
<1>5. \A T \in SUBSET E : IsFiniteSet(T) => T \in F
  BY <1>2, <1>3, FiniteInduction
<1> QED
  BY <1>4, <1>5 DEF F

\* The entries of three disjoint sets of pairs.
LEMMA EntriesThree ==
  ASSUME TypeOK, NEW E \in SUBSET pairs, NEW F \in SUBSET pairs, NEW G \in SUBSET pairs,
         E \cap F = {}, E \cap G = {}, F \cap G = {}
  PROVE  entries(E \cup F \cup G) = entries(E) + entries(F) + entries(G)
<1>1. entries(E \cup F) = entries(E) + entries(F)
  BY EntriesUnion
<1>2. (E \cup F) \in SUBSET pairs /\ (E \cup F) \cap G = {}
  OBVIOUS
<1>3. entries((E \cup F) \cup G) = entries(E \cup F) + entries(G)
  BY <1>2, EntriesUnion
<1> QED
  BY <1>1, <1>3

-----------------------------------------------------------------------------
(***************************************************************************)
(* changeShardRecompute: the counts after a move.                          *)
(***************************************************************************)

\* Pairs across the border of a shard, and pairs inside it.
border(pm, k) == {e \in pairs : pm[e[1]] # pm[e[2]] /\ pm[e[2]] = k}
inside(pm, k) == {e \in pairs : pm[e[1]] = k /\ pm[e[2]] = k}
across(pm) == {e \in pairs : pm[e[1]] # pm[e[2]]}

LEMMA CountsAre ==
  ASSUME NEW pm
  PROVE  /\ edges2Shard(pm) = [k \in Shards |->
                                 entries(border(pm, k)) + entries(inside(pm, k)) \div 2]
         /\ crossShardEdges(pm) = entries(across(pm)) \div 2
BY DEF edges2Shard, crossShardEdges, border, inside, across

\* The pairs of v with the vertices of a shard, itself left out, those with the
\* vertices of neither shard, and the pairs without v.
pairsTo(v, k) == {e \in pairs : e[1] = v /\ e[2] # v /\ PartitionMap[e[2]] = k}
pairsElse(v, old, new) ==
  {e \in pairs : e[1] = v /\ e[2] # v /\ PartitionMap[e[2]] \notin {old, new}}
without(v, E) == {e \in E : e[1] # v /\ e[2] # v}

\* The numbers of entries that changeShardRecompute works with.
LEMMA VertexEntries ==
  ASSUME TypeOK, Symmetric, NEW v \in VertexSet, NEW old, NEW new, old # new
  PROVE  /\ entries(pairsTo(v, old)) = edgesTo(v, old)
         /\ entries(pairsTo(v, new)) = edgesTo(v, new)
         /\ entries(pairsElse(v, old, new))
              = v_outdegree(v) - edgesTo(v, old) - edgesTo(v, new)
         /\ edgesTo(v, old) \in Nat /\ edgesTo(v, new) \in Nat /\ v_outdegree(v) \in Nat
<1> DEFINE loop == {<<v, v>>}
           self(E) == {e \in E : e = <<v, v>>}
<1>1. <<v, v>> \in pairs /\ v \in Vertices
  BY DEF pairs, TypeOK
<1>2. \A e \in pairs : e[1] = v /\ e[2] = v => e = <<v, v>>
  BY DEF pairs
<1>3. ASSUME NEW k PROVE entries(pairsTo(v, k)) = edgesTo(v, k) /\ edgesTo(v, k) \in Nat
  <2> DEFINE all == {e \in pairs : e[1] = v /\ PartitionMap[e[2]] = k}
  <2>1. /\ all = pairsTo(v, k) \cup self(all) /\ pairsTo(v, k) \cap self(all) = {}
        /\ pairsTo(v, k) \in SUBSET pairs /\ self(all) \in SUBSET pairs /\ all \in SUBSET pairs
    BY <1>2 DEF pairsTo
  <2>2. \A e \in self(all) : EdgeSet[e[1]][e[2]] = 0
    BY <1>1 DEF Symmetric
  <2>3. edgesTo(v, k) = entries(all)
    BY DEF edgesTo
  <2> HIDE DEF all, self
  <2>4. entries(self(all)) = 0
    BY <2>1, <2>2, EntriesZero
  <2>5. entries(all) = entries(pairsTo(v, k)) + entries(self(all))
    BY <2>1, EntriesUnion
  <2>6. entries(pairsTo(v, k)) \in Nat
    BY <2>1, EntriesNat
  <2> QED
    BY <2>3, <2>4, <2>5, <2>6
<1> DEFINE all == {e \in pairs : e[1] = v}
           A == pairsTo(v, old)
           B == pairsTo(v, new)
           C == pairsElse(v, old, new)
<1>4. /\ all = A \cup B \cup C \cup loop
      /\ A \in SUBSET pairs /\ B \in SUBSET pairs /\ C \in SUBSET pairs
      /\ A \cap B = {} /\ A \cap C = {} /\ B \cap C = {} /\ (A \cup B \cup C) \cap loop = {}
      /\ loop \in SUBSET pairs /\ (A \cup B \cup C) \in SUBSET pairs
  BY <1>1, <1>2 DEF pairsTo, pairsElse
<1>5. v_outdegree(v) = entries(all)
  BY DEF v_outdegree
<1>6. \A e \in loop : EdgeSet[e[1]][e[2]] = 0
  BY <1>1 DEF Symmetric
<1> HIDE DEF all, A, B, C, loop
<1>7. entries(loop) = 0
  BY <1>4, <1>6, EntriesZero
<1>8. entries(A \cup B \cup C) = entries(A) + entries(B) + entries(C)
  BY <1>4, EntriesThree
<1>9. entries(all) = entries(A \cup B \cup C) + entries(loop)
  BY <1>4, EntriesUnion
<1>10. entries(A) \in Nat /\ entries(B) \in Nat /\ entries(C) \in Nat
  BY <1>4, EntriesNat
<1>11. entries(A) = edgesTo(v, old) /\ entries(B) = edgesTo(v, new)
  BY <1>3 DEF A, B
<1>12. /\ entries(C) = v_outdegree(v) - edgesTo(v, old) - edgesTo(v, new)
       /\ v_outdegree(v) \in Nat
  BY <1>5, <1>7, <1>8, <1>9, <1>10, <1>11
<1> QED
  BY <1>3, <1>12 DEF C

\* Twice a number more under a division by two.
LEMMA HalfMore ==
  ASSUME NEW x \in Nat, NEW y \in Nat
  PROVE  (x + y + y) \div 2 = x \div 2 + y
OBVIOUS

\* The pairs of shard k by the map in force and by one with v moved from old
\* to new.
movedPairs(v, old, new, pm, k) ==
  /\ k = old =>
       /\ border(PartitionMap, k) = without(v, border(PartitionMap, k))
            \cup swap(pairsTo(v, new)) \cup swap(pairsElse(v, old, new))
       /\ inside(PartitionMap, k) = (without(v, inside(PartitionMap, k)) \cup {<<v, v>>})
            \cup pairsTo(v, k) \cup swap(pairsTo(v, k))
       /\ border(pm, k) = without(v, border(PartitionMap, k)) \cup pairsTo(v, k)
       /\ inside(pm, k) = without(v, inside(PartitionMap, k))
  /\ k = new =>
       /\ border(PartitionMap, k) = without(v, border(PartitionMap, k)) \cup pairsTo(v, k)
       /\ inside(PartitionMap, k) = without(v, inside(PartitionMap, k))
       /\ border(pm, k) = without(v, border(PartitionMap, k))
            \cup swap(pairsTo(v, old)) \cup swap(pairsElse(v, old, new))
       /\ inside(pm, k) = (without(v, inside(PartitionMap, k)) \cup {<<v, v>>})
            \cup pairsTo(v, k) \cup swap(pairsTo(v, k))
  /\ k \notin {old, new} =>
       border(pm, k) = border(PartitionMap, k) /\ inside(pm, k) = inside(PartitionMap, k)

\* The border and the inside of each shard change by the pairs of v.
LEMMA MoveSets ==
  ASSUME TypeOK, NEW v \in VertexSet, NEW old, old = PartitionMap[v],
         NEW new \in Shards, new # old,
         NEW pm, pm = [PartitionMap EXCEPT ![v] = new], NEW k \in Shards
  PROVE  movedPairs(v, old, new, pm, k)
<1> USE DEF movedPairs
<1>1. \A x \in VertexSet : pm[x] = IF x = v THEN new ELSE PartitionMap[x]
  BY DEF TypeOK
<1>2. \A e \in pairs : /\ e[1] \in VertexSet /\ e[2] \in VertexSet /\ e = <<e[1], e[2]>>
                       /\ <<e[2], e[1]>> \in pairs
  BY DEF pairs
<1>3. <<v, v>> \in pairs
  BY DEF pairs
<1>4. CASE k = old
  <2>1. border(PartitionMap, k) = without(v, border(PartitionMap, k))
          \cup swap(pairsTo(v, new)) \cup swap(pairsElse(v, old, new))
    BY <1>2, <1>4 DEF border, without, swap, pairsTo, pairsElse
  <2>2. inside(PartitionMap, k) = (without(v, inside(PartitionMap, k)) \cup {<<v, v>>})
          \cup pairsTo(v, k) \cup swap(pairsTo(v, k))
    BY <1>2, <1>3, <1>4 DEF inside, without, swap, pairsTo
  <2>3. border(pm, k) = without(v, border(PartitionMap, k)) \cup pairsTo(v, k)
    BY <1>1, <1>2, <1>4 DEF border, without, pairsTo
  <2>4. inside(pm, k) = without(v, inside(PartitionMap, k))
    BY <1>1, <1>2, <1>4 DEF inside, without
  <2> QED
    BY <1>4, <2>1, <2>2, <2>3, <2>4
<1>5. CASE k = new
  <2>1. border(PartitionMap, k) = without(v, border(PartitionMap, k)) \cup pairsTo(v, k)
    BY <1>2, <1>5 DEF border, without, pairsTo
  <2>2. inside(PartitionMap, k) = without(v, inside(PartitionMap, k))
    BY <1>2, <1>5 DEF inside, without
  <2>3. border(pm, k) = without(v, border(PartitionMap, k))
          \cup swap(pairsTo(v, old)) \cup swap(pairsElse(v, old, new))
    BY <1>1, <1>2, <1>5 DEF border, without, swap, pairsTo, pairsElse
  <2>4. inside(pm, k) = (without(v, inside(PartitionMap, k)) \cup {<<v, v>>})
          \cup pairsTo(v, k) \cup swap(pairsTo(v, k))
    BY <1>1, <1>2, <1>3, <1>5 DEF inside, without, swap, pairsTo
  <2> QED
    BY <1>5, <2>1, <2>2, <2>3, <2>4
<1>6. CASE k \notin {old, new}
  <2>1. border(pm, k) = border(PartitionMap, k)
    BY <1>1, <1>2, <1>6 DEF border
  <2>2. inside(pm, k) = inside(PartitionMap, k)
    BY <1>1, <1>2, <1>6 DEF inside
  <2> QED
    BY <1>6, <2>1, <2>2
<1> QED
  BY <1>4, <1>5, <1>6

\* The counts of ComputeEdges2Shard after a move, by those before it.
LEMMA MoveCounts ==
  ASSUME TypeOK, Symmetric, NEW v \in VertexSet, NEW new \in Shards,
         new # PartitionMap[v], NEW pm, pm = [PartitionMap EXCEPT ![v] = new]
  PROVE  LET old   == PartitionMap[v]
             toOld == edgesTo(v, old)
             toNew == edgesTo(v, new)
             other == v_outdegree(v) - toOld - toNew
             E     == edges2Shard(PartitionMap)
         IN /\ edges2Shard(pm) = [E EXCEPT ![new] = @ + other + toOld,
                                           ![old] = @ - other - toNew]
            /\ crossShardEdges(pm) = crossShardEdges(PartitionMap) + toOld - toNew
<1> DEFINE old   == PartitionMap[v]
           toOld == edgesTo(v, old)
           toNew == edgesTo(v, new)
           other == v_outdegree(v) - toOld - toNew
           E     == edges2Shard(PartitionMap)
           O     == pairsElse(v, old, new)
           To(j) == pairsTo(v, j)
<1>0. old \in Shards
  BY DEF TypeOK
<1>1. /\ entries(To(old)) = toOld /\ entries(To(new)) = toNew /\ entries(O) = other
      /\ toOld \in Nat /\ toNew \in Nat
  BY VertexEntries
<1>2. /\ \A j : To(j) \in SUBSET pairs /\ swap(To(j)) \in SUBSET pairs
      /\ O \in SUBSET pairs /\ swap(O) \in SUBSET pairs
  BY DEF pairsTo, pairsElse, swap
<1>3. other \in Nat
  BY <1>1, <1>2, EntriesNat
<1>4. /\ entries(swap(To(old))) = toOld /\ entries(swap(To(new))) = toNew
      /\ entries(swap(O)) = other
  BY <1>1, <1>2, EntriesSwap
<1>5. \A e \in pairs : e[1] \in VertexSet /\ e[2] \in VertexSet /\ e = <<e[1], e[2]>>
  BY DEF pairs
<1>6. <<v, v>> \in pairs /\ {<<v, v>>} \in SUBSET pairs
  BY DEF pairs
<1>7. ASSUME NEW k \in Shards
      PROVE  edges2Shard(pm)[k] = IF k = old THEN E[k] - other - toNew
                                  ELSE IF k = new THEN E[k] + other + toOld ELSE E[k]
  <2> DEFINE R == without(v, border(PartitionMap, k))
             I == without(v, inside(PartitionMap, k))
             L == {<<v, v>>}
             J == I \cup L
  <2>0. movedPairs(v, old, new, pm, k)
    BY MoveSets
  <2>1. /\ edges2Shard(pm)[k] = entries(border(pm, k)) + entries(inside(pm, k)) \div 2
        /\ E[k] = entries(border(PartitionMap, k)) + entries(inside(PartitionMap, k)) \div 2
    BY CountsAre
  <2>2. /\ R \in SUBSET pairs /\ I \in SUBSET pairs /\ J \in SUBSET pairs
        /\ L \in SUBSET pairs /\ I \cap L = {}
    BY <1>6 DEF without, border, inside
  <2>3. entries(R) \in Nat /\ entries(I) \in Nat
    BY <2>2, EntriesNat
  <2>4. entries(J) = entries(I)
    <3>1. \A e \in L : EdgeSet[e[1]][e[2]] = 0
      BY DEF Symmetric, TypeOK
    <3> HIDE DEF I, L
    <3>2. entries(L) = 0
      BY <2>2, <3>1, EntriesZero
    <3>3. entries(I \cup L) = entries(I) + entries(L)
      BY <2>2, EntriesUnion
    <3> QED
      BY <2>3, <3>2, <3>3
  <2>5. ASSUME NEW j
        PROVE  /\ R \cap To(j) = {} /\ R \cap swap(To(j)) = {} /\ R \cap swap(O) = {}
               /\ J \cap To(j) = {} /\ J \cap swap(To(j)) = {} /\ To(j) \cap swap(To(j)) = {}
               /\ j \in {old, new} => swap(To(j)) \cap swap(O) = {}
    BY <1>5 DEF without, pairsTo, pairsElse, swap
  <2>6. ASSUME NEW j \in {old, new}
        PROVE  /\ entries(R \cup To(j)) = entries(R) + entries(To(j))
               /\ entries(R \cup swap(To(j)) \cup swap(O))
                    = entries(R) + entries(To(j)) + other
               /\ entries(J \cup To(j) \cup swap(To(j))) \div 2
                    = entries(I) \div 2 + entries(To(j))
    <3> HIDE DEF R, I, J, To, O, other, toOld, toNew
    <3>1. entries(R \cup To(j)) = entries(R) + entries(To(j))
      BY <1>2, <2>2, <2>5, EntriesUnion
    <3>2. entries(R \cup swap(To(j)) \cup swap(O))
            = entries(R) + entries(swap(To(j))) + entries(swap(O))
      BY <1>2, <2>2, <2>5, EntriesThree
    <3>3. entries(J \cup To(j) \cup swap(To(j)))
            = entries(J) + entries(To(j)) + entries(swap(To(j)))
      BY <1>2, <2>2, <2>5, EntriesThree
    <3>4. entries(swap(To(j))) = entries(To(j)) /\ entries(To(j)) \in Nat
      BY <1>1, <1>4
    <3>5. (entries(I) + entries(To(j)) + entries(To(j))) \div 2
            = entries(I) \div 2 + entries(To(j))
      BY <2>3, <3>4, HalfMore
    <3> QED
      BY <1>4, <2>4, <3>1, <3>2, <3>3, <3>4, <3>5
  <2>7. entries(I) \div 2 \in Int
    BY <2>3
  <2>8. CASE k = old
    <3>1. /\ border(PartitionMap, k) = R \cup swap(To(new)) \cup swap(O)
          /\ inside(PartitionMap, k) = J \cup To(k) \cup swap(To(k))
          /\ border(pm, k) = R \cup To(k) /\ inside(pm, k) = I
      BY <2>0, <2>8 DEF movedPairs
    <3> HIDE DEF R, I, J, To, O, other, toOld, toNew, E
    <3>2. E[k] = (entries(R) + toNew + other) + (entries(I) \div 2 + toOld)
      BY <1>1, <2>1, <2>6, <2>8, <3>1
    <3>3. edges2Shard(pm)[k] = (entries(R) + toOld) + entries(I) \div 2
      BY <1>1, <2>1, <2>6, <2>8, <3>1
    <3> QED
      BY <1>1, <1>3, <2>3, <2>7, <2>8, <3>2, <3>3
  <2>9. CASE k = new
    <3>1. /\ border(PartitionMap, k) = R \cup To(k) /\ inside(PartitionMap, k) = I
          /\ border(pm, k) = R \cup swap(To(old)) \cup swap(O)
          /\ inside(pm, k) = J \cup To(k) \cup swap(To(k))
      BY <2>0, <2>9 DEF movedPairs
    <3> HIDE DEF R, I, J, To, O, other, toOld, toNew, E
    <3>2. E[k] = (entries(R) + toNew) + entries(I) \div 2
      BY <1>1, <2>1, <2>6, <2>9, <3>1
    <3>3. edges2Shard(pm)[k] = (entries(R) + toOld + other) + (entries(I) \div 2 + toNew)
      BY <1>1, <2>1, <2>6, <2>9, <3>1
    <3> QED
      BY <1>1, <1>3, <2>3, <2>7, <2>9, <3>2, <3>3
  <2>10. CASE k \notin {old, new}
    <3>1. border(pm, k) = border(PartitionMap, k) /\ inside(pm, k) = inside(PartitionMap, k)
      BY <2>0, <2>10 DEF movedPairs
    <3> HIDE DEF E
    <3> QED
      BY <2>1, <2>10, <3>1
  <2> QED
    BY <2>8, <2>9, <2>10
<1>8. crossShardEdges(pm) = crossShardEdges(PartitionMap) + toOld - toNew
  <2> DEFINE P == PartitionMap
             B == {e \in across(P) : /\ ~(e[1] = v /\ P[e[2]] = new)
                                     /\ ~(e[2] = v /\ P[e[1]] = new)}
  <2>1. \A x \in VertexSet : pm[x] = IF x = v THEN new ELSE P[x]
    BY DEF TypeOK
  <2>2. \A e \in pairs : <<e[2], e[1]>> \in pairs
    BY DEF pairs
  <2>3. across(P) = B \cup To(new) \cup swap(To(new))
    BY <1>5, <2>2 DEF across, pairsTo, swap
  <2>4. across(pm) = B \cup To(old) \cup swap(To(old))
    BY <1>5, <2>1, <2>2 DEF across, pairsTo, swap
  <2>5. B \in SUBSET pairs
    BY DEF across
  <2>6. ASSUME NEW j \in {old, new}
        PROVE  B \cap To(j) = {} /\ B \cap swap(To(j)) = {} /\ To(j) \cap swap(To(j)) = {}
    BY <1>5 DEF across, pairsTo, swap
  <2> HIDE DEF B, To
  <2>7. ASSUME NEW j \in {old, new}
        PROVE  entries(B \cup To(j) \cup swap(To(j))) \div 2
                 = entries(B) \div 2 + entries(To(j))
    <3>1. entries(B \cup To(j) \cup swap(To(j)))
            = entries(B) + entries(To(j)) + entries(swap(To(j)))
      BY <1>2, <2>5, <2>6, EntriesThree
    <3>2. entries(swap(To(j))) = entries(To(j)) /\ entries(To(j)) \in Nat
      BY <1>1, <1>4
    <3>3. entries(B) \in Nat
      BY <2>5, EntriesNat
    <3> QED
      BY <3>1, <3>2, <3>3, HalfMore
  <2>8. entries(B) \div 2 \in Int
    BY <2>5, EntriesNat
  <2>9. /\ crossShardEdges(pm) = entries(across(pm)) \div 2
        /\ crossShardEdges(P) = entries(across(P)) \div 2
    BY CountsAre
  <2> HIDE DEF toOld, toNew
  <2>10. /\ entries(across(P)) \div 2 = entries(B) \div 2 + toNew
         /\ entries(across(pm)) \div 2 = entries(B) \div 2 + toOld
    BY <1>1, <2>3, <2>4, <2>7
  <2> QED
    BY <1>1, <2>8, <2>9, <2>10
<1>9. edges2Shard(pm) = [E EXCEPT ![new] = @ + other + toOld, ![old] = @ - other - toNew]
  <2>1. /\ E = [k \in Shards |-> E[k]]
        /\ edges2Shard(pm) = [k \in Shards |-> edges2Shard(pm)[k]]
    BY DEF edges2Shard
  <2> HIDE DEF E, other, toOld, toNew
  <2> QED
    BY <1>0, <1>7, <2>1
<1> QED
  BY <1>8, <1>9

-----------------------------------------------------------------------------
(***************************************************************************)
(* The numbers for the agent.                                              *)
(***************************************************************************)

\* A vertex whose prefix is not in the map of prefixes has no edges.
LEMMA PrefixesCover ==
  ASSUME TypeOK, NEW e \in pairs, Prefix[e[1]] \notin prefixMap
  PROVE  EdgeSet[e[1]][e[2]] = 0
<1> DEFINE v == e[1]
           all == {x \in pairs : x[1] = v}
<1>1. v \in VertexSet /\ EdgeSet[e[1]][e[2]] \in Nat
  BY DEF TypeOK, pairs
<1>2. ~hasEdges(v)
  BY <1>1 DEF prefixMap
<1>3. all \in SUBSET pairs /\ e \in all
  OBVIOUS
<1>4. v_outdegree(v) = entries(all)
  BY DEF v_outdegree
<1> HIDE DEF all
<1>5. entries(all) \in Nat /\ EdgeSet[e[1]][e[2]] <= entries(all)
  BY <1>3, EntriesNat
<1>6. ~(v_outdegree(v) > 0)
  BY <1>1, <1>2 DEF hasEdges
<1> QED
  BY <1>1, <1>4, <1>5, <1>6

LEMMA PrefixesFinite ==
  ASSUME TypeOK
  PROVE  IsFiniteSet(prefixMap)
<1> DEFINE W == {v \in VertexSet : hasEdges(v)}
           f == [v \in W |-> Prefix[v]]
<1>1. W \in SUBSET Vertices
  BY DEF TypeOK
<1>2. IsFiniteSet(W)
  BY <1>1, FS_Subset, PartitionAssumption
<1>3. prefixMap = {Prefix[v] : v \in W}
  BY DEF prefixMap
<1> HIDE DEF W
<1>4. f \in Surjection(W, prefixMap)
  BY <1>3 DEF Surjection
<1> QED
  BY <1>2, <1>4, FS_Surjection

\* The entries of a set of pairs, summed up prefix by prefix.
LEMMA ByPrefix ==
  ASSUME TypeOK, NEW E \in SUBSET pairs,
         NEW g, \A p \in prefixMap : g[p] = entries({e \in E : Prefix[e[1]] = p})
  PROVE  SumFunctionOnSet(g, prefixMap) = entries(E)
<1> DEFINE w == [e \in pairs |-> EdgeSet[e[1]][e[2]]]
           A == {e \in E : Prefix[e[1]] \in prefixMap}
           B == {e \in E : Prefix[e[1]] \notin prefixMap}
           class == [e \in pairs |-> Prefix[e[1]]]
<1>1. /\ A \in SUBSET pairs /\ B \in SUBSET pairs /\ A \cap B = {} /\ A \cup B = E
  OBVIOUS
<1>2. \A e \in B : EdgeSet[e[1]][e[2]] = 0
  BY PrefixesCover
<1>3. \A e \in A : w[e] \in Int /\ class[e] \in prefixMap
  BY DEF TypeOK, pairs
<1>4. IsFiniteSet(prefixMap)
  BY PrefixesFinite
<1>5. ASSUME NEW p \in prefixMap
      PROVE  g[p] = SumFunctionOnSet(w, classOf(class, A, p))
  <2>1. classOf(class, A, p) = {e \in E : Prefix[e[1]] = p}
    BY DEF classOf
  <2> QED
    BY <2>1 DEF entries
<1> HIDE DEF w, A, B, class
<1>6. entries(B) = 0
  BY <1>1, <1>2, EntriesZero
<1>7. entries(E) = entries(A) + entries(B)
  BY <1>1, EntriesUnion
<1>8. IsFiniteSet(A) /\ entries(A) \in Nat
  BY <1>1, EntriesNat
<1>9. SumFunctionOnSet(g, prefixMap) = SumFunctionOnSet(w, A)
  BY <1>3, <1>4, <1>5, <1>8, SumClasses
<1>10. SumFunctionOnSet(w, A) = entries(A)
  BY DEF entries, w
<1> QED
  BY <1>6, <1>7, <1>8, <1>9, <1>10

\* There are two entries for each edge between two shards.
LEMMA AcrossEven ==
  ASSUME TypeOK, Symmetric
  PROVE  entries(across(PartitionMap)) = 2 * crossShardEdges(PartitionMap)
<1> DEFINE P == PartitionMap
           A == {e \in pairs : P[e[1]] < P[e[2]]}
<1>1. \A v \in VertexSet : P[v] \in Int
  BY PartitionAssumption DEF TypeOK, Shards
<1>2. \A e \in pairs : /\ e[1] \in VertexSet /\ e[2] \in VertexSet
                       /\ <<e[2], e[1]>> \in pairs
  BY DEF pairs
<1>3. swap(A) = {e \in pairs : P[e[2]] < P[e[1]]}
  BY <1>2 DEF swap
<1>4. /\ across(P) = A \cup swap(A) /\ A \cap swap(A) = {}
      /\ A \in SUBSET pairs /\ swap(A) \in SUBSET pairs
  <2>1. ASSUME NEW e \in pairs
        PROVE  (P[e[1]] # P[e[2]] <=> P[e[1]] < P[e[2]] \/ P[e[2]] < P[e[1]])
               /\ ~(P[e[1]] < P[e[2]] /\ P[e[2]] < P[e[1]])
    <3>1. P[e[1]] \in Int /\ P[e[2]] \in Int
      BY <1>1, <1>2
    <3> QED
      BY <3>1
  <2>2. across(P) = A \cup {e \in pairs : P[e[2]] < P[e[1]]}
    BY <2>1 DEF across
  <2>3. A \cap {e \in pairs : P[e[2]] < P[e[1]]} = {}
    BY <2>1
  <2> QED
    BY <1>3, <2>2, <2>3
<1> HIDE DEF A
<1>5. entries(across(P)) = entries(A) + entries(swap(A))
  BY <1>4, EntriesUnion
<1>6. entries(swap(A)) = entries(A) /\ entries(A) \in Nat
  BY <1>4, EntriesSwap, EntriesNat
<1>7. crossShardEdges(P) = entries(across(P)) \div 2
  BY CountsAre
<1>8. (entries(A) + entries(A)) \div 2 = entries(A)
  BY <1>6
<1>9. crossShardEdges(P) = entries(A) /\ entries(across(P)) = entries(A) + entries(A)
  BY <1>5, <1>6, <1>7, <1>8
<1> QED
  BY <1>6, <1>9

\* What AERO_Partition writes is right.
LEMMA PayloadRight ==
  ASSUME TypeOK, Symmetric, NEW cur \in currentShards, NEW load,
         load = AEROStatePayload(cur)
  PROVE  /\ load.GlobalCSTX = 2 * crossShardEdges(PartitionMap)
         /\ load.GlobalTX = entries(pairs)
         /\ SumFunction(load.ShardLoads) = load.GlobalTX
         /\ \A p \in prefixMap :
              SumFunction([k \in Shards |-> EdgesToShard(p, k)]) = TXVolume(p)
<1> DEFINE tx == [p \in prefixMap |-> TXVolume(p)]
           cstx == [p \in prefixMap |-> CSTXVolume(p)]
           loads == [k \in Shards |-> SumFunctionOnSet(tx, {p \in prefixMap : cur[p] = k})]
<1>0. IsFiniteSet(Shards)
  BY FS_Interval, PartitionAssumption DEF Shards
<1>1. load.GlobalCSTX = SumFunctionOnSet(cstx, prefixMap)
  BY DEF AEROStatePayload, sumCSTX
<1>2. load.GlobalTX = SumFunctionOnSet(tx, prefixMap)
  BY DEF AEROStatePayload, sumTX
<1>3. load.ShardLoads = loads
  BY DEF AEROStatePayload, sumTX
<1>4. SumFunctionOnSet(tx, prefixMap) = entries(pairs)
  <2>1. \A p \in prefixMap : tx[p] = entries({e \in pairs : Prefix[e[1]] = p})
    BY DEF TXVolume
  <2> HIDE DEF tx
  <2> QED
    BY <2>1, ByPrefix
<1>5. SumFunctionOnSet(cstx, prefixMap) = entries(across(PartitionMap))
  <2> DEFINE E == across(PartitionMap)
  <2>1. \A p \in prefixMap : cstx[p] = entries({e \in E : Prefix[e[1]] = p})
    <3> TAKE p \in prefixMap
    <3>1. {e \in E : Prefix[e[1]] = p}
            = {e \in pairs : Prefix[e[1]] = p /\ PartitionMap[e[1]] # PartitionMap[e[2]]}
      BY DEF across
    <3> QED
      BY <3>1 DEF CSTXVolume
  <2>2. E \in SUBSET pairs
    BY DEF across
  <2> HIDE DEF cstx, E
  <2>3. SumFunctionOnSet(cstx, prefixMap) = entries(E)
    BY <2>1, <2>2, ByPrefix
  <2> QED
    BY <2>3 DEF E
<1>6. SumFunction(loads) = SumFunctionOnSet(tx, prefixMap)
  <2>1. \A p \in prefixMap : tx[p] \in Int /\ cur[p] \in Shards
    <3> TAKE p \in prefixMap
    <3> DEFINE V == {e \in pairs : Prefix[e[1]] = p}
    <3>1. tx[p] = entries(V) /\ V \in SUBSET pairs
      BY DEF TXVolume
    <3>2. cur[p] \in Shards
      BY DEF currentShards
    <3> HIDE DEF V, tx
    <3> QED
      BY <3>1, <3>2, EntriesNat
  <2>2. IsFiniteSet(prefixMap)
    BY PrefixesFinite
  <2>3. \A k \in Shards : loads[k] = SumFunctionOnSet(tx, classOf(cur, prefixMap, k))
    BY DEF classOf
  <2>4. SumFunction(loads) = SumFunctionOnSet(loads, Shards)
    BY DEF SumFunction
  <2> HIDE DEF tx, loads
  <2>5. SumFunctionOnSet(loads, Shards) = SumFunctionOnSet(tx, prefixMap)
    BY <1>0, <2>1, <2>2, <2>3, SumClasses
  <2> QED
    BY <2>4, <2>5
<1>7. ASSUME NEW p \in prefixMap
      PROVE  SumFunction([k \in Shards |-> EdgesToShard(p, k)]) = TXVolume(p)
  <2> DEFINE w == [e \in pairs |-> EdgeSet[e[1]][e[2]]]
             V == {e \in pairs : Prefix[e[1]] = p}
             class == [e \in pairs |-> PartitionMap[e[2]]]
             g == [k \in Shards |-> EdgesToShard(p, k)]
  <2>1. V \in SUBSET pairs
    OBVIOUS
  <2>2. \A e \in V : w[e] \in Int /\ class[e] \in Shards
    BY DEF TypeOK, pairs
  <2>3. ASSUME NEW k \in Shards
        PROVE  g[k] = SumFunctionOnSet(w, classOf(class, V, k))
    <3>1. classOf(class, V, k)
            = {e \in pairs : Prefix[e[1]] = p /\ PartitionMap[e[2]] = k}
      BY DEF classOf
    <3> QED
      BY <3>1 DEF EdgesToShard, entries
  <2>4. SumFunction(g) = SumFunctionOnSet(g, Shards)
    BY DEF SumFunction
  <2>5. TXVolume(p) = SumFunctionOnSet(w, V)
    BY DEF TXVolume, entries
  <2> HIDE DEF w, V, class, g
  <2>6. IsFiniteSet(V)
    BY <2>1, EntriesNat
  <2>7. SumFunctionOnSet(g, Shards) = SumFunctionOnSet(w, V)
    BY <1>0, <2>2, <2>3, <2>6, SumClasses
  <2> QED
    BY <2>4, <2>5, <2>7 DEF g
<1> HIDE DEF tx, cstx, loads
<1> QED
  BY <1>1, <1>2, <1>3, <1>4, <1>5, <1>6, <1>7, AcrossEven

-----------------------------------------------------------------------------
(***************************************************************************)
(* The counts and the numbers for the agent, through a run.                *)
(***************************************************************************)

\* A step that leaves the graph alone leaves the numbers of entries alone.
LEMMA GraphSame ==
  ASSUME UNCHANGED graphVars
  PROVE  /\ pairs' = pairs
         /\ \A E : entries(E)' = entries(E)
         /\ \A pm : edges2Shard(pm)' = edges2Shard(pm)
         /\ \A pm : crossShardEdges(pm)' = crossShardEdges(pm)
<1>1. pairs' = pairs /\ VertexSet' = VertexSet /\ EdgeSet' = EdgeSet
  BY DEF graphVars, pairs
<1>2. \A E : entries(E)' = entries(E)
  BY <1>1, Zenon DEF entries
<1>3. \A pm : edges2Shard(pm)' = edges2Shard(pm)
  BY <1>1, <1>2, Zenon DEF edges2Shard
<1>4. \A pm : crossShardEdges(pm)' = crossShardEdges(pm)
  BY <1>1, <1>2, Zenon DEF crossShardEdges
<1> QED
  BY <1>1, <1>2, <1>3, <1>4

\* The graph stays symmetric.
LEMMA SymmetricKept ==
  ASSUME TypeOK, Symmetric, [Next]_vars
  PROVE  Symmetric'
<1>1. ASSUME NEW u \in Vertices, NEW v \in Vertices, AddEdge(u, v)
      PROVE  Symmetric'
  <2>1. EdgeSet \in [Vertices -> [Vertices -> Nat]] /\ u # v
    BY <1>1 DEF AddEdge, TypeOK
  <2>2. EdgeSet' = [EdgeSet EXCEPT ![u][v] = @ + 1, ![v][u] = @ + 1]
    BY <1>1 DEF AddEdge
  <2>3. \A a, b \in Vertices :
          EdgeSet'[a][b] = IF <<a, b>> \in {<<u, v>>, <<v, u>>} THEN EdgeSet[a][b] + 1
                           ELSE EdgeSet[a][b]
    BY <2>1, <2>2
  <2>4. \A a, b \in Vertices : EdgeSet'[a][b] = EdgeSet'[b][a]
    BY <2>3 DEF Symmetric
  <2>5. \A a \in Vertices : EdgeSet'[a][a] = 0
    BY <2>1, <2>3 DEF Symmetric
  <2> QED
    BY <2>4, <2>5 DEF Symmetric
<1>2. CASE clpaMapSend
  BY <1>2 DEF clpaMapSend, clpaReset, NoEdges, Symmetric
<1>3. CASE UNCHANGED EdgeSet
  BY <1>3 DEF Symmetric
<1>4. ASSUME NEW v \in Vertices, NEW new \in Shards, changeShard(v, new)
      PROVE  UNCHANGED EdgeSet
  BY <1>4 DEF changeShard, graphVars
<1>5. ASSUME NEW v \in Vertices, stay(v)
      PROVE  UNCHANGED EdgeSet
  BY <1>5 DEF stay, graphVars
<1>6. ASSUME NEW m, agentAnswers(m)
      PROVE  UNCHANGED EdgeSet
  BY <1>6 DEF agentAnswers, graphVars
<1>7. ASSUME NEW v \in Vertices, UpdatePrefixShard(v)
      PROVE  UNCHANGED EdgeSet
  BY <1>7 DEF UpdatePrefixShard, graphVars
<1>8. CASE CLPA_Partition \/ nextIteration \/ endCLPA
  BY <1>3, <1>8 DEF CLPA_Partition, nextIteration, endCLPA, graphVars
<1>9. CASE AERO_Partition \/ agentFails \/ endAERO
  BY <1>3, <1>9 DEF AERO_Partition, agentFails, endAERO, graphVars
<1>10. CASE UNCHANGED vars
  BY <1>3, <1>10 DEF vars, graphVars
<1> QED
  BY <1>1, <1>2, <1>3, <1>4, <1>5, <1>6, <1>7, <1>8, <1>9, <1>10 DEF Next

\* ComputeEdges2Shard makes the counts exact.
LEMMA CountsComputed ==
  ASSUME ComputeEdges2Shard(PartitionMap), UNCHANGED <<graphVars, PartitionMap>>
  PROVE  /\ CountsExact'
         /\ CrossShardEdgeNum' = crossShardEdges(PartitionMap)
<1>1. /\ edges2Shard(PartitionMap)' = edges2Shard(PartitionMap)
      /\ crossShardEdges(PartitionMap)' = crossShardEdges(PartitionMap)
  BY GraphSame
<1> QED
  BY <1>1 DEF ComputeEdges2Shard, CountsExact

\* changeShardRecompute keeps them exact.
LEMMA CountsMoved ==
  ASSUME TypeOK, Symmetric, CountsExact, pc = "clpa",
         NEW v \in VertexSet, NEW new \in Shards, new # PartitionMap[v],
         changeShardRecompute(v, PartitionMap[v], new),
         PartitionMap' = [PartitionMap EXCEPT ![v] = new], UNCHANGED graphVars
  PROVE  CountsExact'
<1> DEFINE old   == PartitionMap[v]
           toOld == edgesTo(v, old)
           toNew == edgesTo(v, new)
           other == v_outdegree(v) - toOld - toNew
           edges == [Edges2Shard EXCEPT ![new] = @ + other + toOld,
                                        ![old] = @ - other - toNew]
<1>1. PICK pm : pm = PartitionMap'
  OBVIOUS
<1>2. /\ Edges2Shard = edges2Shard(PartitionMap)
      /\ CrossShardEdgeNum = crossShardEdges(PartitionMap)
  BY DEF CountsExact
<1>3. /\ Edges2Shard' = edges /\ CrossShardEdgeNum' = CrossShardEdgeNum + toOld - toNew
      /\ MinEdges2Shard' = Min({edges[k] : k \in Shards})
  BY DEF changeShardRecompute
<1>4. edges2Shard(pm) = edges /\ crossShardEdges(pm) = CrossShardEdgeNum + toOld - toNew
  BY <1>1, <1>2, MoveCounts
<1> HIDE DEF toOld, toNew, edges
<1>5. /\ edges2Shard(PartitionMap)' = edges2Shard(pm)
      /\ crossShardEdges(PartitionMap)' = crossShardEdges(pm)
  BY <1>1, GraphSame
<1> QED
  BY <1>3, <1>4, <1>5 DEF CountsExact

\* The volumes of the prefixes of an unchanged graph.
LEMMA VolumesSame ==
  ASSUME UNCHANGED <<graphVars, PartitionMap>>
  PROVE  /\ (entries(pairs))' = entries(pairs)
         /\ (\A p \in prefixMap :
               SumFunction([k \in Shards |-> EdgesToShard(p, k)]) = TXVolume(p))
            => (\A p \in prefixMap :
                  SumFunction([k \in Shards |-> EdgesToShard(p, k)]) = TXVolume(p))'
<1>1. VertexSet' = VertexSet /\ PartitionMap' = PartitionMap
  BY DEF graphVars
<1>2. pairs' = pairs /\ \A E : entries(E)' = entries(E)
  BY GraphSame
<1>3. prefixMap' = prefixMap
  BY <1>1, <1>2, Zenon DEF prefixMap, hasEdges, v_outdegree
<1>4. \A p : TXVolume(p)' = TXVolume(p)
  BY <1>2, Zenon DEF TXVolume
<1>5. \A p, k : EdgesToShard(p, k)' = EdgesToShard(p, k)
  BY <1>1, <1>2, Zenon DEF EdgesToShard
<1>6. ASSUME NEW p
      PROVE  [k \in Shards |-> EdgesToShard(p, k)'] = [k \in Shards |-> EdgesToShard(p, k)]
  BY <1>5
<1> QED
  BY <1>2, <1>3, <1>4, <1>6

\* What AERO_Partition writes agrees with the graph.
LEMMA PayloadWritten ==
  ASSUME TypeOK, Symmetric, AERO_Partition
  PROVE  PayloadExact'
<1>1. UNCHANGED <<graphVars, PartitionMap>> /\ VertexSet' = VertexSet
  BY DEF AERO_Partition, graphVars
<1>2. CrossShardEdgeNum' = crossShardEdges(PartitionMap)
  BY <1>1, CountsComputed DEF AERO_Partition
<1>3. PICK cur \in currentShards : payload' = AEROStatePayload(cur)
  BY DEF AERO_Partition
<1>4. PICK load : load = payload'
  OBVIOUS
<1>5. /\ load.GlobalCSTX = 2 * crossShardEdges(PartitionMap)
      /\ load.GlobalTX = entries(pairs)
      /\ SumFunction(load.ShardLoads) = load.GlobalTX
      /\ \A p \in prefixMap : SumFunction([k \in Shards |-> EdgesToShard(p, k)]) = TXVolume(p)
  BY <1>3, <1>4, PayloadRight
<1> QED
  BY <1>1, <1>2, <1>4, <1>5, VolumesSame DEF PayloadExact

\* The graph's part of the inductive invariant.
GraphInv == Symmetric /\ CountsExact /\ PayloadExact

\* Every step keeps it: a count is computed anew or follows a move, and the
\* payload is read before anything else happens.
LEMMA NextGraph ==
  IInv /\ GraphInv /\ [Next]_vars => GraphInv'
<1> SUFFICES ASSUME IInv, GraphInv, [Next]_vars PROVE GraphInv'
  OBVIOUS
<1> USE DEF graphVars, edgeCounts
<1>0. TypeOK /\ Symmetric /\ CountsExact /\ PayloadExact
  BY DEF IInv, GraphInv
<1>1. Symmetric'
  BY <1>0, SymmetricKept
<1>2. CASE pc' \notin {"clpa", "agent"}
  BY <1>1, <1>2 DEF CountsExact, PayloadExact, GraphInv
<1>3. CASE CLPA_Partition
  <2>1. CountsExact'
    BY <1>3, CountsComputed DEF CLPA_Partition
  <2> QED
    BY <1>1, <1>3, <2>1 DEF CLPA_Partition, PayloadExact, GraphInv
<1>4. ASSUME NEW v \in Vertices, NEW new \in Shards, changeShard(v, new)
      PROVE  GraphInv'
  <2>1. /\ pc = "clpa" /\ pc' = "clpa" /\ v \in VertexSet /\ new # PartitionMap[v]
        /\ changeShardRecompute(v, PartitionMap[v], new) /\ UNCHANGED graphVars
        /\ PartitionMap' = [PartitionMap EXCEPT ![v] = new]
    BY <1>0, <1>4 DEF changeShard, moveVertex, TypeOK
  <2>2. CountsExact'
    BY <1>0, <2>1, CountsMoved
  <2> QED
    BY <1>1, <2>1, <2>2 DEF PayloadExact, GraphInv
<1>5. ASSUME pc = "clpa", pc' = "clpa", UNCHANGED <<graphVars, PartitionMap, edgeCounts>>
      PROVE  GraphInv'
  <2>1. /\ edges2Shard(PartitionMap)' = edges2Shard(PartitionMap)
        /\ crossShardEdges(PartitionMap)' = crossShardEdges(PartitionMap)
    BY <1>5, GraphSame
  <2>2. CountsExact'
    BY <1>0, <1>5, <2>1 DEF CountsExact
  <2> QED
    BY <1>1, <1>5, <2>2 DEF PayloadExact, GraphInv
<1>6. ASSUME NEW v \in Vertices, stay(v)
      PROVE  GraphInv'
  BY <1>5, <1>6 DEF stay
<1>7. CASE nextIteration
  BY <1>5, <1>7 DEF nextIteration
<1>8. CASE AERO_Partition
  <2>1. PayloadExact'
    BY <1>0, <1>8, PayloadWritten
  <2> QED
    BY <1>1, <1>8, <2>1 DEF AERO_Partition, CountsExact, GraphInv
<1>9. CASE UNCHANGED vars
  <2>1. UNCHANGED <<VertexSet, EdgeSet, PartitionMap, edgeCounts, pc, payload>>
    BY <1>9 DEF vars, aeroVars
  <2>2. CountsExact'
    <3>1. /\ edges2Shard(PartitionMap)' = edges2Shard(PartitionMap)
          /\ crossShardEdges(PartitionMap)' = crossShardEdges(PartitionMap)
      BY <2>1, GraphSame
    <3> QED
      BY <1>0, <2>1, <3>1 DEF CountsExact
  <2>3. PayloadExact'
    BY <1>0, <2>1, VolumesSame DEF PayloadExact
  <2> QED
    BY <1>1, <2>2, <2>3 DEF GraphInv
<1>10. ASSUME NEW u \in Vertices, NEW v \in Vertices, AddEdge(u, v)
       PROVE  pc' = "collect"
  BY <1>10 DEF AddEdge
<1>11. ASSUME NEW m, agentAnswers(m)
       PROVE  pc' = "aero"
  BY <1>11 DEF agentAnswers
<1>12. ASSUME NEW v \in Vertices, UpdatePrefixShard(v)
       PROVE  pc' = "aero"
  BY <1>12 DEF UpdatePrefixShard
<1>13. endCLPA \/ agentFails \/ endAERO \/ clpaMapSend => pc' \notin {"clpa", "agent"}
  BY DEF endCLPA, agentFails, endAERO, clpaMapSend
<1> QED
  BY <1>2, <1>3, <1>4, <1>6, <1>7, <1>8, <1>9, <1>10, <1>11, <1>12, <1>13 DEF Next

\* The graph is symmetric, the counts of label propagation are those of the
\* graph, and so are the numbers for the agent.
THEOREM GraphInvariant == Spec => []GraphInv
<1>1. Init => GraphInv
  BY DEF Init, GraphInv, NoEdges, Symmetric, CountsExact, PayloadExact
<1>2. IInv /\ GraphInv /\ [Next]_vars => GraphInv'
  BY NextGraph
<1> QED
  BY <1>1, <1>2, PartitionInvariant, PTL DEF Spec

\* After any number of moves the counts that changeShardRecompute keeps up are
\* those that ComputeEdges2Shard would find.
THEOREM CountsAreExact == Spec => []CountsExact
<1>1. GraphInv => CountsExact
  BY DEF GraphInv
<1> QED
  BY <1>1, GraphInvariant, PTL

\* No score of getShard_score is 0/0: the entry for an edge across the border of
\* a shard, or the two for one inside it, are among those counted for it.
THEOREM ScoresDefined == Spec => []ScoreDefined
<1>1. ASSUME TypeOK, GraphInv
      PROVE  ScoreDefined
  <2> SUFFICES ASSUME pc = "clpa", NEW v \in VertexSet, NEW u \in VertexSet,
                      EdgeSet[v][u] > 0
               PROVE  Edges2Shard[PartitionMap[u]] > 0
    BY DEF ScoreDefined
  <2> DEFINE k == PartitionMap[u]
             B == border(PartitionMap, k)
             I == inside(PartitionMap, k)
             a == <<v, u>>
             b == <<u, v>>
  <2>1. Symmetric /\ Edges2Shard = edges2Shard(PartitionMap)
    BY <1>1 DEF GraphInv, CountsExact
  <2>2. v \in Vertices /\ u \in Vertices /\ k \in Shards /\ EdgeSet[v][u] \in Nat
    BY <1>1 DEF TypeOK
  <2>3. Edges2Shard[k] = entries(B) + entries(I) \div 2
    BY <2>1, <2>2, CountsAre
  <2>4. a \in pairs /\ b \in pairs /\ B \in SUBSET pairs /\ I \in SUBSET pairs
    BY DEF pairs, border, inside
  <2>5. EdgeSet[u][v] = EdgeSet[v][u] /\ u # v
    BY <2>1, <2>2 DEF Symmetric
  <2>6. entries(B) \in Nat /\ entries(I) \in Nat
    BY <1>1, <2>4, EntriesNat
  <2>7. CASE PartitionMap[v] # k
    <3>1. a \in B
      BY <2>4, <2>7 DEF border
    <3>2. EdgeSet[a[1]][a[2]] <= entries(B)
      BY <1>1, <2>4, <3>1, EntriesNat
    <3> HIDE DEF B, I
    <3>3. entries(B) > 0 /\ entries(I) \div 2 >= 0
      BY <2>2, <2>6, <3>2
    <3> QED
      BY <2>3, <2>6, <3>3
  <2>8. CASE PartitionMap[v] = k
    <3> DEFINE J == I \ {b}
    <3>1. a \in J /\ b \in I /\ I = J \cup {b} /\ J \cap {b} = {}
      BY <2>4, <2>5, <2>8 DEF inside
    <3>2. J \in SUBSET pairs /\ {b} \in SUBSET pairs
      BY <2>4
    <3> HIDE DEF I, J, B
    <3>3. EdgeSet[a[1]][a[2]] <= entries(J) /\ entries(J) \in Nat
      BY <1>1, <3>1, <3>2, EntriesNat
    <3>4. EdgeSet[b[1]][b[2]] <= entries({b}) /\ entries({b}) \in Nat
      BY <1>1, <3>2, EntriesNat
    <3>5. entries(I) = entries(J) + entries({b})
      BY <1>1, <3>1, <3>2, EntriesUnion
    <3>6. EdgeSet[a[1]][a[2]] = EdgeSet[v][u] /\ EdgeSet[b[1]][b[2]] = EdgeSet[v][u]
      BY <2>5
    <3>7. entries(I) >= 2
      BY <2>2, <3>3, <3>4, <3>5, <3>6
    <3>8. entries(I) \div 2 > 0
      BY <2>6, <3>7
    <3> QED
      BY <2>3, <2>6, <3>8
  <2> QED
    BY <2>7, <2>8
<1>2. IInv => TypeOK
  BY DEF IInv
<1> QED
  BY <1>1, <1>2, PartitionInvariant, GraphInvariant, PTL

\* The numbers that AERO_Partition writes for the agent agree with the graph.
THEOREM PayloadIsExact == Spec => []PayloadExact
<1>1. GraphInv => PayloadExact
  BY DEF GraphInv
<1> QED
  BY <1>1, GraphInvariant, PTL

=============================================================================
