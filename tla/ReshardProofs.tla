---------------------------- MODULE ReshardProofs ----------------------------
(***************************************************************************)
(* The accounts and transactions of module Reshard: types, and that no     *)
(* transaction is debited or credited twice or credited before it is       *)
(* debited, and that an account that moves keeps its balance.              *)
(***************************************************************************)
EXTENDS Reshard, SumTheorems, SequenceTheorems

(***************************************************************************)
(* Lists and loops.                                                        *)
(***************************************************************************)

\* The list a filter has kept after the first i entries.
LEMMA FilterLoop ==
  ASSUME NEW q, Len(q) \in Nat, NEW S
  PROVE  \E k : /\ k = [i \in 0 .. Len(q) |->
                         IF i = 0 THEN <<>>
                         ELSE IF q[i] \in S THEN Append(k[i - 1], q[i]) ELSE k[i - 1]]
                /\ filter(q, S) = k[Len(q)]
PROOF
<1> DEFINE step(k, i) == IF i = 0 THEN <<>>
                         ELSE IF q[i] \in S THEN Append(k[i - 1], q[i]) ELSE k[i - 1]
           good(k, n) == k = [i \in 0 .. n |-> step(k, i)]
           I == {n \in Nat : \E k : good(k, n)}
<1>1. 0 \in I
  <2>1. good([i \in 0 .. 0 |-> <<>>], 0)
    OBVIOUS
  <2> QED
    BY <2>1
<1>2. ASSUME NEW n \in Nat, n \in I PROVE n + 1 \in I
  <2>1. PICK k : good(k, n)
    BY <1>2
  <2> DEFINE l == [i \in 0 .. n + 1 |-> IF i <= n THEN k[i] ELSE step(k, i)]
  <2>2. \A i \in 0 .. n + 1 : l[i] = step(l, i)
    <3> SUFFICES ASSUME NEW i \in 0 .. n + 1 PROVE l[i] = step(l, i)
      OBVIOUS
    <3>1. i # 0 => i - 1 \in 0 .. n + 1 /\ i - 1 <= n
      OBVIOUS
    <3>2. i # 0 => l[i - 1] = k[i - 1]
      BY <3>1
    <3>3. step(l, i) = step(k, i)
      BY <3>2
    <3>4. l[i] = step(k, i)
      <4>1. i <= n => k[i] = step(k, i)
        <5> HIDE DEF step
        <5> QED
          BY <2>1
      <4> QED
        BY <4>1
    <3> QED
      BY <3>3, <3>4
  <2>3. good(l, n + 1)
    BY <2>2
  <2>4. \E m : good(m, n + 1)
    <3> HIDE DEF good, l
    <3> QED
      BY <2>3
  <2> QED
    BY <2>4
<1>3. Len(q) \in I
  <2> HIDE DEF I
  <2>1. Nat \subseteq I
    BY <1>1, <1>2, InductionOnSet
  <2> QED
    BY <2>1
<1>4. \E k : good(k, Len(q))
  BY <1>3
<1> DEFINE f == CHOOSE k : good(k, Len(q))
<1>5. good(f, Len(q))
  BY <1>4
<1>6. filter(q, S) = f[Len(q)]
  BY DEF filter
<1> QED
  BY <1>5, <1>6

-----------------------------------------------------------------------------
(***************************************************************************)
(* Lists of transactions.                                                  *)
(***************************************************************************)

LEMMA RangeOfList ==
  ASSUME NEW T, NEW q \in Seq(T)
  PROVE  /\ Range(q) = {q[i] : i \in 1 .. Len(q)} /\ Range(q) \subseteq T
         /\ ids(q) = {q[i].id : i \in 1 .. Len(q)}
         /\ DOMAIN q = 1 .. Len(q) /\ Len(q) \in Nat
  BY DEF Range, ids

LEMMA EmptyList ==
  Range(<<>>) = {} /\ ids(<<>>) = {} /\ distinct(<<>>)
  BY DEF Range, ids, distinct

LEMMA AppendList ==
  ASSUME NEW T, NEW q \in Seq(T), NEW x \in T
  PROVE  /\ Append(q, x) \in Seq(T) /\ Range(Append(q, x)) = Range(q) \cup {x}
         /\ distinct(q) /\ x.id \notin ids(q) => distinct(Append(q, x))
PROOF
<1> DEFINE r == Append(q, x)
<1>1. /\ r \in Seq(T) /\ Len(r) = Len(q) + 1 /\ r[Len(q) + 1] = x
      /\ \A i \in 1 .. Len(q) : r[i] = q[i]
  BY AppendProperties
<1> HIDE DEF r
<1>2. Range(r) = Range(q) \cup {x}
  BY <1>1, RangeOfList
<1>3. ASSUME distinct(q), x.id \notin ids(q) PROVE distinct(r)
  <2> SUFFICES ASSUME NEW i \in DOMAIN r, NEW j \in DOMAIN r, r[i].id = r[j].id
               PROVE  i = j
    BY DEF distinct
  <2>1. /\ i \in 1 .. Len(q) + 1 /\ j \in 1 .. Len(q) + 1 /\ Len(q) \in Nat
        /\ DOMAIN q = 1 .. Len(q)
    BY <1>1, RangeOfList
  <2>2. CASE i <= Len(q) /\ j <= Len(q)
    BY <1>1, <1>3, <2>1, <2>2 DEF distinct
  <2>3. CASE i <= Len(q) /\ j = Len(q) + 1
    BY <1>1, <1>3, <2>1, <2>3, RangeOfList
  <2>4. CASE j <= Len(q) /\ i = Len(q) + 1
    BY <1>1, <1>3, <2>1, <2>4, RangeOfList
  <2> QED
    BY <2>1, <2>2, <2>3, <2>4
<1> QED
  BY <1>1, <1>2, <1>3 DEF r

LEMMA ConcatList ==
  ASSUME NEW T, NEW p \in Seq(T), NEW q \in Seq(T)
  PROVE  /\ p \o q \in Seq(T) /\ Range(p \o q) = Range(p) \cup Range(q)
         /\ ids(p \o q) = ids(p) \cup ids(q)
         /\ distinct(p \o q) <=> distinct(p) /\ distinct(q) /\ ids(p) \cap ids(q) = {}
PROOF
<1> DEFINE r == p \o q
<1>1. /\ r \in Seq(T) /\ Len(r) = Len(p) + Len(q)
      /\ \A i \in 1 .. Len(p) : r[i] = p[i]
      /\ \A i \in 1 .. Len(q) : r[Len(p) + i] = q[i]
  BY ConcatProperties
<1>2. Range(r) = Range(p) \cup Range(q)
  BY RangeConcatenation
<1>3. ids(r) = ids(p) \cup ids(q)
  BY <1>2 DEF ids
<1> HIDE DEF r
<1>4. /\ DOMAIN p = 1 .. Len(p) /\ DOMAIN q = 1 .. Len(q)
      /\ DOMAIN r = 1 .. Len(p) + Len(q) /\ Len(p) \in Nat /\ Len(q) \in Nat
  BY <1>1, RangeOfList
<1>5. ASSUME distinct(p), distinct(q), ids(p) \cap ids(q) = {} PROVE distinct(r)
  <2> SUFFICES ASSUME NEW i \in DOMAIN r, NEW j \in DOMAIN r, r[i].id = r[j].id
               PROVE  i = j
    BY DEF distinct
  <2> DEFINE n == Len(p)
  <2>1. \A k \in DOMAIN r : k > n => k - n \in DOMAIN q /\ r[k] = q[k - n]
    BY <1>1, <1>4
  <2>2. \A k \in DOMAIN r : k <= n => k \in DOMAIN p /\ r[k] = p[k]
    BY <1>1, <1>4
  <2>3. CASE i <= n /\ j <= n
    BY <1>5, <2>2, <2>3 DEF distinct
  <2>4. CASE i > n /\ j > n
    <3>1. i - n = j - n
      BY <1>5, <2>1, <2>4 DEF distinct
    <3> QED
      BY <3>1, <1>4
  <2>5. ASSUME NEW k \in DOMAIN r, NEW l \in DOMAIN r, k <= n, l > n
        PROVE  r[k].id # r[l].id
    <3>1. r[k].id \in ids(p) /\ r[l].id \in ids(q)
      BY <1>4, <2>1, <2>2, <2>5, RangeOfList
    <3> QED
      BY <1>5, <3>1
  <2> QED
    BY <1>4, <2>3, <2>4, <2>5
<1>6. ASSUME distinct(r) PROVE distinct(p) /\ distinct(q) /\ ids(p) \cap ids(q) = {}
  <2>1. distinct(p)
    BY <1>1, <1>4, <1>6 DEF distinct
  <2>2. distinct(q)
    <3> SUFFICES ASSUME NEW i \in DOMAIN q, NEW j \in DOMAIN q, q[i].id = q[j].id
                 PROVE  i = j
      BY DEF distinct
    <3>1. Len(p) + i \in DOMAIN r /\ Len(p) + j \in DOMAIN r
      BY <1>4
    <3>2. Len(p) + i = Len(p) + j
      BY <1>1, <1>4, <1>6, <3>1 DEF distinct
    <3> QED
      BY <1>4, <3>2
  <2>3. ASSUME NEW x \in ids(p), x \in ids(q) PROVE FALSE
    <3>1. PICK i \in 1 .. Len(p) : x = p[i].id
      BY RangeOfList
    <3>2. PICK j \in 1 .. Len(q) : x = q[j].id
      BY <2>3, RangeOfList
    <3>3. i \in DOMAIN r /\ Len(p) + j \in DOMAIN r
      BY <1>4
    <3>4. i = Len(p) + j
      BY <1>1, <1>6, <3>1, <3>2, <3>3 DEF distinct
    <3> QED
      BY <1>4, <3>4
  <2> QED
    BY <2>1, <2>2, <2>3
<1> QED
  BY <1>1, <1>2, <1>3, <1>5, <1>6 DEF r

\* A filter keeps what is in the set, and does not make an entry twice.
LEMMA FilterList ==
  ASSUME NEW T, NEW q \in Seq(T), NEW S
  PROVE  /\ filter(q, S) \in Seq(T) /\ Range(filter(q, S)) = Range(q) \cap S
         /\ ids(filter(q, S)) \subseteq ids(q)
         /\ distinct(q) => distinct(filter(q, S))
PROOF
<1>1. DOMAIN q = 1 .. Len(q) /\ Len(q) \in Nat
  BY RangeOfList
<1>2. PICK k : /\ k = [i \in 0 .. Len(q) |->
                        IF i = 0 THEN <<>>
                        ELSE IF q[i] \in S THEN Append(k[i - 1], q[i]) ELSE k[i - 1]]
               /\ filter(q, S) = k[Len(q)]
  BY <1>1, FilterLoop
<1>3. k[0] = <<>>
  BY <1>1, <1>2
<1>4. ASSUME NEW i \in Nat, i + 1 <= Len(q)
      PROVE  k[i + 1] = IF q[i + 1] \in S THEN Append(k[i], q[i + 1]) ELSE k[i]
  <2>1. i + 1 \in 0 .. Len(q) /\ i + 1 # 0 /\ (i + 1) - 1 = i
    BY <1>1, <1>4
  <2> QED
    BY <1>2, <2>1
<1> DEFINE good(i) == /\ k[i] \in Seq(T)
                      /\ Range(k[i]) = {q[j] : j \in 1 .. i} \cap S
                      /\ distinct(q) => distinct(k[i])
           I == {i \in Nat : i <= Len(q) => good(i)}
<1>5. 0 \in I
  <2>1. {q[j] : j \in 1 .. 0} = {} /\ <<>> \in Seq(T)
    OBVIOUS
  <2> QED
    BY <1>3, <2>1, EmptyList
<1>6. ASSUME NEW i \in Nat, i \in I PROVE i + 1 \in I
  <2> SUFFICES ASSUME i + 1 <= Len(q) PROVE good(i + 1)
    OBVIOUS
  <2>1. good(i)
    BY <1>1, <1>6
  <2>2. q[i + 1] \in T /\ i + 1 \in DOMAIN q
    BY <1>1
  <2>3. {q[j] : j \in 1 .. i + 1} = {q[j] : j \in 1 .. i} \cup {q[i + 1]}
    <3>1. 1 .. i + 1 = (1 .. i) \cup {i + 1}
      OBVIOUS
    <3> QED
      BY <3>1
  <2>4. CASE q[i + 1] \notin S
    BY <1>4, <2>1, <2>3, <2>4
  <2>5. CASE q[i + 1] \in S
    <3>1. k[i + 1] = Append(k[i], q[i + 1])
      BY <1>4, <2>5
    <3>2. /\ k[i + 1] \in Seq(T) /\ Range(k[i + 1]) = Range(k[i]) \cup {q[i + 1]}
          /\ distinct(k[i]) /\ q[i + 1].id \notin ids(k[i]) => distinct(k[i + 1])
      BY <2>1, <2>2, <3>1, AppendList
    <3>3. ASSUME distinct(q), q[i + 1].id \in ids(k[i]) PROVE FALSE
      <4>1. PICK x \in Range(k[i]) : x.id = q[i + 1].id
        BY <3>3 DEF ids
      <4>2. PICK j \in 1 .. i : x = q[j]
        BY <2>1, <4>1
      <4>3. j = i + 1
        BY <1>1, <2>2, <3>3, <4>1, <4>2 DEF distinct
      <4> QED
        BY <4>3
    <3> QED
      BY <2>1, <2>3, <2>5, <3>2, <3>3
  <2> QED
    BY <2>4, <2>5
<1>7. good(Len(q))
  <2>1. Nat \subseteq I
    <3> HIDE DEF I
    <3> QED
      BY <1>5, <1>6, InductionOnSet
  <2> QED
    BY <1>1, <2>1
<1>8. Range(q) = {q[j] : j \in 1 .. Len(q)}
  BY RangeOfList
<1>9. Range(filter(q, S)) = Range(q) \cap S
  BY <1>2, <1>7, <1>8
<1> QED
  BY <1>2, <1>7, <1>9 DEF ids

-----------------------------------------------------------------------------
(***************************************************************************)
(* The transactions that are taken over, and the execution of a block.     *)
(***************************************************************************)

\* The transactions of the first i shards.
LEMMA ReceivedLoop ==
  ASSUME NEW s
  PROVE  \E k : /\ k = [i \in 0 .. ShardNums |->
                         IF i = 0 THEN <<>>
                         ELSE IF i - 1 \in collected(s) THEN k[i - 1] \o AccountStateTx[s][i - 1].Txs
                              ELSE k[i - 1]]
                /\ ReceivedNewTx(s) = k[ShardNums]
PROOF
<1> DEFINE step(k, i) == IF i = 0 THEN <<>>
                         ELSE IF i - 1 \in collected(s) THEN k[i - 1] \o AccountStateTx[s][i - 1].Txs
                              ELSE k[i - 1]
           good(k, n) == k = [i \in 0 .. n |-> step(k, i)]
           I == {n \in Nat : \E k : good(k, n)}
<1>1. 0 \in I
  <2>1. good([i \in 0 .. 0 |-> <<>>], 0)
    OBVIOUS
  <2> QED
    BY <2>1
<1>2. ASSUME NEW n \in Nat, n \in I PROVE n + 1 \in I
  <2>1. PICK k : good(k, n)
    BY <1>2
  <2> DEFINE l == [i \in 0 .. n + 1 |-> IF i <= n THEN k[i] ELSE step(k, i)]
  <2>2. \A i \in 0 .. n + 1 : l[i] = step(l, i)
    <3> SUFFICES ASSUME NEW i \in 0 .. n + 1 PROVE l[i] = step(l, i)
      OBVIOUS
    <3>1. i # 0 => i - 1 \in 0 .. n + 1 /\ i - 1 <= n
      OBVIOUS
    <3>2. i # 0 => l[i - 1] = k[i - 1]
      BY <3>1
    <3>3. step(l, i) = step(k, i)
      BY <3>2
    <3>4. l[i] = step(k, i)
      <4>1. i <= n => k[i] = step(k, i)
        <5> HIDE DEF step
        <5> QED
          BY <2>1
      <4> QED
        BY <4>1
    <3> QED
      BY <3>3, <3>4
  <2>3. good(l, n + 1)
    BY <2>2
  <2>4. \E m : good(m, n + 1)
    <3> HIDE DEF good, l
    <3> QED
      BY <2>3
  <2> HIDE DEF good
  <2> QED
    BY <2>4
<1>3. ShardNums \in I
  <2> HIDE DEF I
  <2>1. Nat \subseteq I
    BY <1>1, <1>2, InductionOnSet
  <2> QED
    BY <2>1, ReshardAssumption
<1>4. \E k : good(k, ShardNums)
  BY <1>3
<1> DEFINE f == CHOOSE k : good(k, ShardNums)
<1>5. good(f, ShardNums)
  BY <1>4
<1>6. ReceivedNewTx(s) = f[ShardNums]
  BY DEF ReceivedNewTx
<1> QED
  BY <1>5, <1>6

\* What the first i transactions of a block have done.
LEMMA BlockLoop ==
  ASSUME NEW s, NEW txs, Len(txs) \in Nat
  PROVE  \E k : /\ k = [i \in 0 .. Len(txs) |->
                         IF i = 0 THEN [trie |-> trie[s], debits |-> debits, credits |-> credits]
                         ELSE execute(s, k[i - 1], txs[i])]
                /\ GetUpdateStatusTrie(s, txs) = k[Len(txs)]
PROOF
<1> DEFINE step(k, i) == IF i = 0 THEN [trie |-> trie[s], debits |-> debits, credits |-> credits]
                         ELSE execute(s, k[i - 1], txs[i])
           good(k, n) == k = [i \in 0 .. n |-> step(k, i)]
           I == {n \in Nat : \E k : good(k, n)}
<1>1. 0 \in I
  <2>1. good([i \in 0 .. 0 |-> [trie |-> trie[s], debits |-> debits, credits |-> credits]], 0)
    OBVIOUS
  <2> QED
    BY <2>1
<1>2. ASSUME NEW n \in Nat, n \in I PROVE n + 1 \in I
  <2>1. PICK k : good(k, n)
    BY <1>2
  <2> DEFINE l == [i \in 0 .. n + 1 |-> IF i <= n THEN k[i] ELSE step(k, i)]
  <2>2. \A i \in 0 .. n + 1 : l[i] = step(l, i)
    <3> SUFFICES ASSUME NEW i \in 0 .. n + 1 PROVE l[i] = step(l, i)
      OBVIOUS
    <3>1. i # 0 => i - 1 \in 0 .. n + 1 /\ i - 1 <= n
      OBVIOUS
    <3>2. i # 0 => l[i - 1] = k[i - 1]
      BY <3>1
    <3>3. step(l, i) = step(k, i)
      BY <3>2
    <3>4. l[i] = step(k, i)
      <4>1. i <= n => k[i] = step(k, i)
        <5> HIDE DEF step
        <5> QED
          BY <2>1
      <4> QED
        BY <4>1
    <3> QED
      BY <3>3, <3>4
  <2>3. good(l, n + 1)
    BY <2>2
  <2>4. \E m : good(m, n + 1)
    <3> HIDE DEF good, l
    <3> QED
      BY <2>3
  <2> HIDE DEF good
  <2> QED
    BY <2>4
<1>3. Len(txs) \in I
  <2> HIDE DEF I
  <2>1. Nat \subseteq I
    BY <1>1, <1>2, InductionOnSet
  <2> QED
    BY <2>1
<1>4. \E k : good(k, Len(txs))
  BY <1>3
<1> DEFINE f == CHOOSE k : good(k, Len(txs))
<1>5. good(f, Len(txs))
  BY <1>4
<1>6. GetUpdateStatusTrie(s, txs) = f[Len(txs)]
  BY DEF GetUpdateStatusTrie
<1> QED
  BY <1>5, <1>6

\* ReceivedNewTx has the transactions of the messages, each once if they are
\* in the messages once.
LEMMA ReceivedList ==
  ASSUME MessagesOK, NEW s \in Shards
  PROVE  /\ ReceivedNewTx(s) \in Seq(TxRec)
         /\ Range(ReceivedNewTx(s)) =
              UNION {Range(AccountStateTx[s][i].Txs) : i \in collected(s)}
         /\ (/\ \A i \in collected(s) : distinct(AccountStateTx[s][i].Txs)
             /\ \A i, j \in collected(s) : i # j =>
                  ids(AccountStateTx[s][i].Txs) \cap ids(AccountStateTx[s][j].Txs) = {})
            => distinct(ReceivedNewTx(s))
PROOF
<1> DEFINE A == AccountStateTx[s]
           C == collected(s)
           once == /\ \A i \in C : distinct(A[i].Txs)
                   /\ \A i, j \in C : i # j => ids(A[i].Txs) \cap ids(A[j].Txs) = {}
<1>1. PICK k : /\ k = [i \in 0 .. ShardNums |->
                        IF i = 0 THEN <<>>
                        ELSE IF i - 1 \in C THEN k[i - 1] \o A[i - 1].Txs ELSE k[i - 1]]
               /\ ReceivedNewTx(s) = k[ShardNums]
  BY ReceivedLoop
<1>2. ShardNums \in Nat /\ \A j \in C : j \in Nat /\ j < ShardNums
  BY ReshardAssumption DEF MessagesOK, Shards
<1>3. \A i \in C : A[i].Txs \in Seq(TxRec)
  BY DEF MessagesOK, AccountMsgs
<1>4. k[0] = <<>>
  BY <1>1, <1>2
<1>5. ASSUME NEW i \in Nat, i < ShardNums
      PROVE  k[i + 1] = IF i \in C THEN k[i] \o A[i].Txs ELSE k[i]
  <2>1. i + 1 \in 0 .. ShardNums /\ i + 1 # 0 /\ (i + 1) - 1 = i
    BY <1>2, <1>5
  <2> QED
    BY <1>1, <2>1
<1> HIDE DEF A, C
<1> DEFINE before(i) == {j \in C : j < i}
           good(i) == /\ k[i] \in Seq(TxRec)
                      /\ Range(k[i]) = UNION {Range(A[j].Txs) : j \in before(i)}
                      /\ once => distinct(k[i])
           I == {i \in Nat : i <= ShardNums => good(i)}
<1>6. 0 \in I
  <2>1. before(0) = {}
    BY <1>2
  <2>2. <<>> \in Seq(TxRec)
    OBVIOUS
  <2> QED
    BY <1>4, <2>1, <2>2, EmptyList
<1>7. ASSUME NEW i \in Nat, i \in I PROVE i + 1 \in I
  <2> SUFFICES ASSUME i + 1 <= ShardNums PROVE good(i + 1)
    OBVIOUS
  <2>0. i < ShardNums /\ i <= ShardNums
    BY <1>2
  <2>1. good(i) /\ i < ShardNums
    <3> HIDE DEF good
    <3> QED
      BY <1>7, <2>0
  <2>2. before(i + 1) = before(i) \cup ({i} \cap C)
    BY <1>2
  <2>3. CASE i \notin C
    <3>1. before(i + 1) = before(i) /\ k[i + 1] = k[i]
      BY <1>5, <2>1, <2>2, <2>3
    <3> HIDE DEF before, once
    <3> QED
      BY <2>1, <3>1
  <2>4. CASE i \in C
    <3>1. k[i + 1] = k[i] \o A[i].Txs /\ A[i].Txs \in Seq(TxRec)
      BY <1>3, <1>5, <2>1, <2>4
    <3>2. /\ k[i + 1] \in Seq(TxRec) /\ Range(k[i + 1]) = Range(k[i]) \cup Range(A[i].Txs)
          /\ distinct(k[i + 1]) <=> /\ distinct(k[i]) /\ distinct(A[i].Txs)
                                    /\ ids(k[i]) \cap ids(A[i].Txs) = {}
      BY <2>1, <3>1, ConcatList
    <3>3. before(i + 1) = before(i) \cup {i}
      BY <2>2, <2>4
    <3>4. Range(k[i + 1]) = UNION {Range(A[j].Txs) : j \in before(i + 1)}
      <4> HIDE DEF before
      <4> QED
        BY <2>1, <3>2, <3>3
    <3>5. ASSUME once, NEW t \in ids(k[i]), t \in ids(A[i].Txs) PROVE FALSE
      <4>1. PICK j \in before(i) : t \in ids(A[j].Txs)
        BY <2>1 DEF ids
      <4>2. j \in C /\ j # i
        BY <1>2, <4>1
      <4> QED
        BY <2>4, <3>5, <4>1, <4>2
    <3>6. once => distinct(k[i + 1])
      BY <2>1, <2>4, <3>2, <3>5
    <3> QED
      BY <3>2, <3>4, <3>6
  <2> QED
    BY <2>3, <2>4
<1>8. good(ShardNums)
  <2>1. Nat \subseteq I
    <3> HIDE DEF I
    <3> QED
      BY <1>6, <1>7, InductionOnSet
  <2>2. ShardNums \in I
    <3> HIDE DEF I
    <3> QED
      BY <1>2, <2>1
  <2>3. ShardNums <= ShardNums
    BY <1>2
  <2> HIDE DEF good
  <2> QED
    BY <2>2, <2>3
<1>9. before(ShardNums) = C
  BY <1>2
<1> QED
  BY <1>1, <1>8, <1>9 DEF A, C

\* An entry of a Go map.
LEMMA PutState ==
  ASSUME NEW st \in AccountStates, NEW a \in Accounts, NEW b \in Nat
  PROVE  /\ put(st, a, b) \in AccountStates
         /\ DOMAIN put(st, a, b) = DOMAIN st \cup {a} /\ put(st, a, b)[a] = b
         /\ \A c \in DOMAIN st : c # a => put(st, a, b)[c] = st[c]
PROOF
<1>1. PICK A \in SUBSET Accounts : st \in [A -> Nat]
  BY DEF AccountStates
<1>2. put(st, a, b) \in [A \cup {a} -> Nat]
  BY <1>1 DEF put
<1>3. A \cup {a} \in SUBSET Accounts
  OBVIOUS
<1>4. put(st, a, b) \in AccountStates
  BY <1>2, <1>3 DEF AccountStates
<1> QED
  BY <1>1, <1>4 DEF put

LEMMA BalanceType ==
  ASSUME NEW st \in AccountStates, NEW a \in Accounts
  PROVE  BalanceOf(st, a) \in Nat
  BY ReshardAssumption DEF AccountStates, BalanceOf

BlockStates == [trie : AccountStates, debits : [Txs -> Nat], credits : [Txs -> Nat]]

\* A transaction of a block changes its own counts only: it is debited once if
\* it is not a relayed one and its sender is here, and credited once if its
\* recipient is here.
LEMMA ExecuteOne ==
  ASSUME NEW s \in Shards, PartitionMap[s] \in [Accounts -> Shards],
         NEW st \in BlockStates, NEW x \in TxRec
  PROVE  LET r == execute(s, st, x)
         IN /\ r \in BlockStates
            /\ \A t \in Txs : t # x.id =>
                 r.debits[t] = st.debits[t] /\ r.credits[t] = st.credits[t]
            /\ r.debits[x.id] \in {st.debits[x.id], st.debits[x.id] + 1}
            /\ x.Relayed => r.debits[x.id] = st.debits[x.id]
            /\ ~x.Relayed /\ PartitionMap[s][Sender[x.id]] = s /\ ~unfunded(s, st, x) =>
                 r.debits[x.id] = st.debits[x.id] + 1
            /\ r.credits[x.id] \in {st.credits[x.id], st.credits[x.id] + 1}
            /\ PartitionMap[s][Recipient[x.id]] # s => r.credits[x.id] = st.credits[x.id]
PROOF
<1> DEFINE t == x.id
           a == Sender[t]
           b == Recipient[t]
           r == execute(s, st, x)
           d == debitOf(s, st, x)
<1>1. t \in Txs /\ x.Relayed \in BOOLEAN /\ a \in Accounts /\ b \in Accounts /\ Value[t] \in Nat
  BY ReshardAssumption DEF TxRec
<1>2. st.trie \in AccountStates /\ st.debits \in [Txs -> Nat] /\ st.credits \in [Txs -> Nat]
  BY DEF BlockStates
<1>3. CASE unfunded(s, st, x)
  BY <1>1, <1>2, <1>3 DEF execute, BlockStates
<1>4. CASE ~unfunded(s, st, x)
  <2>1. r = creditOf(s, d, x)
    BY <1>4 DEF execute
  <2>2. /\ d \in BlockStates /\ d.credits = st.credits
        /\ \A u \in Txs : u # t => d.debits[u] = st.debits[u]
        /\ d.debits[t] = IF ~x.Relayed /\ PartitionMap[s][a] = s
                         THEN st.debits[t] + 1 ELSE st.debits[t]
    <3>1. CASE x.Relayed \/ PartitionMap[s][a] # s
      BY <1>1, <1>2, <3>1 DEF debitOf
    <3>2. CASE ~x.Relayed /\ PartitionMap[s][a] = s
      <4>1. BalanceOf(st.trie, a) \in Nat /\ ~(BalanceOf(st.trie, a) < Value[t])
        BY <1>1, <1>2, <1>4, <3>2, BalanceType DEF unfunded
      <4>2. BalanceOf(st.trie, a) - Value[t] \in Nat
        BY <1>1, <4>1
      <4> DEFINE tr == put(st.trie, a, BalanceOf(st.trie, a) - Value[t])
                 db == [st.debits EXCEPT ![t] = @ + 1]
      <4>3. tr \in AccountStates
        BY <1>1, <1>2, <4>2, PutState
      <4>4. d = [st EXCEPT !.trie = tr, !.debits = db]
        BY <3>2 DEF debitOf
      <4>5. db \in [Txs -> Nat] /\ db[t] = st.debits[t] + 1
            /\ \A u \in Txs : u # t => db[u] = st.debits[u]
        BY <1>1, <1>2
      <4> HIDE DEF tr, db, d
      <4>6. d.debits = db /\ d.credits = st.credits /\ d \in BlockStates
        BY <4>3, <4>4, <4>5 DEF BlockStates
      <4> QED
        BY <3>2, <4>5, <4>6
    <3> QED
      BY <1>1, <3>1, <3>2
  <2> HIDE DEF d
  <2>3. /\ r \in BlockStates /\ r.debits = d.debits
        /\ \A u \in Txs : u # t => r.credits[u] = d.credits[u]
        /\ r.credits[t] = IF PartitionMap[s][b] = s THEN d.credits[t] + 1 ELSE d.credits[t]
    <3>1. CASE PartitionMap[s][b] # s
      BY <2>1, <2>2, <3>1 DEF creditOf
    <3>2. CASE PartitionMap[s][b] = s
      <4>1. d.trie \in AccountStates /\ d.credits \in [Txs -> Nat]
        BY <2>2 DEF BlockStates
      <4>2. BalanceOf(d.trie, b) + Value[t] \in Nat
        BY <1>1, <4>1, BalanceType
      <4> DEFINE tr == put(d.trie, b, BalanceOf(d.trie, b) + Value[t])
                 cr == [d.credits EXCEPT ![t] = @ + 1]
      <4>3. tr \in AccountStates
        BY <1>1, <4>1, <4>2, PutState
      <4>4. r = [d EXCEPT !.trie = tr, !.credits = cr]
        BY <2>1, <3>2 DEF creditOf
      <4>5. cr \in [Txs -> Nat] /\ cr[t] = d.credits[t] + 1
            /\ \A u \in Txs : u # t => cr[u] = d.credits[u]
        BY <1>1, <4>1
      <4> HIDE DEF tr, cr, r
      <4>6. r.credits = cr /\ r.debits = d.debits /\ r \in BlockStates
        BY <2>2, <4>3, <4>4, <4>5 DEF BlockStates
      <4> QED
        BY <3>2, <4>5, <4>6
    <3> QED
      BY <3>1, <3>2
  <2> HIDE DEF r
  <2> QED
    BY <1>4, <2>2, <2>3 DEF r
<1> QED
  BY <1>3, <1>4

LEMMA BlockRun ==
  ASSUME NEW s, NEW txs \in Seq(TxRec)
  PROVE  \E k : /\ k[0] = [trie |-> trie[s], debits |-> debits, credits |-> credits]
                /\ \A i \in Nat : i < Len(txs) => k[i + 1] = execute(s, k[i], txs[i + 1])
                /\ GetUpdateStatusTrie(s, txs) = k[Len(txs)]
PROOF
<1>1. Len(txs) \in Nat
  OBVIOUS
<1>2. PICK k : /\ k = [i \in 0 .. Len(txs) |->
                        IF i = 0 THEN [trie |-> trie[s], debits |-> debits, credits |-> credits]
                        ELSE execute(s, k[i - 1], txs[i])]
               /\ GetUpdateStatusTrie(s, txs) = k[Len(txs)]
  BY <1>1, BlockLoop
<1>3. k[0] = [trie |-> trie[s], debits |-> debits, credits |-> credits]
  BY <1>1, <1>2
<1>4. ASSUME NEW i \in Nat, i < Len(txs)
      PROVE  k[i + 1] = execute(s, k[i], txs[i + 1])
  <2>1. i + 1 \in 0 .. Len(txs) /\ i + 1 # 0 /\ (i + 1) - 1 = i
    BY <1>1, <1>4
  <2> QED
    BY <1>2, <2>1
<1> QED
  BY <1>2, <1>3, <1>4

\* A block changes the counts of its own transactions, each by one at most.
LEMMA BlockCounts ==
  ASSUME NEW s \in Shards, PartitionMap[s] \in [Accounts -> Shards],
         trie[s] \in AccountStates, debits \in [Txs -> Nat], credits \in [Txs -> Nat],
         NEW txs \in Seq(TxRec), distinct(txs)
  PROVE  LET st == GetUpdateStatusTrie(s, txs)
         IN /\ st \in BlockStates
            /\ \A t \in Txs \ ids(txs) :
                 st.debits[t] = debits[t] /\ st.credits[t] = credits[t]
            /\ \A x \in Range(txs) :
                 /\ st.debits[x.id] \in {debits[x.id], debits[x.id] + 1}
                 /\ x.Relayed => st.debits[x.id] = debits[x.id]
                 /\ st.credits[x.id] \in {credits[x.id], credits[x.id] + 1}
                 /\ PartitionMap[s][Recipient[x.id]] # s => st.credits[x.id] = credits[x.id]
PROOF
<1>1. PICK k : /\ k[0] = [trie |-> trie[s], debits |-> debits, credits |-> credits]
               /\ \A i \in Nat : i < Len(txs) => k[i + 1] = execute(s, k[i], txs[i + 1])
               /\ GetUpdateStatusTrie(s, txs) = k[Len(txs)]
  BY BlockRun
<1>2. /\ Len(txs) \in Nat /\ DOMAIN txs = 1 .. Len(txs)
      /\ \A i \in 1 .. Len(txs) : txs[i] \in TxRec
  BY RangeOfList
<1>n. \A x \in TxRec : x.id \in Txs
  BY DEF TxRec
<1> DEFINE done(st, x) ==
             /\ st.debits[x.id] \in {debits[x.id], debits[x.id] + 1}
             /\ x.Relayed => st.debits[x.id] = debits[x.id]
             /\ st.credits[x.id] \in {credits[x.id], credits[x.id] + 1}
             /\ PartitionMap[s][Recipient[x.id]] # s => st.credits[x.id] = credits[x.id]
           same(st, t) == st.debits[t] = debits[t] /\ st.credits[t] = credits[t]
           good(i) == /\ k[i] \in BlockStates
                      /\ \A t \in Txs : t \notin {txs[j].id : j \in 1 .. i} => same(k[i], t)
                      /\ \A j \in 1 .. i : done(k[i], txs[j])
           I == {i \in Nat : i <= Len(txs) => good(i)}
<1>3. 0 \in I
  <2>1. k[0] \in BlockStates /\ \A t \in Txs : same(k[0], t)
    BY <1>1 DEF BlockStates
  <2> HIDE DEF same, done
  <2> QED
    BY <2>1
<1>4. ASSUME NEW i \in Nat, i \in I PROVE i + 1 \in I
  <2> SUFFICES ASSUME i + 1 <= Len(txs) PROVE good(i + 1)
    <3> HIDE DEF good
    <3> QED
      OBVIOUS
  <2> DEFINE x == txs[i + 1]
             r == k[i + 1]
  <2>1. i < Len(txs) /\ i <= Len(txs) /\ i + 1 \in 1 .. Len(txs)
    BY <1>2
  <2>2. good(i)
    <3> HIDE DEF good
    <3> QED
      BY <1>4, <2>1
  <2>3. r = execute(s, k[i], x) /\ x \in TxRec /\ x.id \in Txs
    BY <1>1, <1>2, <1>n, <2>1
  <2>p. k[i] \in BlockStates
    BY <2>2
  <2>4. /\ r \in BlockStates
        /\ \A t \in Txs : t # x.id =>
             r.debits[t] = k[i].debits[t] /\ r.credits[t] = k[i].credits[t]
        /\ r.debits[x.id] \in {k[i].debits[x.id], k[i].debits[x.id] + 1}
        /\ x.Relayed => r.debits[x.id] = k[i].debits[x.id]
        /\ r.credits[x.id] \in {k[i].credits[x.id], k[i].credits[x.id] + 1}
        /\ PartitionMap[s][Recipient[x.id]] # s => r.credits[x.id] = k[i].credits[x.id]
    <3> HIDE DEF x, r
    <3> QED
      BY <2>3, <2>p, ExecuteOne
  <2>5. x.id \notin {txs[j].id : j \in 1 .. i}
    <3> SUFFICES ASSUME NEW j \in 1 .. i, txs[j].id = txs[i + 1].id PROVE FALSE
      OBVIOUS
    <3>1. j \in DOMAIN txs /\ i + 1 \in DOMAIN txs /\ j # i + 1
      BY <1>2, <2>1
    <3> QED
      BY <3>1 DEF distinct
  <2>6. same(k[i], x.id)
    <3> HIDE DEF same, done
    <3> QED
      BY <2>2, <2>3, <2>5
  <2> HIDE DEF x, r
  <2>7. ASSUME NEW t \in Txs, t \notin {txs[j].id : j \in 1 .. i + 1} PROVE same(r, t)
    <3>1. t # x.id /\ t \notin {txs[j].id : j \in 1 .. i}
      BY <2>7 DEF x
    <3> QED
      BY <2>2, <2>4, <3>1
  <2>8. ASSUME NEW j \in 1 .. i + 1 PROVE done(r, txs[j])
    <3>1. CASE j = i + 1
      BY <2>4, <2>6, <3>1 DEF x
    <3>2. CASE j \in 1 .. i
      <4>1. txs[j].id # x.id /\ txs[j].id \in Txs
        BY <1>2, <1>n, <2>1, <2>5, <3>2
      <4> QED
        BY <2>2, <2>4, <3>2, <4>1
    <3> QED
      BY <3>1, <3>2
  <2> HIDE DEF same, done
  <2> QED
    BY <2>4, <2>7, <2>8 DEF r
<1>5. good(Len(txs))
  <2>1. Nat \subseteq I
    <3> HIDE DEF I
    <3> QED
      BY <1>3, <1>4, InductionOnSet
  <2> HIDE DEF good
  <2> QED
    BY <1>2, <2>1
<1>6. /\ ids(txs) = {txs[j].id : j \in 1 .. Len(txs)}
      /\ Range(txs) = {txs[j] : j \in 1 .. Len(txs)}
  BY RangeOfList
<1>7. \A x \in Range(txs) : done(k[Len(txs)], x)
  <2> HIDE DEF done, same
  <2> QED
    BY <1>5, <1>6
<1> QED
  BY <1>1, <1>5, <1>6, <1>7

-----------------------------------------------------------------------------
(***************************************************************************)
(* Money: an account has what its transactions have left of InitBalance.   *)
(***************************************************************************)

LEMMA TimesNext ==
  ASSUME NEW v \in Nat, NEW n \in Nat
  PROVE  v * (n + 1) = v * n + v /\ v * n \in Nat
  OBVIOUS

LEMMA TimesMore ==
  ASSUME NEW v \in Nat, NEW n \in Nat, NEW m \in Nat, n <= m
  PROVE  v * n <= v * m
PROOF
<1>1. m = n + (m - n) /\ m - n \in Nat
  OBVIOUS
<1>2. v * m = v * n + v * (m - n)
  BY <1>1
<1>3. v * (m - n) \in Nat /\ v * n \in Nat
  BY <1>1
<1> QED
  BY <1>2, <1>3

LEMMA SpentMore ==
  ASSUME IsFiniteSet(Txs), NEW d, NEW e, NEW a,
         \A t \in Txs : d[t] # 0 => e[t] # 0
  PROVE  /\ Cardinality(spent(d, a)) \in Nat /\ Cardinality(spent(e, a)) \in Nat
         /\ Cardinality(spent(d, a)) <= Cardinality(spent(e, a))
PROOF
<1>1. spent(d, a) \subseteq spent(e, a) /\ spent(e, a) \subseteq Txs
  BY DEF spent
<1>2. IsFiniteSet(spent(e, a)) /\ IsFiniteSet(spent(d, a))
  BY <1>1, FS_Subset
<1> QED
  BY <1>1, <1>2, FS_Subset, FS_CardinalityType

\* More debits leave the bound of a balance that stays as it is.
LEMMA FundsKept ==
  ASSUME IsFiniteSet(Txs), NEW v \in Nat, NEW d, NEW e, NEW st \in AccountStates,
         \A t \in Txs : d[t] # 0 => e[t] # 0, fundsLeft(d, v, st)
  PROVE  fundsLeft(e, v, st)
PROOF
<1> SUFFICES ASSUME NEW a \in DOMAIN st
             PROVE  st[a] + v * Cardinality(spent(e, a)) >= InitBalance
  BY DEF fundsLeft
<1> DEFINE n == Cardinality(spent(d, a))
           m == Cardinality(spent(e, a))
<1>1. n \in Nat /\ m \in Nat /\ n <= m
  BY SpentMore
<1>2. st[a] + v * n >= InitBalance
  BY DEF fundsLeft
<1> HIDE DEF n, m
<1>3. v * n <= v * m /\ v * n \in Nat /\ v * m \in Nat
  BY <1>1, TimesMore, TimesNext
<1>4. st[a] \in Nat
  BY DEF AccountStates
<1>5. st[a] + v * m >= InitBalance
  BY <1>2, <1>3, <1>4, ReshardAssumption
<1> QED
  BY <1>5 DEF m

\* The next debit.
LEMMA SpentNext ==
  ASSUME IsFiniteSet(Txs), NEW d \in [Txs -> Nat], NEW t \in Txs, d[t] = 0
  PROVE  LET e == [d EXCEPT ![t] = @ + 1]
             a == Sender[t]
             n == Cardinality(spent(d, a))
         IN /\ n \in Nat /\ n + 1 <= Cardinality(Txs) /\ Cardinality(Txs) \in Nat
            /\ Cardinality(spent(e, a)) = n + 1
            /\ \A c : c # a => spent(e, c) = spent(d, c)
PROOF
<1> DEFINE e == [d EXCEPT ![t] = @ + 1]
           a == Sender[t]
           n == Cardinality(spent(d, a))
<1>1. e[t] # 0 /\ \A u \in Txs : u # t => e[u] = d[u]
  OBVIOUS
<1>2. spent(e, a) = spent(d, a) \cup {t} /\ t \notin spent(d, a)
  BY <1>1 DEF spent
<1>3. \A c : c # a => spent(e, c) = spent(d, c)
  BY <1>1 DEF spent
<1> HIDE DEF e
<1>4. IsFiniteSet(spent(d, a)) /\ IsFiniteSet(spent(e, a)) /\ spent(e, a) \subseteq Txs
  <2>1. spent(d, a) \subseteq Txs /\ spent(e, a) \subseteq Txs
    BY DEF spent
  <2> QED
    BY <2>1, FS_Subset
<1>5. Cardinality(spent(e, a)) = n + 1
  BY <1>2, <1>4, FS_AddElement
<1>6. Cardinality(spent(e, a)) <= Cardinality(Txs)
  BY <1>4, FS_Subset
<1>7. n \in Nat /\ Cardinality(Txs) \in Nat
  BY <1>4, FS_CardinalityType
<1> QED
  BY <1>3, <1>5, <1>6, <1>7 DEF e

\* No transaction of a block is passed over for want of money.
LEMMA ExecuteFunded ==
  ASSUME NEW s \in Shards, PartitionMap[s] \in [Accounts -> Shards],
         NEW v \in Nat, EnoughMoney(v), NEW st \in BlockStates, NEW x \in TxRec,
         fundsLeft(st.debits, v, st.trie), ~x.Relayed => st.debits[x.id] = 0
  PROVE  /\ ~unfunded(s, st, x)
         /\ LET r == execute(s, st, x) IN fundsLeft(r.debits, v, r.trie)
PROOF
<1> DEFINE t == x.id
           a == Sender[t]
           b == Recipient[t]
           r == execute(s, st, x)
           d == debitOf(s, st, x)
<1>1. t \in Txs /\ a \in Accounts /\ b \in Accounts /\ Value[t] \in Nat /\ InitBalance \in Nat
  BY ReshardAssumption DEF TxRec
<1>2. st.trie \in AccountStates /\ st.debits \in [Txs -> Nat] /\ st.credits \in [Txs -> Nat]
  BY DEF BlockStates
<1>3. IsFiniteSet(Txs) /\ Value[t] <= v /\ v * Cardinality(Txs) <= InitBalance
  BY <1>1 DEF EnoughMoney
<1>4. ~unfunded(s, st, x) /\ fundsLeft(d.debits, v, d.trie) /\ d \in BlockStates
  <2>1. CASE x.Relayed \/ PartitionMap[s][a] # s
    BY <1>2, <2>1 DEF unfunded, debitOf
  <2>2. CASE ~x.Relayed /\ PartitionMap[s][a] = s
    <3> DEFINE n == Cardinality(spent(st.debits, a))
               db == [st.debits EXCEPT ![t] = @ + 1]
               bal == BalanceOf(st.trie, a)
               left == bal - Value[t]
               tr == put(st.trie, a, left)
    <3>1. st.debits[t] = 0
      BY <2>2
    <3>2. /\ n \in Nat /\ n + 1 <= Cardinality(Txs) /\ Cardinality(Txs) \in Nat
          /\ Cardinality(spent(db, a)) = n + 1
          /\ \A c : c # a => spent(db, c) = spent(st.debits, c)
      BY <1>1, <1>2, <1>3, <3>1, SpentNext
    <3>3. bal \in Nat
      BY <1>1, <1>2, BalanceType
    <3>4. bal + v * n >= InitBalance
      <4>1. CASE a \in DOMAIN st.trie
        BY <4>1 DEF fundsLeft, BalanceOf
      <4>2. CASE a \notin DOMAIN st.trie
        <5>1. bal = InitBalance
          BY <4>2 DEF BalanceOf
        <5>2. v * n \in Nat
          BY <3>2, TimesNext
        <5> HIDE DEF n, bal
        <5> QED
          BY <1>1, <5>1, <5>2
      <4> QED
        BY <4>1, <4>2
    <3> HIDE DEF n, bal
    <3>5. v * (n + 1) <= v * Cardinality(Txs)
      BY <3>2, TimesMore
    <3>6. v * (n + 1) = v * n + v /\ v * n \in Nat /\ v * Cardinality(Txs) \in Nat
      BY <3>2, TimesNext
    <3>7. bal >= Value[t] /\ bal - Value[t] \in Nat
      BY <1>1, <1>3, <3>3, <3>4, <3>5, <3>6
    <3>8. ~unfunded(s, st, x)
      BY <1>1, <3>3, <3>7 DEF unfunded, bal
    <3>9. /\ tr \in AccountStates /\ DOMAIN tr = DOMAIN st.trie \cup {a}
          /\ tr[a] = left /\ \A c \in DOMAIN st.trie : c # a => tr[c] = st.trie[c]
      <4>1. left \in Nat
        BY <3>7
      <4>2. tr \in AccountStates
        BY <1>1, <1>2, <4>1, PutState
      <4> HIDE DEF left, a
      <4> QED
        BY <4>2 DEF put
    <3>13. db \in [Txs -> Nat]
      BY <1>1, <1>2
    <3>10. d = [st EXCEPT !.trie = tr, !.debits = db]
      BY <2>2 DEF debitOf, bal
    <3> HIDE DEF tr, db, d
    <3>12. d.debits = db /\ d.trie = tr /\ d \in BlockStates
      BY <3>9, <3>10, <3>13 DEF BlockStates
    <3>11. ASSUME NEW c \in DOMAIN tr
           PROVE  tr[c] + v * Cardinality(spent(db, c)) >= InitBalance
      <4>1. CASE c = a
        <5>1. (bal - Value[t]) + (v * n + v) >= InitBalance
          BY <1>1, <1>3, <3>3, <3>4, <3>6
        <5> QED
          BY <3>2, <3>6, <3>9, <4>1, <5>1
      <4>2. CASE c # a
        BY <3>2, <3>9, <4>2 DEF fundsLeft
      <4> QED
        BY <4>1, <4>2
    <3> QED
      BY <3>8, <3>9, <3>11, <3>12 DEF fundsLeft
  <2> QED
    BY <2>1, <2>2
<1> HIDE DEF d
<1>5. r = creditOf(s, d, x)
  BY <1>4 DEF execute, d
<1>6. d.debits \in [Txs -> Nat] /\ d.trie \in AccountStates
  BY <1>4 DEF BlockStates
<1>7. fundsLeft(r.debits, v, r.trie)
  <2>1. CASE PartitionMap[s][b] # s
    BY <1>4, <1>5, <2>1 DEF creditOf
  <2>2. CASE PartitionMap[s][b] = s
    <3> DEFINE bal == BalanceOf(d.trie, b)
               more == bal + Value[t]
               tr == put(d.trie, b, more)
    <3>1. bal \in Nat /\ more \in Nat
      BY <1>1, <1>6, BalanceType
    <3>2. /\ tr \in AccountStates /\ DOMAIN tr = DOMAIN d.trie \cup {b}
          /\ tr[b] = more /\ \A c \in DOMAIN d.trie : c # b => tr[c] = d.trie[c]
      <4>1. tr \in AccountStates
        BY <1>1, <1>6, <3>1, PutState
      <4> HIDE DEF more, b
      <4> QED
        BY <4>1 DEF put
    <3>3. r.debits = d.debits /\ r.trie = tr
      BY <1>4, <1>5, <2>2 DEF creditOf, BlockStates
    <3> DEFINE n == Cardinality(spent(d.debits, b))
    <3>4. n \in Nat /\ v * n \in Nat
      BY <1>3, SpentMore, TimesNext
    <3>5. bal + v * n >= InitBalance
      <4>1. CASE b \in DOMAIN d.trie
        BY <1>4, <4>1 DEF fundsLeft, BalanceOf
      <4>2. CASE b \notin DOMAIN d.trie
        <5>1. bal = InitBalance
          BY <4>2 DEF BalanceOf
        <5> HIDE DEF n, bal
        <5> QED
          BY <1>1, <3>4, <5>1
      <4> QED
        BY <4>1, <4>2
    <3> HIDE DEF tr, bal, n
    <3>6. (bal + Value[t]) + v * n >= InitBalance
      BY <1>1, <3>1, <3>4, <3>5
    <3>7. ASSUME NEW c \in DOMAIN tr
          PROVE  tr[c] + v * Cardinality(spent(d.debits, c)) >= InitBalance
      BY <1>4, <3>2, <3>6 DEF fundsLeft, n
    <3> QED
      BY <3>3, <3>7 DEF fundsLeft
  <2> QED
    BY <2>1, <2>2
<1> QED
  BY <1>4, <1>7

\* A block debits every transaction that is not relayed and whose sender is
\* here.
LEMMA BlockFunded ==
  ASSUME NEW s \in Shards, PartitionMap[s] \in [Accounts -> Shards],
         trie[s] \in AccountStates, debits \in [Txs -> Nat], credits \in [Txs -> Nat],
         NEW txs \in Seq(TxRec), distinct(txs),
         NEW v \in Nat, EnoughMoney(v), fundsLeft(debits, v, trie[s]),
         \A x \in Range(txs) : ~x.Relayed => debits[x.id] = 0
  PROVE  LET st == GetUpdateStatusTrie(s, txs)
         IN /\ fundsLeft(st.debits, v, st.trie)
            /\ \A x \in Range(txs) : ~x.Relayed /\ PartitionMap[s][Sender[x.id]] = s =>
                 st.debits[x.id] = 1
PROOF
<1>1. PICK k : /\ k[0] = [trie |-> trie[s], debits |-> debits, credits |-> credits]
               /\ \A i \in Nat : i < Len(txs) => k[i + 1] = execute(s, k[i], txs[i + 1])
               /\ GetUpdateStatusTrie(s, txs) = k[Len(txs)]
  BY BlockRun
<1>2. /\ Len(txs) \in Nat /\ DOMAIN txs = 1 .. Len(txs)
      /\ \A i \in 1 .. Len(txs) : txs[i] \in TxRec
  BY RangeOfList
<1>3. \A x \in TxRec : x.id \in Txs
  BY DEF TxRec
<1>4. \A i \in 1 .. Len(txs) : ~txs[i].Relayed => debits[txs[i].id] = 0
  BY RangeOfList
<1> DEFINE done(st, x) ==
             ~x.Relayed /\ PartitionMap[s][Sender[x.id]] = s => st.debits[x.id] = 1
           same(st, t) == st.debits[t] = debits[t]
           good(i) == /\ k[i] \in BlockStates
                      /\ fundsLeft(k[i].debits, v, k[i].trie)
                      /\ \A t \in Txs : t \notin {txs[j].id : j \in 1 .. i} => same(k[i], t)
                      /\ \A j \in 1 .. i : done(k[i], txs[j])
           I == {i \in Nat : i <= Len(txs) => good(i)}
<1>5. 0 \in I
  <2>1. k[0] \in BlockStates /\ k[0].debits = debits /\ k[0].trie = trie[s]
    BY <1>1 DEF BlockStates
  <2> QED
    BY <2>1
<1>6. ASSUME NEW i \in Nat, i \in I PROVE i + 1 \in I
  <2> SUFFICES ASSUME i + 1 <= Len(txs) PROVE good(i + 1)
    <3> HIDE DEF good
    <3> QED
      OBVIOUS
  <2> DEFINE x == txs[i + 1]
             r == k[i + 1]
  <2>1. i < Len(txs) /\ i <= Len(txs) /\ i + 1 \in 1 .. Len(txs)
    BY <1>2
  <2>2. good(i)
    <3> HIDE DEF good
    <3> QED
      BY <1>6, <2>1
  <2>3. r = execute(s, k[i], x) /\ x \in TxRec /\ x.id \in Txs
    BY <1>1, <1>2, <1>3, <2>1
  <2>4. k[i] \in BlockStates /\ fundsLeft(k[i].debits, v, k[i].trie)
    BY <2>2
  <2>5. x.id \notin {txs[j].id : j \in 1 .. i}
    <3> SUFFICES ASSUME NEW j \in 1 .. i, txs[j].id = txs[i + 1].id PROVE FALSE
      OBVIOUS
    <3>1. j \in DOMAIN txs /\ i + 1 \in DOMAIN txs /\ j # i + 1
      BY <1>2, <2>1
    <3> QED
      BY <3>1 DEF distinct
  <2>6. same(k[i], x.id)
    <3> HIDE DEF same, done
    <3> QED
      BY <2>2, <2>3, <2>5
  <2>7. ~x.Relayed => debits[x.id] = 0
    BY <1>4, <2>1
  <2> HIDE DEF x, r
  <2>8. ~x.Relayed => k[i].debits[x.id] = 0
    BY <2>6, <2>7
  <2>9. ~unfunded(s, k[i], x) /\ fundsLeft(r.debits, v, r.trie)
    BY <2>3, <2>4, <2>8, ExecuteFunded
  <2>10. /\ r \in BlockStates /\ \A t \in Txs : t # x.id => r.debits[t] = k[i].debits[t]
         /\ ~x.Relayed /\ PartitionMap[s][Sender[x.id]] = s =>
              r.debits[x.id] = k[i].debits[x.id] + 1
    BY <2>3, <2>4, <2>9, ExecuteOne
  <2>11. ASSUME NEW t \in Txs, t \notin {txs[j].id : j \in 1 .. i + 1} PROVE same(r, t)
    <3>1. t # x.id /\ t \notin {txs[j].id : j \in 1 .. i}
      BY <2>11 DEF x
    <3> QED
      BY <2>2, <2>10, <3>1
  <2>12. ASSUME NEW j \in 1 .. i + 1 PROVE done(r, txs[j])
    <3>1. CASE j = i + 1
      BY <2>8, <2>10, <3>1 DEF x
    <3>2. CASE j \in 1 .. i
      <4>1. txs[j].id \in Txs
        BY <1>2, <1>3, <2>1, <3>2
      <4>2. txs[j].id # x.id
        BY <2>5, <3>2
      <4> QED
        BY <2>2, <2>10, <3>2, <4>1, <4>2
    <3> QED
      BY <3>1, <3>2
  <2> HIDE DEF same, done
  <2> QED
    BY <2>9, <2>10, <2>11, <2>12 DEF r
<1>7. good(Len(txs))
  <2>1. Nat \subseteq I
    <3> HIDE DEF I
    <3> QED
      BY <1>5, <1>6, InductionOnSet
  <2> HIDE DEF good
  <2> QED
    BY <1>2, <2>1
<1>8. Range(txs) = {txs[j] : j \in 1 .. Len(txs)}
  BY RangeOfList
<1>9. \A x \in Range(txs) : done(k[Len(txs)], x)
  <2> HIDE DEF done, same
  <2> QED
    BY <1>7, <1>8
<1> QED
  BY <1>1, <1>7, <1>9

-----------------------------------------------------------------------------
(***************************************************************************)
(* Types.                                                                  *)
(***************************************************************************)

\* The parts of TypeOK that MessagesOK does not have.
CoreOK ==
  /\ unsent \subseteq Txs /\ epoch \in 0 .. Len(Maps)
  /\ modifiedMap \in [Accounts -> Shards]
  /\ received \in [Shards -> 0 .. epoch] /\ AccountTransferRound \in [Shards -> 0 .. epoch]
  /\ PartitionMap \in [Shards -> [Accounts -> Shards]]
  /\ debits \in [Txs -> Nat] /\ credits \in [Txs -> Nat]

\* What the other proofs use of the types.
Typed == CoreOK /\ MessagesOK /\ MapsInStep

LEMMA RequestForms ==
  /\ Idle \in Requests /\ [kind |-> "sent"] \in Requests
  /\ \A q \in Seq(TxRec) : [kind |-> "block", txs |-> q] \in Requests
  /\ \A i \in 1 .. Len(Maps), n \in Nat, st \in AccountStates :
       [kind |-> "partition", map |-> Maps[i], ATid |-> n, AccountState |-> st] \in Requests
  BY DEF Requests

LEMMA RequestFields ==
  ASSUME NEW r \in Requests
  PROVE  /\ r.kind \in {"none", "sent", "block", "partition"}
         /\ r.kind = "block" => r.txs \in Seq(TxRec)
         /\ r.kind = "partition" => r.ATid \in Nat /\ r.AccountState \in AccountStates
         /\ r = Idle <=> r.kind = "none"
  BY DEF Requests, Idle

LEMMA TypesFromParts == Typed => TypeOK
PROOF
<1> SUFFICES ASSUME Typed PROVE TypeOK
  OBVIOUS
<1>1. ASSUME NEW s \in Shards PROVE DOMAIN trie[s] \subseteq Accounts /\ Range(trie[s]) \subseteq Nat
  BY DEF Typed, MessagesOK, AccountStates, Range
<1>2. ASSUME NEW s \in Shards
      PROVE  /\ Range(TxQueue[s]) \subseteq [id : Txs, Relayed : BOOLEAN]
             /\ request[s].kind \in {"none", "block", "sent", "partition"}
  <2>1. TxQueue[s] \in Seq(TxRec) /\ request[s] \in Requests
    BY DEF Typed, MessagesOK
  <2>2. Range(TxQueue[s]) \subseteq TxRec
    BY <2>1, RangeOfList
  <2> QED
    BY <2>1, <2>2, RequestFields DEF TxRec
<1> QED
  BY <1>1, <1>2 DEF Typed, CoreOK, TypeOK

\* A partition map of the accounts that is changed by one of the maps.
LEMMA MapChanged ==
  ASSUME NEW m \in [Accounts -> Shards], NEW i \in 1 .. Len(Maps)
  PROVE  putAll(m, Maps[i]) \in [Accounts -> Shards]
  BY ReshardAssumption DEF putAll

LEMMA InitTyped == Init => Typed
PROOF
<1> SUFFICES ASSUME Init PROVE Typed
  OBVIOUS
<1>1. DOMAIN EmptyMap = {} /\ EmptyMap \in AccountStates
  <2>1. EmptyMap \in [{} -> Nat]
    BY DEF EmptyMap
  <2> QED
    BY <2>1 DEF AccountStates, EmptyMap
<1>2. CoreOK
  BY ReshardAssumption DEF Init, CoreOK
<1>3. MessagesOK
  BY <1>1 DEF Init, MessagesOK, Requests, collected, Idle
<1>4. MapsInStep
  BY ReshardAssumption DEF Init, MapsInStep, moving, Idle
<1> QED
  BY <1>2, <1>3, <1>4 DEF Typed

LEMMA txSendingTyped ==
  ASSUME Typed, NEW t \in Txs, txSending(t)
  PROVE  Typed'
PROOF
<1> USE DEF txSending, chainVars, dataVars, history
<1>1. Sender[t] \in Accounts
  BY ReshardAssumption
<1>2. CoreOK'
  BY DEF Typed, CoreOK
<1>m. [to |-> modifiedMap[Sender[t]], tx |-> t] \in [to : Shards, tx : Txs]
  BY <1>1 DEF Typed, CoreOK
<1>3. MessagesOK'
  BY <1>m DEF Typed, MessagesOK, collected
<1>4. MapsInStep'
  BY DEF Typed, MapsInStep, moving
<1> QED
  BY <1>2, <1>3, <1>4 DEF Typed

LEMMA clpaMapSendTyped ==
  ASSUME Typed, clpaMapSend
  PROVE  Typed'
PROOF
<1> USE DEF clpaMapSend, chainVars, dataVars, netVars, history
<1>1. epoch + 1 \in 1 .. Len(Maps) /\ epoch \in Nat
  BY ReshardAssumption DEF Typed, CoreOK
<1>2. CoreOK'
  <2>1. 0 .. epoch \subseteq 0 .. epoch'
    BY <1>1
  <2>2. modifiedMap' \in [Accounts -> Shards]
    BY <1>1, MapChanged DEF Typed, CoreOK
  <2> QED
    BY <1>1, <2>1, <2>2 DEF Typed, CoreOK
<1>3. MessagesOK'
  BY DEF Typed, MessagesOK, collected
<1>4. MapsInStep'
  <2> SUFFICES ASSUME NEW s \in Shards
               PROVE  /\ AccountTransferRound[s] <= received[s]
                      /\ epoch' <= AccountTransferRound[s] + 1
                      /\ moving(s) => received[s] = AccountTransferRound[s] + 1
                      /\ request[s].kind = "partition" =>
                           request[s].ATid = received[s] /\ request[s].map = Maps[received[s]]
                      /\ modifiedMap' = IF AccountTransferRound[s] = epoch' THEN PartitionMap[s]
                                        ELSE putAll(PartitionMap[s], Maps[epoch'])
    BY DEF MapsInStep, moving
  <2>1. AccountTransferRound[s] = epoch
    BY <1>1 DEF waiting, Typed, CoreOK
  <2> QED
    BY <1>1, <2>1 DEF Typed, MapsInStep
<1> QED
  BY <1>2, <1>3, <1>4 DEF Typed

\* The queue of a shard grows.
LEMMA QueueTyped ==
  ASSUME Typed, NEW s \in Shards, NEW q \in Seq(TxRec), AddTxs2Pool(s, q)
  PROVE  TxQueue' \in [Shards -> Seq(TxRec)]
PROOF
<1>1. TxQueue \in [Shards -> Seq(TxRec)]
  BY DEF Typed, MessagesOK
<1>2. TxQueue[s] \o q \in Seq(TxRec)
  BY <1>1, ConcatProperties
<1> QED
  BY <1>1, <1>2 DEF AddTxs2Pool

LEMMA handleInjectTxTyped ==
  ASSUME Typed, NEW m \in injectNet, handleInjectTx(m)
  PROVE  Typed'
PROOF
<1> USE DEF handleInjectTx, committeeVars, chainVars, dataVars, history
<1>1. m.to \in Shards /\ m.tx \in Txs
  BY DEF Typed, MessagesOK
<1>2. <<Tx(m.tx, FALSE)>> \in Seq(TxRec)
  BY <1>1 DEF Tx, TxRec
<1>3. TxQueue' \in [Shards -> Seq(TxRec)]
  BY <1>1, <1>2, QueueTyped
<1>4. CoreOK'
  BY DEF Typed, CoreOK
<1>5. MessagesOK'
  BY <1>3 DEF Typed, MessagesOK, collected
<1>6. MapsInStep'
  BY DEF Typed, MapsInStep, moving
<1> QED
  BY <1>4, <1>5, <1>6 DEF Typed

LEMMA handleRelayTyped ==
  ASSUME Typed, NEW m \in relayNet, handleRelay(m)
  PROVE  Typed'
PROOF
<1> USE DEF handleRelay, committeeVars, chainVars, dataVars, history
<1>1. m.to \in Shards /\ m.txs \in Seq(TxRec)
  BY DEF Typed, MessagesOK
<1>2. TxQueue' \in [Shards -> Seq(TxRec)]
  BY <1>1, QueueTyped DEF Typed, MessagesOK
<1>3. CoreOK'
  BY DEF Typed, CoreOK
<1>4. MessagesOK'
  BY <1>2 DEF Typed, MessagesOK, collected
<1>5. MapsInStep'
  BY DEF Typed, MapsInStep, moving
<1> QED
  BY <1>3, <1>4, <1>5 DEF Typed

LEMMA handlePartitionMsgTyped ==
  ASSUME Typed, NEW s \in Shards, handlePartitionMsg(s)
  PROVE  Typed'
PROOF
<1> USE DEF handlePartitionMsg, committeeVars, chainVars, netVars, history
<1>1. CoreOK'
  <2>1. received[s] + 1 \in 0 .. epoch
    BY DEF Typed, CoreOK
  <2> QED
    BY <2>1 DEF Typed, CoreOK
<1>2. MessagesOK'
  BY DEF Typed, MessagesOK, collected
<1>3. MapsInStep'
  <2>1. received[s] < epoch /\ epoch \in Nat /\ received \in [Shards -> Nat]
        /\ AccountTransferRound \in [Shards -> Nat]
    BY DEF Typed, CoreOK
  <2>2. ~moving(s) /\ request[s].kind # "partition"
    BY <2>1 DEF Typed, MapsInStep, moving
  <2> QED
    BY <2>1, <2>2 DEF Typed, MapsInStep, moving
<1> QED
  BY <1>1, <1>2, <1>3 DEF Typed

LEMMA handleAccountTyped ==
  ASSUME Typed, NEW m \in accountNet, handleAccountStateAndTxMsg(m)
  PROVE  Typed'
PROOF
<1> USE DEF handleAccountStateAndTxMsg, committeeVars, chainVars
<1>1. m \in AccountMsgs /\ m.to \in Shards /\ m.from \in Shards
  BY DEF Typed, MessagesOK, AccountMsgs
<1>2. CoreOK'
  BY DEF Typed, CoreOK
<1>3. ASSUME NEW s \in Shards
      PROVE  /\ collected(s)' \subseteq Shards
             /\ \A i \in collected(s)' : /\ AccountStateTx'[s][i] \in AccountMsgs
                                         /\ AccountStateTx'[s][i].from = i
                                         /\ AccountStateTx'[s][i].to = s
  <2>1. /\ collected(s) \subseteq Shards
        /\ \A i \in collected(s) : /\ AccountStateTx[s][i] \in AccountMsgs
                                   /\ AccountStateTx[s][i].from = i
                                   /\ AccountStateTx[s][i].to = s
    BY DEF Typed, MessagesOK
  <2>2. DOMAIN AccountStateTx = Shards
    BY DEF Typed, MessagesOK
  <2>3. CASE s # m.to
    BY <2>1, <2>2, <2>3 DEF collected
  <2>4. CASE s = m.to
    <3>1. AccountStateTx'[s] = put(AccountStateTx[s], m.from, m)
      BY <2>2, <2>4
    <3>2. DOMAIN AccountStateTx'[s] = DOMAIN AccountStateTx[s] \cup {m.from}
      BY <3>1 DEF put
    <3>3. \A i \in DOMAIN AccountStateTx'[s] :
            AccountStateTx'[s][i] = IF i = m.from THEN m ELSE AccountStateTx[s][i]
      BY <3>1, <3>2 DEF put
    <3> QED
      BY <1>1, <2>1, <2>4, <3>2, <3>3 DEF collected
  <2> QED
    BY <2>3, <2>4
<1>4. MessagesOK'
  BY <1>3 DEF Typed, MessagesOK
<1>5. MapsInStep'
  BY DEF Typed, MapsInStep, moving
<1> QED
  BY <1>2, <1>4, <1>5 DEF Typed

\* A block is the first part of the queue.
LEMMA PackedFirst ==
  ASSUME Typed, NEW s \in Shards
  PROVE  LET q == TxQueue[s]
             b == PackTxs(s)
             rest == SubSeq(q, Len(b) + 1, Len(q))
         IN b \in Seq(TxRec) /\ rest \in Seq(TxRec) /\ q = b \o rest
PROOF
<1> DEFINE q == TxQueue[s]
           n == IF Len(q) < BlockSize THEN Len(q) ELSE BlockSize
           b == SubSeq(q, 1, n)
           rest == SubSeq(q, n + 1, Len(q))
<1>1. q \in Seq(TxRec) /\ Len(q) \in Nat /\ BlockSize \in Nat
  BY ReshardAssumption, RangeOfList DEF Typed, MessagesOK
<1>2. PackTxs(s) = b
  BY DEF PackTxs
<1> HIDE DEF q
<1>3. n \in Nat /\ n <= Len(q)
  BY <1>1
<1> HIDE DEF n
<1>4. \A i \in 1 .. Len(q) : q[i] \in TxRec
  BY <1>1
<1>5. b \in Seq(TxRec) /\ Len(b) = n
  BY <1>1, <1>3, <1>4, SubSeqProperties
<1>6. rest \in Seq(TxRec)
  BY <1>1, <1>3, <1>4, SubSeqProperties
<1>7. b \o rest = SubSeq(q, 1, Len(q))
  <2>1. 1 \in 1 .. Len(q) + 1 /\ n \in (1 - 1) .. Len(q) /\ Len(q) \in n .. Len(q)
    BY <1>1, <1>3
  <2> QED
    BY <1>1, <2>1, ConcatAdjacentSubSeq
<1>8. b \o rest = q
  BY <1>1, <1>7, SubSeqFull
<1> QED
  BY <1>2, <1>5, <1>6, <1>8 DEF q

LEMMA GenerateBlockTyped ==
  ASSUME Typed, NEW s \in Shards, GenerateBlock(s)
  PROVE  Typed'
PROOF
<1> USE DEF GenerateBlock, committeeVars, chainVars, dataVars, netVars, history
<1>1. /\ [kind |-> "block", txs |-> PackTxs(s)] \in Requests
      /\ SubSeq(TxQueue[s], Len(PackTxs(s)) + 1, Len(TxQueue[s])) \in Seq(TxRec)
  BY PackedFirst, RequestForms
<1>2. CoreOK'
  BY DEF Typed, CoreOK
<1>3. MessagesOK'
  BY <1>1 DEF Typed, MessagesOK, collected
<1>4. MapsInStep'
  BY DEF Typed, MessagesOK, MapsInStep, moving
<1> QED
  BY <1>2, <1>3, <1>4 DEF Typed

\* A shard at whose partition the step is has a map for it.
LEMMA MapAtHand ==
  ASSUME Typed, NEW s \in Shards, PartitionOn(s) \/ moving(s)
  PROVE  /\ received[s] \in 1 .. Len(Maps) /\ received[s] = AccountTransferRound[s] + 1
         /\ epoch = received[s] /\ received[s] \in Nat /\ AccountTransferRound[s] \in Nat
         /\ AccountTransferRound[s] # epoch
         /\ modifiedMap = putAll(PartitionMap[s], Maps[received[s]])
PROOF
<1>1. /\ received[s] \in 0 .. epoch /\ AccountTransferRound[s] \in 0 .. epoch
      /\ epoch \in 0 .. Len(Maps) /\ Len(Maps) \in Nat
  BY ReshardAssumption DEF Typed, CoreOK
<1>2. /\ AccountTransferRound[s] <= received[s] /\ epoch <= AccountTransferRound[s] + 1
      /\ moving(s) => received[s] = AccountTransferRound[s] + 1
      /\ modifiedMap = IF AccountTransferRound[s] = epoch THEN PartitionMap[s]
                       ELSE putAll(PartitionMap[s], Maps[epoch])
  BY DEF Typed, MapsInStep
<1>3. received[s] > AccountTransferRound[s]
  BY <1>1, <1>2 DEF PartitionOn
<1> QED
  BY <1>1, <1>2, <1>3

\* What a shard has for another one.
LEMMA AccountMsgTyped ==
  ASSUME Typed, NEW s \in Shards, NEW i \in Shards, PartitionOn(s)
  PROVE  accountMsg(s, i) \in AccountMsgs
PROOF
<1> DEFINE addrs == {a \in accountToFetch(s) : Maps[received[s]][a] = i}
           states == [a \in addrs |-> BalanceOf(trie[s], a)]
           q == TxQueue[s]
           Q == {tx \in Range(TxQueue[s]) : travelsWith(tx) \in addrs}
<1>1. trie[s] \in AccountStates /\ q \in Seq(TxRec) /\ received[s] \in Nat
      /\ received[s] \in 1 .. Len(Maps)
  BY MapAtHand DEF Typed, MessagesOK, CoreOK
<1>2. filter(q, Q) \in Seq(TxRec)
  BY <1>1, FilterList
<1>3. addrs \in SUBSET Accounts
  BY <1>1, ReshardAssumption DEF accountToFetch
<1>4. states \in AccountStates
  <2> HIDE DEF addrs
  <2>1. states \in [addrs -> Nat]
    BY <1>1, <1>3, BalanceType
  <2> QED
    BY <1>3, <2>1 DEF AccountStates
<1>5. accountMsg(s, i) = [from |-> s, to |-> i, epoch |-> received[s],
                          AccountState |-> states, Txs |-> filter(q, Q)]
  BY DEF accountMsg
<1> HIDE DEF states, q, Q
<1> QED
  BY <1>1, <1>2, <1>4, <1>5 DEF AccountMsgs

LEMMA sendAccountsTyped ==
  ASSUME Typed, NEW s \in Shards, sendAccounts_and_Txs(s)
  PROVE  Typed'
PROOF
<1> USE DEF sendAccounts_and_Txs, committeeVars, chainVars, dataVars, history
<1>1. TxQueue[s] \in Seq(TxRec)
  BY DEF Typed, MessagesOK
<1>2. \A S : filter(TxQueue[s], S) \in Seq(TxRec)
  BY <1>1, FilterList
<1>3. [kind |-> "sent"] \in Requests
  BY RequestForms
<1>4. accountNet' \subseteq AccountMsgs
  BY AccountMsgTyped DEF Typed, MessagesOK
<1>5. TxQueue' \in [Shards -> Seq(TxRec)]
  BY <1>2 DEF Typed, MessagesOK
<1>6. CoreOK'
  BY DEF Typed, CoreOK
<1>7. MessagesOK'
  BY <1>3, <1>4, <1>5 DEF Typed, MessagesOK, collected
<1>8. MapsInStep'
  <2>1. received[s] = AccountTransferRound[s] + 1
    BY MapAtHand
  <2> QED
    BY <2>1 DEF Typed, MessagesOK, MapsInStep, moving
<1> QED
  BY <1>6, <1>7, <1>8 DEF Typed

\* The account states of a partition.
LEMMA NewStatesTyped ==
  ASSUME Typed, NEW s \in Shards, NEW states \in newAccountStates(s)
  PROVE  /\ states \in AccountStates
         /\ \A a \in DOMAIN states : \E i \in collected(s) :
              a \in DOMAIN AccountStateTx[s][i].AccountState
              /\ states[a] = AccountStateTx[s][i].AccountState[a]
PROOF
<1> DEFINE addrs == UNION {DOMAIN AccountStateTx[s][i].AccountState : i \in collected(s)}
<1>1. PICK src \in [addrs -> collected(s)] :
        /\ \A a \in addrs : a \in DOMAIN AccountStateTx[s][src[a]].AccountState
        /\ states = [a \in addrs |-> AccountStateTx[s][src[a]].AccountState[a]]
  BY DEF newAccountStates
<1>2. \A i \in collected(s) : AccountStateTx[s][i].AccountState \in AccountStates
  BY DEF Typed, MessagesOK, AccountMsgs
<1>3. \A st \in AccountStates : DOMAIN st \subseteq Accounts /\ \A a \in DOMAIN st : st[a] \in Nat
  BY DEF AccountStates
<1>4. addrs \in SUBSET Accounts
  BY <1>2, <1>3
<1> HIDE DEF addrs
<1>5. states \in [addrs -> Nat]
  BY <1>1, <1>2, <1>3
<1>6. states \in AccountStates
  BY <1>4, <1>5 DEF AccountStates
<1> QED
  BY <1>1, <1>6

LEMMA proposePartitionTyped ==
  ASSUME Typed, NEW s \in Shards, proposePartition(s)
  PROVE  Typed'
PROOF
<1> USE DEF proposePartition, committeeVars, chainVars, dataVars, netVars, history
<1>1. moving(s)
  BY DEF moving
<1>2. /\ received[s] \in 1 .. Len(Maps) /\ received[s] = AccountTransferRound[s] + 1
      /\ received[s] \in Nat
  BY <1>1, MapAtHand
<1>3. PICK states \in newAccountStates(s) :
        request' = [request EXCEPT ![s] =
                      [kind |-> "partition", map |-> Maps[AccountTransferRound[s] + 1],
                       ATid |-> received[s], AccountState |-> states]]
  OBVIOUS
<1> DEFINE rec == [kind |-> "partition", map |-> Maps[AccountTransferRound[s] + 1],
                   ATid |-> received[s], AccountState |-> states]
<1>4. rec \in Requests /\ rec.kind = "partition" /\ rec.ATid = received[s]
      /\ rec.map = Maps[received[s]]
  BY <1>2, NewStatesTyped, RequestForms
<1>5. validTxs(s) \in Seq(TxRec)
  BY ReceivedList, FilterList DEF Typed, validTxs
<1>6. TxQueue' \in [Shards -> Seq(TxRec)]
  BY <1>5, QueueTyped
<1>7. request' = [request EXCEPT ![s] = rec]
  BY <1>3
<1> HIDE DEF rec
<1>8. CoreOK'
  BY DEF Typed, CoreOK
<1>a. request' \in [Shards -> Requests]
  BY <1>4, <1>7 DEF Typed, MessagesOK
<1>9. MessagesOK'
  BY <1>6, <1>a DEF Typed, MessagesOK, collected
<1>10. MapsInStep'
  BY <1>2, <1>4, <1>7 DEF Typed, MessagesOK, MapsInStep, moving
<1> QED
  BY <1>8, <1>9, <1>10 DEF Typed

\* AddAccounts.
LEMMA AddAccountsTyped ==
  ASSUME NEW s, trie[s] \in AccountStates, NEW map, NEW states \in AccountStates
  PROVE  /\ AddAccounts(s, map, states) \in AccountStates
         /\ \A a \in DOMAIN AddAccounts(s, map, states) :
              \/ a \in DOMAIN states /\ AddAccounts(s, map, states)[a] = states[a]
              \/ a \in DOMAIN trie[s] /\ AddAccounts(s, map, states)[a] = trie[s][a]
PROOF
<1> DEFINE here == {a \in DOMAIN states : map[a] = s}
           f == Restrict(states, here)
           g == AddAccounts(s, map, states)
<1>1. DOMAIN f = here /\ \A a \in here : f[a] = states[a]
  BY DEF Restrict
<1>2. g = putAll(trie[s], f)
  BY DEF AddAccounts
<1>3. \A st \in AccountStates : DOMAIN st \subseteq Accounts /\ \A a \in DOMAIN st : st[a] \in Nat
  BY DEF AccountStates
<1>4. here \subseteq DOMAIN states
  OBVIOUS
<1> HIDE DEF f, here, g
<1>5. g = [a \in DOMAIN trie[s] \cup here |-> IF a \in here THEN states[a] ELSE trie[s][a]]
  BY <1>1, <1>2 DEF putAll
<1>6. g \in [DOMAIN trie[s] \cup here -> Nat] /\ DOMAIN trie[s] \cup here \in SUBSET Accounts
  BY <1>3, <1>4, <1>5
<1>7. g \in AccountStates
  BY <1>6 DEF AccountStates
<1> QED
  BY <1>4, <1>5, <1>7 DEF g

LEMMA accountTransferTyped ==
  ASSUME Typed, NEW s \in Shards, accountTransfer_do(s)
  PROVE  Typed'
PROOF
<1> USE DEF accountTransfer_do, committeeVars, netVars
<1> DEFINE r == request[s]
           map == putAll(PartitionMap[s], r.map)
<1>1. moving(s) /\ r.kind = "partition" /\ r \in Requests
  BY DEF moving, Typed, MessagesOK
<1>2. /\ received[s] \in 1 .. Len(Maps) /\ received[s] = AccountTransferRound[s] + 1
      /\ received[s] \in Nat /\ epoch = received[s]
      /\ modifiedMap = putAll(PartitionMap[s], Maps[received[s]])
  BY <1>1, MapAtHand
<1>3. r.ATid = received[s] /\ r.map = Maps[received[s]] /\ r.AccountState \in AccountStates
  BY <1>1, RequestFields DEF Typed, MapsInStep
<1>4. map = modifiedMap /\ map \in [Accounts -> Shards]
  BY <1>2, <1>3 DEF Typed, CoreOK
<1>5. AddAccounts(s, map, r.AccountState) \in AccountStates
  BY <1>3, AddAccountsTyped DEF Typed, MessagesOK
<1> HIDE DEF map
<1>6. /\ PartitionMap' = [PartitionMap EXCEPT ![s] = map]
      /\ trie' = [trie EXCEPT ![s] = AddAccounts(s, map, r.AccountState)]
      /\ AccountTransferRound' = [AccountTransferRound EXCEPT ![s] = received[s]]
      /\ AccountStateTx' = [AccountStateTx EXCEPT ![s] = EmptyMap]
      /\ request' = [request EXCEPT ![s] = Idle]
  BY <1>3 DEF map
<1>7. CoreOK'
  BY <1>2, <1>4, <1>6 DEF Typed, CoreOK
<1>8. MessagesOK'
  <2>1. Idle \in Requests /\ DOMAIN EmptyMap = {}
    BY RequestForms DEF EmptyMap
  <2>2. DOMAIN trie' = Shards /\ \A i \in Shards : trie'[i] \in AccountStates
    BY <1>5, <1>6 DEF Typed, MessagesOK
  <2> QED
    BY <1>6, <2>1, <2>2 DEF Typed, MessagesOK, collected
<1>9. MapsInStep'
  <2>1. ASSUME NEW i \in Shards
        PROVE  /\ AccountTransferRound'[i] <= received[i] /\ epoch <= AccountTransferRound'[i] + 1
               /\ moving(i)' => received[i] = AccountTransferRound'[i] + 1
               /\ request'[i].kind = "partition" =>
                    request'[i].ATid = received[i] /\ request'[i].map = Maps[received[i]]
               /\ modifiedMap = IF AccountTransferRound'[i] = epoch THEN PartitionMap'[i]
                                ELSE putAll(PartitionMap'[i], Maps[epoch])
    <3>1. CASE i # s
      BY <1>6, <3>1 DEF Typed, MessagesOK, MapsInStep, moving, CoreOK
    <3>2. CASE i = s
      BY <1>2, <1>4, <1>6, <3>2 DEF Typed, MessagesOK, CoreOK, moving, Idle
    <3> QED
      BY <3>1, <3>2
  <2> QED
    BY <2>1 DEF MapsInStep
<1> QED
  BY <1>7, <1>8, <1>9 DEF Typed

\* RelayPool: transactions of the block with their recipient in shard i, marked.
LEMMA RelayPoolList ==
  ASSUME NEW s, NEW txs \in Seq(TxRec), NEW i
  PROVE  LET q == RelayPool(s, txs, i)
         IN /\ q \in Seq(TxRec) /\ ids(q) \subseteq ids(txs)
            /\ \A x \in Range(q) : x.Relayed
            /\ \A x \in Range(q) : PartitionMap[s][Recipient[x.id]] = i
            /\ distinct(txs) => distinct(q)
PROOF
<1> DEFINE S == {tx \in Range(txs) : PartitionMap[s][Recipient[tx.id]] = i}
           out == filter(txs, S)
           q == RelayPool(s, txs, i)
<1>1. out \in Seq(TxRec) /\ Range(out) = Range(txs) \cap S /\ (distinct(txs) => distinct(out))
  BY FilterList
<1>2. q = [k \in DOMAIN out |-> [out[k] EXCEPT !.Relayed = TRUE]]
  BY DEF RelayPool
<1>3. \A x \in Range(txs) \cap S : PartitionMap[s][Recipient[x.id]] = i
  OBVIOUS
<1> HIDE DEF S, out, q
<1>4. /\ DOMAIN out = 1 .. Len(out) /\ Len(out) \in Nat
      /\ Range(out) = {out[k] : k \in 1 .. Len(out)} /\ Range(out) \subseteq TxRec
  BY <1>1, RangeOfList
<1>5. \A k \in 1 .. Len(out) : q[k] \in TxRec /\ q[k].id = out[k].id /\ q[k].Relayed
  <2> DEFINE marked(r) == [r EXCEPT !.Relayed = TRUE]
  <2>1. \A r \in TxRec : marked(r) \in TxRec /\ marked(r).id = r.id /\ marked(r).Relayed = TRUE
    BY DEF TxRec
  <2>2. \A k \in 1 .. Len(out) : out[k] \in TxRec /\ q[k] = marked(out[k])
    BY <1>2, <1>4
  <2> HIDE DEF marked
  <2> QED
    BY <2>1, <2>2
<1>6. q \in [1 .. Len(out) -> TxRec]
  BY <1>2, <1>4, <1>5
<1>7. q \in Seq(TxRec) /\ Len(q) = Len(out)
  BY <1>4, <1>6, SeqDef, LenProperties
<1>8. Range(q) = {q[k] : k \in 1 .. Len(out)} /\ DOMAIN q = 1 .. Len(out)
  BY <1>7, RangeOfList
<1>9. \A x \in Range(q) : x.Relayed /\ \E y \in Range(txs) \cap S : y.id = x.id
  BY <1>1, <1>4, <1>5, <1>8
<1>10. ids(q) \subseteq ids(txs)
  BY <1>9 DEF ids
<1>11. distinct(txs) => distinct(q)
  BY <1>1, <1>4, <1>5, <1>8 DEF distinct
<1>12. \A x \in Range(q) : PartitionMap[s][Recipient[x.id]] = i
  BY <1>3, <1>9
<1> QED
  BY <1>7, <1>9, <1>10, <1>11, <1>12 DEF q

\* RelayMsgSend: one message per shard of a recipient.
LEMMA RelayMsgList ==
  ASSUME NEW s, NEW txs, NEW m \in RelayMsgSend(s, txs)
  PROVE  m.to \in Shards \ {s} /\ m.txs = RelayPool(s, txs, m.to)
  BY DEF RelayMsgSend

LEMMA HandleinCommitTyped ==
  ASSUME Typed, NEW s \in Shards, HandleinCommit(s), distinct(request[s].txs)
  PROVE  Typed'
PROOF
<1> DEFINE txs == request[s].txs
           st == GetUpdateStatusTrie(s, txs)
<1>1. txs \in Seq(TxRec)
  BY RequestFields DEF Typed, MessagesOK, HandleinCommit
<1>2. /\ PartitionMap[s] \in [Accounts -> Shards] /\ trie[s] \in AccountStates
      /\ debits \in [Txs -> Nat] /\ credits \in [Txs -> Nat]
  BY DEF Typed, CoreOK, MessagesOK
<1>3. st \in BlockStates
  BY <1>1, <1>2, BlockCounts
<1>4. /\ trie' = [trie EXCEPT ![s] = st.trie] /\ debits' = st.debits /\ credits' = st.credits
      /\ relayNet' = relayNet \cup RelayMsgSend(s, txs)
      /\ request' = [request EXCEPT ![s] = Idle]
      /\ UNCHANGED <<committeeVars, PartitionMap, dataVars, TxQueue, injectNet,
                     accountNet, reset, late>>
  BY DEF HandleinCommit
<1> HIDE DEF st, txs
<1>5. CoreOK'
  BY <1>3, <1>4 DEF Typed, CoreOK, BlockStates, committeeVars, dataVars
<1>6. DOMAIN trie' = Shards /\ \A i \in Shards : trie'[i] \in AccountStates
  BY <1>3, <1>4 DEF BlockStates, Typed, MessagesOK
<1>7. request' \in [Shards -> Requests]
  BY <1>4, RequestForms DEF Typed, MessagesOK
<1>8. ASSUME NEW m \in RelayMsgSend(s, txs)
      PROVE  m.to \in Shards /\ m.txs \in Seq(TxRec) /\ \A x \in Range(m.txs) : x.Relayed
  <2>1. m.to \in Shards /\ m.txs = RelayPool(s, txs, m.to)
    BY RelayMsgList
  <2>2. /\ RelayPool(s, txs, m.to) \in Seq(TxRec)
        /\ \A x \in Range(RelayPool(s, txs, m.to)) : x.Relayed
    BY <1>1, RelayPoolList, Zenon
  <2> QED
    BY <2>1, <2>2
<1>9. MessagesOK'
  BY <1>4, <1>6, <1>7, <1>8 DEF Typed, MessagesOK, collected, dataVars
<1>10. MapsInStep'
  BY <1>4 DEF Typed, MessagesOK, MapsInStep, moving, Idle, committeeVars, dataVars
<1> QED
  BY <1>5, <1>9, <1>10 DEF Typed

-----------------------------------------------------------------------------
(***************************************************************************)
(* Each transaction is in one place.                                       *)
(***************************************************************************)

\* What a step may do to the places P and the transactions O outside of them:
\* a new place has only what was in a place that is gone or outside before.
LEMMA Rearranged ==
  ASSUME NEW P, NEW O, NEW Q, NEW R, single(P, O), R \subseteq O,
         \A q \in Q \ P :
           /\ distinct(q.txs)
           /\ \A t \in ids(q.txs) : t \in O \ R \/ \E p \in P \ Q : t \in ids(p.txs),
         \A q, r \in Q \ P : q # r => ids(q.txs) \cap ids(r.txs) = {}
  PROVE  single(Q, R)
PROOF
<1>1. ASSUME NEW q \in Q PROVE distinct(q.txs) /\ ids(q.txs) \cap R = {}
  BY DEF single
<1>2. ASSUME NEW q \in Q, NEW r \in Q, q # r PROVE ids(q.txs) \cap ids(r.txs) = {}
  <2>1. CASE q \in P /\ r \in P
    BY <1>2, <2>1 DEF single
  <2>2. CASE q \in P /\ r \notin P
    BY <1>2, <2>2 DEF single
  <2>3. CASE q \notin P /\ r \in P
    BY <1>2, <2>3 DEF single
  <2>4. CASE q \notin P /\ r \notin P
    BY <1>2, <2>4
  <2> QED
    BY <2>1, <2>2, <2>3, <2>4
<1> QED
  BY <1>1, <1>2 DEF single

LEMMA PlaceParts ==
  /\ \A a, o, q : place(a, o, q).txs = q
  /\ \A a, o, q, b, u, r : place(a, o, q) = place(b, u, r) => a = b /\ o = u /\ q = r
  BY DEF place

PlaceTable ==
  /\ \A p \in places :
       \/ \E s \in Shards : p = place("own", s, own(s))
       \/ \E m \in relayNet : p = place("relay", m, m.txs)
       \/ \E m \in accountNet : p = place("net", m, m.Txs)
       \/ \E m \in held : p = place("held", m, m.Txs)
  /\ \A s, q : place("own", s, q) \in places <=> s \in Shards /\ q = own(s)
  /\ \A m, q : place("relay", m, q) \in places <=> m \in relayNet /\ q = m.txs
  /\ \A m, q : place("net", m, q) \in places <=> m \in accountNet /\ q = m.Txs
  /\ \A m, q : place("held", m, q) \in places <=> m \in held /\ q = m.Txs

LEMMA PlacesAre == PlaceTable /\ PlaceTable'
PROOF
<1>1. PlaceTable
  BY PlaceParts DEF places, PlaceTable
<1>2. PlaceTable'
  BY <1>1, PTL
<1> QED
  BY <1>1, <1>2

\* The block of a shard and its queue.
block(s) == IF request[s].kind = "block" THEN request[s].txs ELSE <<>>

OwnLists ==
  \A s \in Shards : /\ own(s) = block(s) \o TxQueue[s]
                    /\ block(s) \in Seq(TxRec) /\ TxQueue[s] \in Seq(TxRec)
                    /\ own(s) \in Seq(TxRec)
                    /\ Range(own(s)) = Range(block(s)) \cup Range(TxQueue[s])
                    /\ ids(own(s)) = ids(block(s)) \cup ids(TxQueue[s])
                    /\ distinct(own(s)) => /\ distinct(block(s)) /\ distinct(TxQueue[s])
                                           /\ ids(block(s)) \cap ids(TxQueue[s]) = {}

LEMMA OwnIs == Typed => OwnLists
PROOF
<1> SUFFICES ASSUME Typed, NEW s \in Shards
             PROVE  /\ own(s) = block(s) \o TxQueue[s]
                    /\ block(s) \in Seq(TxRec) /\ TxQueue[s] \in Seq(TxRec)
                    /\ own(s) \in Seq(TxRec)
                    /\ Range(own(s)) = Range(block(s)) \cup Range(TxQueue[s])
                    /\ ids(own(s)) = ids(block(s)) \cup ids(TxQueue[s])
                    /\ distinct(own(s)) => /\ distinct(block(s)) /\ distinct(TxQueue[s])
                                           /\ ids(block(s)) \cap ids(TxQueue[s]) = {}
  BY DEF OwnLists
<1>1. own(s) = block(s) \o TxQueue[s]
  BY DEF own, block
<1>2. block(s) \in Seq(TxRec) /\ TxQueue[s] \in Seq(TxRec)
  BY RequestFields DEF Typed, MessagesOK, block
<1> QED
  BY <1>1, <1>2, ConcatList

LEMMA OwnIsNext == Typed' => OwnLists'
  BY OwnIs, PTL

\* What OnePlace says of the transactions of a shard.
LEMMA OwnDistinct ==
  ASSUME OnePlace, NEW s \in Shards
  PROVE  distinct(own(s)) /\ ids(own(s)) \cap outside = {}
  BY PlacesAre, PlaceParts DEF OnePlace, single, PlaceTable

LEMMA SamePlaces ==
  ASSUME UNCHANGED <<TxQueue, request, relayNet, accountNet, AccountStateTx>>
  PROVE  places' = places
  BY DEF places, own, held, collected

LEMMA InitOnePlace ==
  ASSUME Init
  PROVE  OnePlace
PROOF
<1>1. \A s \in Shards : own(s) = <<>>
  <2>1. \A s \in Shards : request[s].kind = "none" /\ TxQueue[s] = <<>>
    BY DEF Init, Idle
  <2> QED
    BY <2>1 DEF own
<1>2. relayNet = {} /\ accountNet = {} /\ injectNet = {}
  BY DEF Init
<1>3. \A s \in Shards : collected(s) = {}
  BY DEF Init, collected, EmptyMap
<1>4. held = {}
  BY <1>3 DEF held
<1>5. \A p \in places : p.txs = <<>>
  BY <1>1, <1>2, <1>4, PlacesAre, PlaceParts DEF PlaceTable
<1>6. \A p \in places : distinct(p.txs) /\ ids(p.txs) = {}
  BY <1>5, EmptyList
<1> QED
  BY <1>2, <1>6 DEF OnePlace, single

LEMMA OneList ==
  ASSUME NEW T, NEW x \in T
  PROVE  <<x>> \in Seq(T) /\ Range(<<x>>) = {x} /\ ids(<<x>>) = {x.id} /\ distinct(<<x>>)
PROOF
<1> DEFINE e == <<>>
<1>1. <<x>> = Append(e, x) /\ e \in Seq(T)
  OBVIOUS
<1>3. Range(e) = {} /\ distinct(e) /\ x.id \notin ids(e)
  BY EmptyList
<1> HIDE DEF e
<1>4. /\ Append(e, x) \in Seq(T) /\ Range(Append(e, x)) = Range(e) \cup {x}
      /\ distinct(e) /\ x.id \notin ids(e) => distinct(Append(e, x))
  BY <1>1, AppendList
<1>2. <<x>> \in Seq(T) /\ Range(<<x>>) = {x} /\ distinct(<<x>>)
  BY <1>1, <1>3, <1>4
<1> QED
  BY <1>2 DEF ids

LEMMA ThreeLists ==
  ASSUME NEW T, NEW b \in Seq(T), NEW q \in Seq(T), NEW x \in Seq(T)
  PROVE  /\ Range(b \o (q \o x)) = Range(b \o q) \cup Range(x)
         /\ ids(b \o (q \o x)) = ids(b \o q) \cup ids(x)
         /\ distinct(b \o q) /\ distinct(x) /\ ids(b \o q) \cap ids(x) = {} =>
              distinct(b \o (q \o x))
PROOF
<1>1. /\ q \o x \in Seq(T) /\ Range(q \o x) = Range(q) \cup Range(x)
      /\ ids(q \o x) = ids(q) \cup ids(x)
      /\ distinct(q) /\ distinct(x) /\ ids(q) \cap ids(x) = {} => distinct(q \o x)
  BY ConcatList
<1>2. /\ Range(b \o q) = Range(b) \cup Range(q) /\ ids(b \o q) = ids(b) \cup ids(q)
      /\ distinct(b \o q) => distinct(b) /\ distinct(q) /\ ids(b) \cap ids(q) = {}
  BY ConcatList
<1> DEFINE r == q \o x
<1>4. r \in Seq(T)
  BY <1>1
<1> HIDE DEF r
<1>3. /\ Range(b \o r) = Range(b) \cup Range(r) /\ ids(b \o r) = ids(b) \cup ids(r)
      /\ distinct(b) /\ distinct(r) /\ ids(b) \cap ids(r) = {} => distinct(b \o r)
  BY <1>4, ConcatList
<1> QED
  BY <1>1, <1>2, <1>3 DEF r

\* AddTxs2Pool.
LEMMA OwnGrows ==
  ASSUME Typed, NEW s \in Shards, NEW q \in Seq(TxRec), AddTxs2Pool(s, q),
         \A i \in Shards : block(i)' = block(i),
         distinct(own(s)), distinct(q), ids(own(s)) \cap ids(q) = {}
  PROVE  /\ \A i \in Shards \ {s} : own(i)' = own(i)
         /\ Range(own(s)') = Range(own(s)) \cup Range(q)
         /\ ids(own(s)') = ids(own(s)) \cup ids(q) /\ distinct(own(s)')
PROOF
<1>1. TxQueue' = [TxQueue EXCEPT ![s] = TxQueue[s] \o q] /\ TxQueue \in [Shards -> Seq(TxRec)]
  BY DEF AddTxs2Pool, Typed, MessagesOK
<1>2. /\ TxQueue'[s] = TxQueue[s] \o q
      /\ \A i \in Shards \ {s} : TxQueue'[i] = TxQueue[i]
  BY <1>1
<1>3. \A i \in Shards : own(i)' = block(i) \o TxQueue'[i] /\ own(i) = block(i) \o TxQueue[i]
  BY DEF own, block
<1>4. own(s)' = block(s) \o (TxQueue[s] \o q) /\ own(s) = block(s) \o TxQueue[s]
  BY <1>2, <1>3
<1>5. block(s) \in Seq(TxRec) /\ TxQueue[s] \in Seq(TxRec)
  BY OwnIs DEF OwnLists
<1>6. /\ Range(own(s)') = Range(own(s)) \cup Range(q)
      /\ ids(own(s)') = ids(own(s)) \cup ids(q) /\ distinct(own(s)')
  BY <1>4, <1>5, ThreeLists
<1> QED
  BY <1>2, <1>3, <1>6

\* What is in a place after a step was in one before or is new to the shards.
Carried ==
  /\ outside' \subseteq outside
  /\ \A p \in places' : \A x \in Range(p.txs) :
       \/ \E q \in places : x \in Range(q.txs)
       \/ x.Relayed = FALSE /\ x.id \in outside

LEMMA txSendingOnePlace ==
  ASSUME Typed, OnePlace, NEW t \in Txs, txSending(t)
  PROVE  OnePlace' /\ Carried
PROOF
<1> USE DEF txSending, chainVars, dataVars, history
<1> DEFINE n == [to |-> modifiedMap[Sender[t]], tx |-> t]
<1>1. places' = places
  BY SamePlaces
<1>2. n.tx = t /\ injectNet' = injectNet \cup {n}
  OBVIOUS
<1> HIDE DEF n
<1>3. outside' = outside
  BY <1>2 DEF outside
<1>4. \A m \in injectNet : m.tx # t
  BY DEF OnePlace
<1> QED
  BY <1>1, <1>2, <1>3, <1>4 DEF OnePlace, Carried

LEMMA handleInjectTxOnePlace ==
  ASSUME Typed, OnePlace, NEW m \in injectNet, handleInjectTx(m)
  PROVE  OnePlace' /\ Carried
PROOF
<1> USE DEF handleInjectTx, committeeVars, chainVars, dataVars, history
<1> DEFINE s == m.to
           one == <<Tx(m.tx, FALSE)>>
<1>1. s \in Shards /\ m.tx \in Txs /\ TxQueue[s] \in Seq(TxRec)
  BY DEF Typed, MessagesOK
<1>2. /\ one \in Seq(TxRec) /\ ids(one) = {m.tx} /\ distinct(one)
      /\ \A x \in Range(one) : x.id = m.tx /\ x.Relayed = FALSE
  <2>1. /\ Tx(m.tx, FALSE) \in TxRec /\ Tx(m.tx, FALSE).id = m.tx
        /\ Tx(m.tx, FALSE).Relayed = FALSE
    BY <1>1 DEF Tx, TxRec
  <2> QED
    BY <2>1, OneList
<1>3. AddTxs2Pool(s, one) /\ \A i \in Shards : block(i)' = block(i)
  BY DEF block
<1> HIDE DEF one
<1>5. distinct(own(s)) /\ m.tx \notin ids(own(s))
  BY <1>1, OwnDistinct DEF outside
<1>4. /\ \A i \in Shards \ {s} : own(i)' = own(i)
      /\ ids(own(s)') = ids(own(s)) \cup {m.tx} /\ distinct(own(s)')
      /\ Range(own(s)') = Range(own(s)) \cup Range(one)
  BY <1>1, <1>2, <1>3, <1>5, OwnGrows
<1>7. held' = held
  BY DEF held, collected
<1>8. outside' = outside \ {m.tx} /\ m.tx \in outside
  BY DEF OnePlace, outside
<1>9. \A q \in places' \ places : q = place("own", s, own(s)')
  BY <1>1, <1>4, <1>7, PlacesAre, PlaceParts DEF PlaceTable
<1>10. place("own", s, own(s)) \in places \ places'
  BY <1>1, <1>4, <1>5, PlacesAre, PlaceParts DEF PlaceTable
<1>11. single(places', outside')
  <2> DEFINE p0 == place("own", s, own(s))
  <2>1. p0 \in places \ places' /\ ids(p0.txs) = ids(own(s))
    BY <1>10, PlaceParts
  <2>2. \A q \in places' \ places : distinct(q.txs) /\ ids(q.txs) = ids(own(s)) \cup {m.tx}
    BY <1>4, <1>9, PlaceParts
  <2> HIDE DEF p0
  <2>3. \A q, r \in places' \ places : q # r => ids(q.txs) \cap ids(r.txs) = {}
    BY <1>9
  <2>4. \A q \in places' \ places : \A t \in ids(q.txs) :
          t \in outside \ outside' \/ \E p \in places \ places' : t \in ids(p.txs)
    BY <1>8, <2>1, <2>2
  <2> QED
    BY <1>8, <2>2, <2>3, <2>4, Rearranged DEF OnePlace
<1>12. Carried
  <2>1. \A x \in Range(own(s)') :
          (\E q \in places : x \in Range(q.txs)) \/ (x.Relayed = FALSE /\ x.id \in outside)
    BY <1>2, <1>4, <1>8, <1>10, PlaceParts
  <2> QED
    BY <1>8, <1>9, <2>1, PlaceParts DEF Carried
<1> QED
  BY <1>11, <1>12 DEF OnePlace

LEMMA handleRelayOnePlace ==
  ASSUME Typed, OnePlace, NEW m \in relayNet, handleRelay(m)
  PROVE  OnePlace' /\ Carried
PROOF
<1> USE DEF handleRelay, committeeVars, chainVars, dataVars, history
<1> DEFINE s == m.to
<1>1. s \in Shards /\ m.txs \in Seq(TxRec) /\ TxQueue[s] \in Seq(TxRec)
  BY DEF Typed, MessagesOK
<1>2. held' = held /\ outside' = outside
  BY DEF held, collected, outside
<1>3. place("relay", m, m.txs) \in places \ places'
  BY PlacesAre, PlaceParts DEF PlaceTable
<1>4. single(places', outside') /\ Carried
  <2>1. CASE ~proofsCorrect(m)
    <3>1. \A i \in Shards : own(i)' = own(i)
      BY <2>1 DEF own
    <3>2. places' \subseteq places
      BY <1>2, <3>1, PlacesAre, PlaceParts DEF PlaceTable
    <3> QED
      BY <1>2, <3>2 DEF OnePlace, single, Carried
  <2>2. CASE proofsCorrect(m)
    <3>1. AddTxs2Pool(s, m.txs) /\ \A i \in Shards : block(i)' = block(i)
      BY <2>2 DEF block
    <3>3. /\ distinct(own(s)) /\ distinct(m.txs) /\ ids(own(s)) \cap ids(m.txs) = {}
          /\ place("own", s, own(s)) \in places
      <4> DEFINE p == place("own", s, own(s))
                 r == place("relay", m, m.txs)
      <4>1. p \in places /\ r \in places /\ p.txs = own(s) /\ r.txs = m.txs /\ p # r
        BY <1>1, <1>3, PlacesAre, PlaceParts DEF PlaceTable
      <4> HIDE DEF p, r
      <4>2. distinct(p.txs) /\ distinct(r.txs) /\ ids(p.txs) \cap ids(r.txs) = {}
        BY <4>1 DEF OnePlace, single
      <4> QED
        BY <4>1, <4>2 DEF p
    <3>4. /\ \A i \in Shards \ {s} : own(i)' = own(i)
          /\ Range(own(s)') = Range(own(s)) \cup Range(m.txs)
          /\ ids(own(s)') = ids(own(s)) \cup ids(m.txs) /\ distinct(own(s)')
      BY <1>1, <3>1, <3>3, OwnGrows
    <3>5. \A q \in places' \ places : q = place("own", s, own(s)')
      BY <1>1, <1>2, <3>4, PlacesAre, PlaceParts DEF PlaceTable
    <3>6. ASSUME NEW q \in places' \ places
          PROVE  place("own", s, own(s)) \in places \ places'
      <4>1. place("own", s, own(s)') \notin places
        BY <3>5
      <4> QED
        BY <1>1, <3>3, <4>1, PlacesAre DEF PlaceTable
    <3>7. ASSUME NEW q \in places' \ places
          PROVE  /\ distinct(q.txs)
                 /\ \A t \in ids(q.txs) :
                      t \in outside \ outside' \/ \E p \in places \ places' : t \in ids(p.txs)
      <4>1. distinct(q.txs) /\ ids(q.txs) = ids(own(s)) \cup ids(m.txs)
        BY <3>4, <3>5, PlaceParts
      <4>2. \A t \in ids(own(s)) : \E p \in places \ places' : t \in ids(p.txs)
        BY <3>6, PlaceParts
      <4>3. \A t \in ids(m.txs) : \E p \in places \ places' : t \in ids(p.txs)
        BY <1>3, PlaceParts
      <4> QED
        BY <4>1, <4>2, <4>3
    <3>8. \A q, r \in places' \ places : q # r => ids(q.txs) \cap ids(r.txs) = {}
      BY <3>5
    <3>9. \A x \in Range(own(s)') : \E q \in places : x \in Range(q.txs)
      BY <1>3, <3>3, <3>4, PlaceParts
    <3>10. Carried
      BY <1>2, <3>5, <3>9, PlaceParts DEF Carried
    <3> QED
      BY <1>2, <3>7, <3>8, <3>10, Rearranged DEF OnePlace
  <2> QED
    BY <2>1, <2>2
<1> QED
  BY <1>4 DEF OnePlace

LEMMA handleAccountOnePlace ==
  ASSUME Typed, OnePlace, NEW m \in accountNet, handleAccountStateAndTxMsg(m)
  PROVE  OnePlace' /\ Carried /\ \A n \in held' : n \in held \/ n = m
PROOF
<1> USE DEF handleAccountStateAndTxMsg, committeeVars, chainVars
<1>1. outside' = outside /\ \A i \in Shards : own(i)' = own(i)
  BY DEF outside, own
<1>2. m.to \in Shards /\ DOMAIN AccountStateTx = Shards
  BY DEF Typed, MessagesOK, AccountMsgs
<1>3. \A n \in held' : n \in held \/ n = m
  <2> SUFFICES ASSUME NEW s \in Shards, request[s].kind # "partition", NEW i \in collected(s)'
               PROVE  AccountStateTx'[s][i] \in held \/ AccountStateTx'[s][i] = m
    BY DEF held
  <2>1. CASE s = m.to
    <3>1. AccountStateTx'[s] = put(AccountStateTx[s], m.from, m)
      BY <1>2, <2>1
    <3>2. i = m.from \/ i \in collected(s)
      BY <3>1 DEF collected, put
    <3>3. AccountStateTx'[s][i] = IF i = m.from THEN m ELSE AccountStateTx[s][i]
      BY <3>1, <3>2 DEF collected, put
    <3> QED
      BY <3>2, <3>3 DEF held
  <2>2. CASE s # m.to
    BY <1>2, <2>2 DEF held, collected
  <2> QED
    BY <2>1, <2>2
<1>4. \A q \in places' \ places : q = place("held", m, m.Txs)
  BY <1>1, <1>3, PlacesAre, PlaceParts DEF PlaceTable
<1>5. place("net", m, m.Txs) \in places \ places'
  BY PlacesAre, PlaceParts DEF PlaceTable
<1>6. distinct(m.Txs)
  BY <1>5, PlaceParts DEF OnePlace, single
<1>7. ASSUME NEW q \in places' \ places
      PROVE  /\ distinct(q.txs)
             /\ \A t \in ids(q.txs) :
                  t \in outside \ outside' \/ \E p \in places \ places' : t \in ids(p.txs)
  BY <1>4, <1>5, <1>6, PlaceParts
<1>8. \A q, r \in places' \ places : q # r => ids(q.txs) \cap ids(r.txs) = {}
  BY <1>4
<1>9. single(places', outside')
  BY <1>1, <1>7, <1>8, Rearranged DEF OnePlace
<1>10. Carried
  BY <1>1, <1>4, <1>5, PlaceParts DEF Carried
<1> QED
  BY <1>3, <1>9, <1>10 DEF OnePlace

LEMMA GenerateBlockOnePlace ==
  ASSUME Typed, OnePlace, NEW s \in Shards, GenerateBlock(s)
  PROVE  OnePlace' /\ Carried /\ (\A i \in Shards : own(i)' = own(i)) /\ held' = held
PROOF
<1> USE DEF GenerateBlock, committeeVars, chainVars, dataVars, netVars, history
<1> DEFINE b == PackTxs(s)
           rest == SubSeq(TxQueue[s], Len(b) + 1, Len(TxQueue[s]))
<1>1. b \in Seq(TxRec) /\ rest \in Seq(TxRec) /\ TxQueue[s] = b \o rest
  BY PackedFirst
<1>2. request[s] = Idle /\ request' = [request EXCEPT ![s] = [kind |-> "block", txs |-> b]]
      /\ TxQueue' = [TxQueue EXCEPT ![s] = rest]
  OBVIOUS
<1> HIDE DEF b, rest
<1>3. DOMAIN request = Shards /\ DOMAIN TxQueue = Shards
  BY DEF Typed, MessagesOK
<1>4. own(s) = <<>> \o TxQueue[s] /\ own(s)' = b \o rest
  <2>1. request[s].kind = "none"
    BY <1>2 DEF Idle
  <2>2. request'[s].kind = "block" /\ request'[s].txs = b /\ TxQueue'[s] = rest
    BY <1>2, <1>3
  <2>3. own(s) = <<>> \o TxQueue[s]
    BY <2>1 DEF own
  <2>4. own(s)' = b \o rest
    BY <2>2 DEF own
  <2> QED
    BY <2>3, <2>4
<1>5. own(s)' = own(s)
  BY <1>1, <1>4, ConcatProperties
<1>6. \A i \in Shards : own(i)' = own(i)
  BY <1>2, <1>3, <1>5 DEF own
<1>7. held' = held
  BY <1>2, <1>3 DEF held, collected, Idle
<1>8. places' = places /\ outside' = outside
  BY <1>6, <1>7 DEF places, outside
<1> QED
  BY <1>6, <1>7, <1>8 DEF OnePlace, Carried

LEMMA accountTransferOnePlace ==
  ASSUME Typed, OnePlace, NEW s \in Shards, accountTransfer_do(s)
  PROVE  OnePlace' /\ Carried /\ (\A i \in Shards : own(i)' = own(i)) /\ held' = held
PROOF
<1> USE DEF committeeVars, netVars
<1>1. /\ request[s].kind = "partition" /\ request' = [request EXCEPT ![s] = Idle]
      /\ AccountStateTx' = [AccountStateTx EXCEPT ![s] = EmptyMap]
      /\ UNCHANGED <<TxQueue, netVars, committeeVars>>
  BY DEF accountTransfer_do
<1>2. DOMAIN request = Shards /\ DOMAIN AccountStateTx = Shards
  BY DEF Typed, MessagesOK
<1>3. \A i \in Shards : own(i)' = own(i)
  BY <1>1, <1>2 DEF own, Idle
<1>4. held' = held
  <2>1. collected(s)' = {}
    BY <1>1, <1>2 DEF collected, EmptyMap
  <2>2. \A i \in Shards \ {s} : /\ collected(i)' = collected(i) /\ request'[i] = request[i]
                                /\ AccountStateTx'[i] = AccountStateTx[i]
    BY <1>1, <1>2 DEF collected
  <2> QED
    BY <1>1, <2>1, <2>2 DEF held
<1>5. places' = places /\ outside' = outside
  BY <1>1, <1>3, <1>4 DEF places, outside
<1> QED
  BY <1>1, <1>3, <1>4, <1>5 DEF OnePlace, Carried

LEMMA RelayMsgOf ==
  ASSUME NEW s, NEW txs, NEW m \in RelayMsgSend(s, txs), NEW n \in RelayMsgSend(s, txs),
         m.to = n.to
  PROVE  m = n
PROOF
<1> DEFINE f(i) == [to |-> i, txs |-> RelayPool(s, txs, i),
                    TxProofs |-> IF RelayWithMerkleProof
                                 THEN TxProofBatchGenerateOnBlock(RelayPool(s, txs, i), txs) ELSE {}]
<1>1. RelayMsgSend(s, txs) = {f(i) : i \in {j \in Shards \ {s} : RelayPool(s, txs, j) # <<>>}}
  BY DEF RelayMsgSend
<1>2. \A i : f(i).to = i
  OBVIOUS
<1> HIDE DEF f
<1> QED
  BY <1>1, <1>2

LEMMA DistinctIds ==
  ASSUME NEW T, NEW q \in Seq(T), distinct(q), NEW x \in Range(q), NEW y \in Range(q), x.id = y.id
  PROVE  x = y
  BY RangeOfList DEF distinct

\* What a block that is committed does to the places.
LEMMA HandleinCommitMoves ==
  ASSUME Typed, NEW s \in Shards, HandleinCommit(s)
  PROVE  /\ block(s) = request[s].txs /\ own(s)' = TxQueue[s]
         /\ \A i \in Shards \ {s} : own(i)' = own(i)
         /\ held' = held /\ outside' = outside /\ accountNet' = accountNet
         /\ relayNet' = relayNet \cup RelayMsgSend(s, block(s))
PROOF
<1> USE DEF committeeVars, dataVars
<1>1. /\ request[s].kind = "block" /\ request' = [request EXCEPT ![s] = Idle]
      /\ relayNet' = relayNet \cup RelayMsgSend(s, request[s].txs)
      /\ UNCHANGED <<committeeVars, dataVars, TxQueue, injectNet, accountNet>>
  BY DEF HandleinCommit
<1>2. DOMAIN request = Shards /\ TxQueue[s] \in Seq(TxRec)
  BY DEF Typed, MessagesOK
<1>3. \A i \in Shards \ {s} : own(i)' = own(i)
  BY <1>1, <1>2 DEF own
<1>4. request'[s].kind = "none"
  BY <1>1, <1>2 DEF Idle
<1>5. own(s)' = <<>> \o TxQueue[s]
  BY <1>1, <1>4 DEF own
<1>6. held' = held
  BY <1>1, <1>2, <1>4 DEF held, collected
<1>7. outside' = outside /\ block(s) = request[s].txs
  BY <1>1 DEF outside, block
<1> QED
  BY <1>1, <1>2, <1>3, <1>5, <1>6, <1>7, ConcatProperties

LEMMA HandleinCommitOnePlace ==
  ASSUME Typed, OnePlace, NEW s \in Shards, HandleinCommit(s)
  PROVE  OnePlace'
PROOF
<1> DEFINE b == block(s)
           p0 == place("own", s, own(s))
           new == place("own", s, TxQueue[s])
           relayed(n) == place("relay", n, n.txs)
           N == RelayMsgSend(s, b)
<1>1. /\ own(s)' = TxQueue[s] /\ \A i \in Shards \ {s} : own(i)' = own(i)
  BY HandleinCommitMoves
<1>2. held' = held /\ outside' = outside /\ accountNet' = accountNet /\ relayNet' = relayNet \cup N
  BY HandleinCommitMoves
<1>3. /\ b \in Seq(TxRec) /\ TxQueue[s] \in Seq(TxRec) /\ ids(own(s)) = ids(b) \cup ids(TxQueue[s])
      /\ distinct(b) /\ distinct(TxQueue[s]) /\ ids(b) \cap ids(TxQueue[s]) = {}
  BY OwnIs, OwnDistinct DEF OwnLists
<1>4. \A q \in places' \ places : q = new \/ \E n \in N : q = relayed(n)
  BY <1>1, <1>2, PlacesAre, PlaceParts DEF PlaceTable
<1>5. ASSUME NEW n \in N
      PROVE  /\ distinct(relayed(n).txs) /\ ids(relayed(n).txs) \subseteq ids(b)
             /\ \A x \in Range(n.txs) : PartitionMap[s][Recipient[x.id]] = n.to
  <2>1. n.txs = RelayPool(s, b, n.to)
    BY RelayMsgList
  <2> DEFINE q == RelayPool(s, b, n.to)
  <2> HIDE DEF b
  <2>2. /\ distinct(q) /\ ids(q) \subseteq ids(b)
        /\ \A x \in Range(q) : PartitionMap[s][Recipient[x.id]] = n.to
    BY <1>3, RelayPoolList, Zenon
  <2> QED
    BY <1>3, <2>1, <2>2, PlaceParts
<1>6. p0 \in places /\ p0.txs = own(s) /\ new.txs = TxQueue[s]
  BY PlacesAre, PlaceParts DEF PlaceTable
<1>7. ASSUME own(s) # TxQueue[s] PROVE p0 \notin places'
  BY <1>1, <1>7, PlacesAre DEF PlaceTable
<1>8. new \notin places => own(s) # TxQueue[s]
  BY PlacesAre DEF PlaceTable
<1> HIDE DEF p0, new, relayed, N, b
<1>9. ASSUME NEW q \in places' \ places
      PROVE  /\ distinct(q.txs)
             /\ \A t \in ids(q.txs) :
                  t \in outside \ outside' \/ \E p \in places \ places' : t \in ids(p.txs)
  <2>1. CASE q = new
    BY <1>3, <1>6, <1>7, <1>8, <2>1
  <2>2. CASE \E n \in N : q = relayed(n)
    <3>1. distinct(q.txs) /\ ids(q.txs) \subseteq ids(b)
      BY <1>5, <2>2
    <3>2. \A t \in ids(b) : own(s) # TxQueue[s]
      BY <1>3
    <3> QED
      BY <1>3, <1>6, <1>7, <3>1, <3>2
  <2> QED
    BY <1>4, <2>1, <2>2
<1>10. ASSUME NEW q \in places' \ places, NEW r \in places' \ places, q # r
       PROVE  ids(q.txs) \cap ids(r.txs) = {}
  <2>1. CASE q = new \/ r = new
    BY <1>3, <1>4, <1>5, <1>6, <1>10, <2>1
  <2>2. ASSUME NEW n \in N, NEW m \in N, q = relayed(n), r = relayed(m)
        PROVE  ids(q.txs) \cap ids(r.txs) = {}
    <3>1. n.to # m.to
      BY <1>10, <2>2, RelayMsgOf DEF N
    <3>2. q.txs = n.txs /\ r.txs = m.txs
      BY <2>2, PlaceParts DEF relayed
    <3> QED
      BY <1>5, <3>1, <3>2 DEF ids
  <2> QED
    BY <1>4, <2>1, <2>2
<1>11. single(places', outside')
  BY <1>2, <1>9, <1>10, Rearranged DEF OnePlace
<1>12. injectNet' = injectNet /\ unsent' = unsent
  BY DEF HandleinCommit, committeeVars
<1> QED
  BY <1>11, <1>12 DEF OnePlace

\* What sendAccounts_and_Txs takes out of the queue, and what it has for shard i.
LEMMA AccountMsgList ==
  ASSUME Typed, NEW s \in Shards, NEW i \in Shards
  PROVE  LET n == accountMsg(s, i)
         IN /\ n.from = s /\ n.to = i /\ n.epoch = received[s] /\ n.Txs \in Seq(TxRec)
            /\ distinct(TxQueue[s]) => distinct(n.Txs)
            /\ \A x : x \in Range(n.Txs) <=>
                 /\ x \in Range(TxQueue[s]) /\ travelsWith(x) \in accountToFetch(s)
                 /\ Maps[received[s]][travelsWith(x)] = i
PROOF
<1> DEFINE addrs == {a \in accountToFetch(s) : Maps[received[s]][a] = i}
           S == {tx \in Range(TxQueue[s]) : travelsWith(tx) \in addrs}
           n == accountMsg(s, i)
<1>1. /\ n.from = s /\ n.to = i /\ n.epoch = received[s] /\ n.Txs = filter(TxQueue[s], S)
  BY DEF accountMsg
<1>2. TxQueue[s] \in Seq(TxRec)
  BY DEF Typed, MessagesOK
<1>3. \A x : x \in S <=> /\ x \in Range(TxQueue[s]) /\ travelsWith(x) \in accountToFetch(s)
                         /\ Maps[received[s]][travelsWith(x)] = i
  OBVIOUS
<1> HIDE DEF addrs, S, n
<1>4. /\ n.Txs \in Seq(TxRec) /\ Range(n.Txs) = Range(TxQueue[s]) \cap S
      /\ distinct(TxQueue[s]) => distinct(n.Txs)
  BY <1>1, <1>2, FilterList
<1>5. \A x : x \in Range(n.Txs) <=> /\ x \in Range(TxQueue[s])
                                    /\ travelsWith(x) \in accountToFetch(s)
                                    /\ Maps[received[s]][travelsWith(x)] = i
  BY <1>3, <1>4
<1> QED
  BY <1>1, <1>4, <1>5 DEF n

LEMMA sendAccountsMoves ==
  ASSUME Typed, NEW s \in Shards, sendAccounts_and_Txs(s)
  PROVE  /\ own(s) = TxQueue[s] /\ own(s)' = TxQueue'[s] /\ TxQueue'[s] \in Seq(TxRec)
         /\ distinct(TxQueue[s]) => distinct(TxQueue'[s])
         /\ \A x : x \in Range(TxQueue'[s]) <=>
                     x \in Range(TxQueue[s]) /\ travelsWith(x) \notin accountToFetch(s)
         /\ \A i \in Shards \ {s} : own(i)' = own(i)
         /\ held' = held /\ outside' = outside /\ relayNet' = relayNet
         /\ accountNet' = accountNet \cup {accountMsg(s, i) : i \in Shards \ {s}}
PROOF
<1> USE DEF committeeVars, chainVars, dataVars
<1> DEFINE S == {tx \in Range(TxQueue[s]) : travelsWith(tx) \notin accountToFetch(s)}
<1>1. /\ request[s] = Idle /\ request' = [request EXCEPT ![s] = [kind |-> "sent"]]
      /\ TxQueue' = [TxQueue EXCEPT ![s] = filter(TxQueue[s], S)]
      /\ accountNet' = accountNet \cup {accountMsg(s, i) : i \in Shards \ {s}}
      /\ UNCHANGED <<committeeVars, dataVars, injectNet, relayNet>>
  BY DEF sendAccounts_and_Txs
<1>2. DOMAIN request = Shards /\ TxQueue[s] \in Seq(TxRec) /\ DOMAIN TxQueue = Shards
  BY DEF Typed, MessagesOK
<1>3. \A x : x \in S <=> x \in Range(TxQueue[s]) /\ travelsWith(x) \notin accountToFetch(s)
  OBVIOUS
<1> HIDE DEF S
<1>4. TxQueue'[s] = filter(TxQueue[s], S)
  BY <1>1, <1>2
<1>5. /\ TxQueue'[s] \in Seq(TxRec) /\ Range(TxQueue'[s]) = Range(TxQueue[s]) \cap S
      /\ distinct(TxQueue[s]) => distinct(TxQueue'[s])
  BY <1>2, <1>4, FilterList
<1>6. request[s].kind = "none" /\ request'[s].kind = "sent"
  BY <1>1, <1>2 DEF Idle
<1>7. own(s) = <<>> \o TxQueue[s] /\ own(s)' = <<>> \o TxQueue'[s]
  BY <1>6 DEF own
<1>8. own(s) = TxQueue[s] /\ own(s)' = TxQueue'[s]
  BY <1>2, <1>5, <1>7, ConcatProperties
<1>9. \A i \in Shards \ {s} : own(i)' = own(i)
  BY <1>1, <1>2 DEF own
<1>10. held' = held /\ outside' = outside
  BY <1>1, <1>2, <1>6 DEF held, collected, outside
<1> QED
  BY <1>1, <1>3, <1>5, <1>8, <1>9, <1>10

LEMMA sendAccountsOnePlace ==
  ASSUME Typed, OnePlace, NEW s \in Shards, sendAccounts_and_Txs(s)
  PROVE  OnePlace' /\ Carried
PROOF
<1> DEFINE q0 == TxQueue[s]
           q1 == TxQueue'[s]
           p0 == place("own", s, q0)
           new == place("own", s, q1)
           moved(n) == place("net", n, n.Txs)
           N == {accountMsg(s, i) : i \in Shards \ {s}}
           goes(x) == travelsWith(x) \in accountToFetch(s)
<1>1. own(s) = q0 /\ own(s)' = q1 /\ \A i \in Shards \ {s} : own(i)' = own(i)
  BY sendAccountsMoves
<1>2. held' = held /\ outside' = outside /\ relayNet' = relayNet /\ accountNet' = accountNet \cup N
  BY sendAccountsMoves
<1>3. q0 \in Seq(TxRec) /\ distinct(q0)
  BY <1>1, OwnDistinct DEF Typed, MessagesOK
<1>4. distinct(q1) /\ \A x : x \in Range(q1) <=> x \in Range(q0) /\ ~goes(x)
  BY <1>3, sendAccountsMoves
<1>5. \A q \in places' \ places : q = new \/ \E n \in N : q = moved(n)
  BY <1>1, <1>2, PlacesAre, PlaceParts DEF PlaceTable
<1>6. ASSUME NEW n \in N
      PROVE  /\ distinct(n.Txs) /\ moved(n).txs = n.Txs
             /\ \A x \in Range(n.Txs) :
                  x \in Range(q0) /\ goes(x) /\ Maps[received[s]][travelsWith(x)] = n.to
  <2>1. PICK i \in Shards : n = accountMsg(s, i)
    OBVIOUS
  <2> DEFINE a == accountMsg(s, i)
  <2>a. distinct(TxQueue[s])
    BY <1>3
  <2>2. /\ distinct(a.Txs) /\ a.to = i
        /\ \A x : x \in Range(a.Txs) <=>
             /\ x \in Range(TxQueue[s]) /\ travelsWith(x) \in accountToFetch(s)
             /\ Maps[received[s]][travelsWith(x)] = i
    BY <2>a, AccountMsgList
  <2> QED
    BY <2>1, <2>2, PlaceParts
<1>7. \A m, n \in N : m.to = n.to => m = n
  <2>1. \A i \in Shards : accountMsg(s, i).to = i
    BY DEF accountMsg
  <2> QED
    BY <2>1
<1>8. p0 \in places /\ p0.txs = q0 /\ new.txs = q1
  BY <1>1, PlacesAre, PlaceParts DEF PlaceTable
<1>9. ASSUME q0 # q1 PROVE p0 \notin places'
  BY <1>1, <1>9, PlacesAre DEF PlaceTable
<1>10. new \notin places => q0 # q1
  BY <1>1, PlacesAre DEF PlaceTable
<1> HIDE DEF p0, new, moved, N, q0, q1, goes
<1>11. ASSUME NEW q \in places' \ places
       PROVE  /\ distinct(q.txs)
              /\ \A t \in ids(q.txs) :
                   t \in outside \ outside' \/ \E p \in places \ places' : t \in ids(p.txs)
  <2>1. CASE q = new
    <3>1. ids(q1) \subseteq ids(q0)
      BY <1>4 DEF ids
    <3> QED
      BY <1>4, <1>8, <1>9, <1>10, <2>1, <3>1
  <2>2. CASE \E n \in N : q = moved(n)
    <3>1. distinct(q.txs) /\ \A x \in Range(q.txs) : x \in Range(q0) /\ goes(x)
      BY <1>6, <2>2
    <3>2. ids(q.txs) \subseteq ids(q0)
      BY <3>1 DEF ids
    <3>3. \A t \in ids(q.txs) : q0 # q1
      BY <1>4, <3>1 DEF ids
    <3> QED
      BY <1>8, <1>9, <3>1, <3>2, <3>3
  <2> QED
    BY <1>5, <2>1, <2>2
<1>12. ASSUME NEW q \in places' \ places, NEW r \in places' \ places, q # r
       PROVE  ids(q.txs) \cap ids(r.txs) = {}
  <2>1. \A x, y \in Range(q0) : x.id = y.id => x = y
    BY <1>3, DistinctIds
  <2>2. ASSUME NEW x, x \in Range(q.txs), x \in Range(r.txs)
        PROVE  FALSE
    <3>1. CASE q = new
      BY <1>4, <1>5, <1>6, <1>8, <1>12, <2>2, <3>1
    <3>2. CASE r = new
      BY <1>4, <1>5, <1>6, <1>8, <1>12, <2>2, <3>2
    <3>3. ASSUME NEW n \in N, NEW m \in N, q = moved(n), r = moved(m)
          PROVE  FALSE
      BY <1>6, <1>7, <1>12, <2>2, <3>3
    <3> QED
      BY <1>5, <3>1, <3>2, <3>3
  <2>3. Range(q.txs) \subseteq Range(q0) /\ Range(r.txs) \subseteq Range(q0)
    BY <1>4, <1>5, <1>6, <1>8
  <2> QED
    BY <2>1, <2>2, <2>3 DEF ids
<1>13. single(places', outside')
  BY <1>2, <1>11, <1>12, Rearranged DEF OnePlace
<1>14. injectNet' = injectNet /\ unsent' = unsent
  BY DEF sendAccounts_and_Txs, committeeVars
<1>15. Carried
  <2>1. \A q \in places' \ places : \A x \in Range(q.txs) : x \in Range(p0.txs)
    BY <1>4, <1>5, <1>6, <1>8
  <2> QED
    BY <1>2, <1>8, <2>1 DEF Carried
<1> QED
  BY <1>13, <1>14, <1>15 DEF OnePlace

\* What the proposal of a partition does to the places.
LEMMA proposePartitionMoves ==
  ASSUME Typed, OnePlace, NEW s \in Shards, proposePartition(s)
  PROVE  /\ \A i \in collected(s) : /\ AccountStateTx[s][i] \in held \ held'
                                    /\ AccountStateTx[s][i].to = s
         /\ \A x \in Range(validTxs(s)) :
              /\ newShard(s, travelsWith(x)) = s
              /\ \E i \in collected(s) : x \in Range(AccountStateTx[s][i].Txs)
         /\ Range(own(s)') = Range(own(s)) \cup Range(validTxs(s))
         /\ ids(own(s)') = ids(own(s)) \cup ids(validTxs(s)) /\ distinct(own(s)')
         /\ \A i \in Shards \ {s} : own(i)' = own(i)
         /\ held' \subseteq held /\ outside' = outside
         /\ relayNet' = relayNet /\ accountNet' = accountNet
PROOF
<1> USE DEF committeeVars, chainVars, dataVars, netVars, history
<1> DEFINE msg(i) == AccountStateTx[s][i]
           R == ReceivedNewTx(s)
           V == {tx \in Range(R) : newShard(s, travelsWith(tx)) = s}
<1>1. /\ request[s].kind = "sent" /\ AddTxs2Pool(s, validTxs(s))
      /\ \E rec : rec.kind = "partition" /\ request' = [request EXCEPT ![s] = rec]
      /\ UNCHANGED <<committeeVars, chainVars, dataVars, netVars, history>>
  <2>1. \A st : [kind |-> "partition", map |-> Maps[AccountTransferRound[s] + 1],
                 ATid |-> received[s], AccountState |-> st].kind = "partition"
    OBVIOUS
  <2> QED
    BY <2>1 DEF proposePartition
<1>2. DOMAIN request = Shards
  BY DEF Typed, MessagesOK
<1>3. request'[s].kind = "partition" /\ \A i \in Shards \ {s} : request'[i] = request[i]
  BY <1>1, <1>2
<1>4. \A i \in Shards : block(i)' = block(i)
  BY <1>1, <1>3 DEF block
<1>5. \A r \in Shards : \A i \in collected(r) :
        /\ AccountStateTx[r][i].to = r /\ AccountStateTx[r][i].from = i
        /\ AccountStateTx[r][i].Txs \in Seq(TxRec)
  BY DEF Typed, MessagesOK, AccountMsgs
<1>6. \A n \in held' : n \in held /\ n.to # s
  <2>1. \A n \in held' : \E r \in Shards : r # s /\ \E i \in collected(r) : n = AccountStateTx[r][i]
    BY <1>1, <1>3 DEF held, collected
  <2>2. \A n \in held' : n.to # s
    BY <1>5, <2>1
  <2>3. held' \subseteq held
    BY <1>1, <1>3 DEF held, collected
  <2> QED
    BY <2>2, <2>3
<1>7. \A i \in collected(s) : msg(i) \in held /\ msg(i).to = s
  BY <1>1, <1>5 DEF held
<1>8. \A i \in collected(s) : place("held", msg(i), msg(i).Txs) \in places
  BY <1>7, PlacesAre DEF PlaceTable
<1>9. \A i \in collected(s) : distinct(msg(i).Txs) /\ ids(own(s)) \cap ids(msg(i).Txs) = {}
  <2> SUFFICES ASSUME NEW i \in collected(s)
               PROVE  distinct(msg(i).Txs) /\ ids(own(s)) \cap ids(msg(i).Txs) = {}
    OBVIOUS
  <2> DEFINE p == place("held", msg(i), msg(i).Txs)
             o == place("own", s, own(s))
  <2>1. p \in places /\ p.txs = msg(i).Txs /\ o \in places /\ o.txs = own(s) /\ p # o
    BY <1>8, PlacesAre, PlaceParts DEF PlaceTable
  <2> HIDE DEF p, o
  <2>2. distinct(p.txs) /\ ids(o.txs) \cap ids(p.txs) = {}
    BY <2>1 DEF OnePlace, single
  <2> QED
    BY <2>1, <2>2
<1>10. ASSUME NEW i \in collected(s), NEW j \in collected(s), i # j
       PROVE  ids(msg(i).Txs) \cap ids(msg(j).Txs) = {}
  <2> DEFINE p == place("held", msg(i), msg(i).Txs)
             o == place("held", msg(j), msg(j).Txs)
  <2>1. p \in places /\ p.txs = msg(i).Txs /\ o \in places /\ o.txs = msg(j).Txs /\ p # o
    BY <1>5, <1>8, <1>10, PlaceParts
  <2> HIDE DEF p, o
  <2>2. ids(p.txs) \cap ids(o.txs) = {}
    BY <2>1 DEF OnePlace, single
  <2> QED
    BY <2>1, <2>2
<1>11. /\ R \in Seq(TxRec) /\ Range(R) = UNION {Range(msg(i).Txs) : i \in collected(s)}
       /\ distinct(R)
  BY <1>9, <1>10, ReceivedList DEF Typed
<1>12. validTxs(s) = filter(R, V) /\ \A x \in V : newShard(s, travelsWith(x)) = s
  BY DEF validTxs
<1> HIDE DEF R, V
<1>13. /\ validTxs(s) \in Seq(TxRec) /\ Range(validTxs(s)) = Range(R) \cap V
       /\ distinct(validTxs(s))
  BY <1>11, <1>12, FilterList
<1>14. \A x \in Range(validTxs(s)) :
         newShard(s, travelsWith(x)) = s /\ \E i \in collected(s) : x \in Range(msg(i).Txs)
  BY <1>11, <1>12, <1>13
<1>15. ids(own(s)) \cap ids(validTxs(s)) = {}
  BY <1>9, <1>14 DEF ids
<1>16. distinct(own(s))
  BY OwnDistinct
<1>17. /\ \A i \in Shards \ {s} : own(i)' = own(i)
       /\ Range(own(s)') = Range(own(s)) \cup Range(validTxs(s))
       /\ ids(own(s)') = ids(own(s)) \cup ids(validTxs(s)) /\ distinct(own(s)')
  BY <1>1, <1>4, <1>13, <1>15, <1>16, OwnGrows
<1>18. outside' = outside
  BY <1>1 DEF outside
<1> QED
  BY <1>1, <1>6, <1>7, <1>14, <1>17, <1>18

LEMMA proposePartitionOnePlace ==
  ASSUME Typed, OnePlace, NEW s \in Shards, proposePartition(s)
  PROVE  OnePlace' /\ Carried
PROOF
<1> DEFINE msg(i) == AccountStateTx[s][i]
           p0 == place("own", s, own(s))
           new == place("own", s, own(s)')
           gone(i) == place("held", msg(i), msg(i).Txs)
<1>1. /\ \A i \in collected(s) : msg(i) \in held \ held'
      /\ \A x \in Range(validTxs(s)) : \E i \in collected(s) : x \in Range(msg(i).Txs)
      /\ ids(own(s)') = ids(own(s)) \cup ids(validTxs(s)) /\ distinct(own(s)')
      /\ Range(own(s)') = Range(own(s)) \cup Range(validTxs(s))
      /\ \A i \in Shards \ {s} : own(i)' = own(i)
      /\ held' \subseteq held /\ outside' = outside
      /\ relayNet' = relayNet /\ accountNet' = accountNet
  BY proposePartitionMoves
<1>2. \A q \in places' \ places : q = new
  BY <1>1, PlacesAre, PlaceParts DEF PlaceTable
<1>3. p0 \in places /\ p0.txs = own(s) /\ new.txs = own(s)'
  BY PlacesAre, PlaceParts DEF PlaceTable
<1>4. new \notin places => p0 \notin places'
  BY PlacesAre DEF PlaceTable
<1>5. \A i \in collected(s) : gone(i) \in places \ places' /\ gone(i).txs = msg(i).Txs
  BY <1>1, PlacesAre, PlaceParts DEF PlaceTable
<1> HIDE DEF p0, new, gone, msg
<1>6. ASSUME NEW q \in places' \ places
      PROVE  /\ distinct(q.txs)
             /\ \A t \in ids(q.txs) :
                  t \in outside \ outside' \/ \E p \in places \ places' : t \in ids(p.txs)
  <2>1. distinct(q.txs) /\ ids(q.txs) = ids(own(s)) \cup ids(validTxs(s))
    BY <1>1, <1>2, <1>3
  <2>2. p0 \in places \ places'
    BY <1>2, <1>3, <1>4
  <2>3. \A t \in ids(validTxs(s)) : \E i \in collected(s) : t \in ids(msg(i).Txs)
    BY <1>1 DEF ids
  <2> QED
    BY <1>3, <1>5, <2>1, <2>2, <2>3
<1>7. \A q, r \in places' \ places : q # r => ids(q.txs) \cap ids(r.txs) = {}
  BY <1>2
<1>8. single(places', outside')
  BY <1>1, <1>6, <1>7, Rearranged DEF OnePlace
<1>9. injectNet' = injectNet /\ unsent' = unsent
  BY DEF proposePartition, committeeVars, netVars
<1>10. \A x \in Range(own(s)') : \E q \in places : x \in Range(q.txs)
  BY <1>1, <1>3, <1>5
<1>11. Carried
  BY <1>1, <1>2, <1>3, <1>10 DEF Carried
<1> QED
  BY <1>8, <1>9, <1>11 DEF OnePlace

LEMMA NextOnePlace ==
  ASSUME Typed, OnePlace, [Next]_vars
  PROVE  /\ Typed' /\ OnePlace'
         /\ \/ \E s \in Shards : HandleinCommit(s)
            \/ Carried /\ UNCHANGED <<debits, credits>> /\ late \subseteq late'
PROOF
<1> DEFINE Kept == Carried /\ UNCHANGED <<debits, credits>> /\ late \subseteq late'
<1> USE DEF history
<1>1. ASSUME NEW t \in Txs, txSending(t) PROVE Typed' /\ OnePlace' /\ Kept
  BY <1>1, txSendingTyped, txSendingOnePlace DEF txSending
<1>2. ASSUME clpaMapSend PROVE Typed' /\ OnePlace' /\ Kept
  <2>1. places' = places
    BY <1>2, SamePlaces DEF clpaMapSend, chainVars, dataVars, netVars
  <2>2. OnePlace' /\ Kept
    BY <1>2, <2>1 DEF OnePlace, Carried, outside, clpaMapSend, netVars
  <2> QED
    BY <1>2, <2>2, clpaMapSendTyped
<1>3. ASSUME NEW m \in injectNet, handleInjectTx(m) PROVE Typed' /\ OnePlace' /\ Kept
  BY <1>3, handleInjectTxTyped, handleInjectTxOnePlace DEF handleInjectTx
<1>4. ASSUME NEW m \in relayNet, handleRelay(m) PROVE Typed' /\ OnePlace' /\ Kept
  BY <1>4, handleRelayTyped, handleRelayOnePlace DEF handleRelay
<1>5. ASSUME NEW m \in accountNet, handleAccountStateAndTxMsg(m) PROVE Typed' /\ OnePlace' /\ Kept
  BY <1>5, handleAccountTyped, handleAccountOnePlace DEF handleAccountStateAndTxMsg
<1>6. ASSUME NEW s \in Shards, handlePartitionMsg(s) PROVE Typed' /\ OnePlace' /\ Kept
  <2>1. places' = places
    BY <1>6, SamePlaces DEF handlePartitionMsg, netVars
  <2>2. OnePlace' /\ Kept
    BY <1>6, <2>1 DEF OnePlace, Carried, outside, handlePartitionMsg, netVars, committeeVars
  <2> QED
    BY <1>6, <2>2, handlePartitionMsgTyped
<1>7. ASSUME NEW s \in Shards, GenerateBlock(s) PROVE Typed' /\ OnePlace' /\ Kept
  BY <1>7, GenerateBlockTyped, GenerateBlockOnePlace DEF GenerateBlock
<1>8. ASSUME NEW s \in Shards, HandleinCommit(s) PROVE Typed' /\ OnePlace'
  <2>1. distinct(request[s].txs)
    BY <1>8, HandleinCommitMoves, OwnIs, OwnDistinct DEF OwnLists
  <2> QED
    BY <1>8, <2>1, HandleinCommitTyped, HandleinCommitOnePlace
<1>9. ASSUME NEW s \in Shards, sendAccounts_and_Txs(s) PROVE Typed' /\ OnePlace' /\ Kept
  BY <1>9, sendAccountsTyped, sendAccountsOnePlace DEF sendAccounts_and_Txs
<1>10. ASSUME NEW s \in Shards, proposePartition(s) PROVE Typed' /\ OnePlace' /\ Kept
  BY <1>10, proposePartitionTyped, proposePartitionOnePlace DEF proposePartition
<1>11. ASSUME NEW s \in Shards, accountTransfer_do(s) PROVE Typed' /\ OnePlace' /\ Kept
  BY <1>11, accountTransferTyped, accountTransferOnePlace DEF accountTransfer_do
<1>12. ASSUME UNCHANGED vars PROVE Typed' /\ OnePlace' /\ Kept
  <2>1. UNCHANGED <<unsent, epoch, modifiedMap, received, AccountTransferRound, PartitionMap,
                    trie, TxQueue, AccountStateTx, request, injectNet, relayNet, accountNet,
                    debits, credits, late>>
    BY <1>12 DEF vars, committeeVars, chainVars, dataVars, netVars, history
  <2>2. CoreOK' /\ MessagesOK' /\ MapsInStep'
    BY <2>1 DEF Typed, CoreOK, MessagesOK, MapsInStep, moving, collected
  <2>3. places' = places
    BY <2>1, SamePlaces
  <2> QED
    BY <2>1, <2>2, <2>3 DEF Typed, OnePlace, Carried, outside
<1> HIDE DEF Kept
<1>13. Typed' /\ OnePlace' /\ (Kept \/ \E s \in Shards : HandleinCommit(s))
  BY <1>1, <1>2, <1>3, <1>4, <1>5, <1>6, <1>7, <1>8, <1>9, <1>10, <1>11, <1>12
     DEF Next, Deliver, ShardStep
<1> QED
  BY <1>13 DEF Kept

\* The fields of the committee, of a shard's leader and of the messages keep
\* their types, and the balance of an account never falls below zero (TypeOK).
THEOREM ReshardTypes == Spec => []TypeOK
PROOF
<1>1. Init => Typed /\ OnePlace
  BY InitTyped, InitOnePlace
<1>2. Typed /\ OnePlace /\ [Next]_vars => (Typed /\ OnePlace)'
  BY NextOnePlace
<1>3. Typed /\ OnePlace => TypeOK
  BY TypesFromParts
<1> QED
  BY <1>1, <1>2, <1>3, PTL DEF Spec

\* No transaction is in two places at a time or twice in one: what PackTxs, the
\* relay pools and the account messages hand on is taken out where it was.
THEOREM InOnePlace == Spec => []OnePlace
PROOF
<1>1. Init => Typed /\ OnePlace
  BY InitTyped, InitOnePlace
<1>2. Typed /\ OnePlace /\ [Next]_vars => (Typed /\ OnePlace)'
  BY NextOnePlace
<1> QED
  BY <1>1, <1>2, PTL DEF Spec

-----------------------------------------------------------------------------
(***************************************************************************)
(* No transaction is debited or credited twice.                            *)
(***************************************************************************)

\* After a block was committed a place has none of its transactions, or relayed
\* ones whose recipient is elsewhere.
LEMMA CommitPlaces ==
  ASSUME Typed, OnePlace, NEW s \in Shards, HandleinCommit(s)
  PROVE  \A p \in places' : \A x \in Range(p.txs) :
           \/ x.id \notin ids(block(s)) /\ \E q \in places : x \in Range(q.txs)
           \/ x.Relayed /\ x.id \in ids(block(s)) /\ PartitionMap[s][Recipient[x.id]] # s
PROOF
<1> DEFINE b == block(s)
           p0 == place("own", s, own(s))
           N == RelayMsgSend(s, b)
           other(x) == x.id \notin ids(b) /\ \E q \in places : x \in Range(q.txs)
           sent(x) == x.Relayed /\ x.id \in ids(b) /\ PartitionMap[s][Recipient[x.id]] # s
<1>1. /\ own(s)' = TxQueue[s] /\ (\A i \in Shards \ {s} : own(i)' = own(i)) /\ held' = held
      /\ accountNet' = accountNet /\ relayNet' = relayNet \cup N
  BY HandleinCommitMoves
<1>2. /\ b \in Seq(TxRec) /\ ids(own(s)) = ids(b) \cup ids(TxQueue[s])
      /\ ids(b) \cap ids(TxQueue[s]) = {} /\ Range(TxQueue[s]) \subseteq Range(own(s))
  BY OwnIs, OwnDistinct DEF OwnLists
<1>3. p0 \in places /\ p0.txs = own(s)
  BY PlacesAre, PlaceParts DEF PlaceTable
<1>4. \A p \in places' : \/ p.txs = TxQueue[s]
                         \/ p \in places /\ p # p0
                         \/ \E n \in N : p.txs = n.txs
  BY <1>1, PlacesAre, PlaceParts DEF PlaceTable
<1>5. ASSUME NEW x \in Range(TxQueue[s]) PROVE other(x)
  BY <1>2, <1>3 DEF ids
<1>6. ASSUME NEW p \in places, p # p0, NEW x \in Range(p.txs) PROVE other(x)
  <2>1. ids(p.txs) \cap ids(p0.txs) = {}
    BY <1>3, <1>6 DEF OnePlace, single
  <2> QED
    BY <1>2, <1>3, <1>6, <2>1 DEF ids
<1>7. ASSUME NEW n \in N, NEW x \in Range(n.txs) PROVE sent(x)
  <2>1. n.to # s /\ n.txs = RelayPool(s, b, n.to)
    BY RelayMsgList
  <2> DEFINE q == RelayPool(s, b, n.to)
  <2> HIDE DEF b
  <2>2. /\ ids(q) \subseteq ids(b) /\ (\A y \in Range(q) : y.Relayed)
        /\ \A y \in Range(q) : PartitionMap[s][Recipient[y.id]] = n.to
    BY <1>2, RelayPoolList, Zenon
  <2> QED
    BY <1>7, <2>1, <2>2 DEF ids
<1> HIDE DEF other, sent
<1>8. \A p \in places' : \A x \in Range(p.txs) : other(x) \/ sent(x)
  BY <1>4, <1>5, <1>6, <1>7
<1> QED
  BY <1>8 DEF other, sent

\* What a block that is committed does to the counts.
LEMMA CommitCounts ==
  ASSUME Typed, OnePlace, NEW s \in Shards, HandleinCommit(s)
  PROVE  /\ block(s) \in Seq(TxRec) /\ Range(block(s)) \subseteq Range(own(s))
         /\ Range(block(s)) \subseteq TxRec
         /\ \A t \in Txs \ ids(block(s)) : debits'[t] = debits[t] /\ credits'[t] = credits[t]
         /\ \A x \in Range(block(s)) :
              /\ debits'[x.id] \in {debits[x.id], debits[x.id] + 1}
              /\ x.Relayed => debits'[x.id] = debits[x.id]
              /\ credits'[x.id] \in {credits[x.id], credits[x.id] + 1}
              /\ PartitionMap[s][Recipient[x.id]] # s => credits'[x.id] = credits[x.id]
PROOF
<1>1. block(s) \in Seq(TxRec) /\ Range(block(s)) \subseteq Range(own(s)) /\ distinct(block(s))
  BY OwnIs, OwnDistinct DEF OwnLists
<1>2. block(s) = request[s].txs
  BY HandleinCommitMoves
<1>3. /\ debits' = GetUpdateStatusTrie(s, block(s)).debits
      /\ credits' = GetUpdateStatusTrie(s, block(s)).credits
  BY <1>2 DEF HandleinCommit
<1>4. /\ PartitionMap[s] \in [Accounts -> Shards] /\ trie[s] \in AccountStates
      /\ debits \in [Txs -> Nat] /\ credits \in [Txs -> Nat]
  BY DEF Typed, CoreOK, MessagesOK
<1>5. Range(block(s)) \subseteq TxRec
  BY <1>1, RangeOfList
<1> QED
  BY <1>1, <1>3, <1>4, <1>5, BlockCounts

LEMMA OwnPlace ==
  ASSUME NEW s \in Shards
  PROVE  \A x \in Range(own(s)) : \E p \in places : x \in Range(p.txs)
PROOF
<1>1. place("own", s, own(s)) \in places /\ place("own", s, own(s)).txs = own(s)
  BY PlacesAre, PlaceParts DEF PlaceTable
<1> QED
  BY <1>1

LEMMA PlacedTyped ==
  ASSUME Typed, NEW p \in places, NEW x \in Range(p.txs)
  PROVE  x \in TxRec /\ x.id \in Txs
PROOF
<1>1. \A m \in relayNet : m.txs \in Seq(TxRec)
  BY DEF Typed, MessagesOK
<1>2. \A m \in accountNet \cup held : m.Txs \in Seq(TxRec)
  BY DEF Typed, MessagesOK, AccountMsgs, held
<1>3. \A s \in Shards : own(s) \in Seq(TxRec)
  BY OwnIs DEF OwnLists
<1>4. p.txs \in Seq(TxRec)
  BY <1>1, <1>2, <1>3, PlacesAre, PlaceParts DEF PlaceTable
<1>5. x \in TxRec
  BY <1>4, RangeOfList
<1> QED
  BY <1>5 DEF TxRec

LEMMA CountedStep ==
  ASSUME Typed, OnePlace, Counted, [Next]_vars
  PROVE  Counted'
PROOF
<1>1. CASE Carried /\ UNCHANGED <<debits, credits>>
  <2>1. ASSUME NEW p \in places', NEW x \in Range(p.txs)
        PROVE  credits[x.id] = 0 /\ (~x.Relayed => debits[x.id] = 0)
    BY <1>1, <2>1 DEF Carried, Counted
  <2> QED
    BY <1>1, <2>1 DEF Carried, Counted
<1>2. ASSUME NEW s \in Shards, HandleinCommit(s) PROVE Counted'
  <2> DEFINE b == block(s)
  <2>1. \A x \in Range(b) : /\ x.id \in Txs /\ credits[x.id] = 0 /\ debits[x.id] <= 1
                            /\ ~x.Relayed => debits[x.id] = 0
    <3>1. Range(b) \subseteq Range(own(s)) /\ \A x \in Range(b) : x.id \in Txs
      BY <1>2, CommitCounts DEF TxRec
    <3> QED
      BY <3>1, OwnPlace DEF Counted
  <2>2. /\ \A t \in Txs \ ids(b) : debits'[t] = debits[t] /\ credits'[t] = credits[t]
        /\ \A x \in Range(b) :
             /\ debits'[x.id] \in {debits[x.id], debits[x.id] + 1}
             /\ x.Relayed => debits'[x.id] = debits[x.id]
             /\ credits'[x.id] \in {credits[x.id], credits[x.id] + 1}
             /\ PartitionMap[s][Recipient[x.id]] # s => credits'[x.id] = credits[x.id]
    BY <1>2, CommitCounts
  <2>3. \A t \in ids(b) : \E x \in Range(b) : x.id = t
    BY DEF ids
  <2>4. /\ ids(b) \cap outside = {} /\ outside' = outside
    BY <1>2, OwnIs, OwnDistinct, HandleinCommitMoves DEF OwnLists
  <2>5. outside \subseteq Txs
    BY DEF Typed, CoreOK, MessagesOK, outside
  <2>6. \A p \in places' : \A x \in Range(p.txs) :
           \/ x.id \notin ids(b) /\ \E q \in places : x \in Range(q.txs)
           \/ x.Relayed /\ x.id \in ids(b) /\ PartitionMap[s][Recipient[x.id]] # s
    BY <1>2, CommitPlaces
  <2> HIDE DEF b
  <2>7. ASSUME NEW t \in Txs PROVE debits'[t] <= 1 /\ credits'[t] <= 1
    <3>1. CASE t \notin ids(b)
      BY <2>2, <3>1 DEF Counted
    <3>2. CASE t \in ids(b)
      <4>1. PICK x \in Range(b) : x.id = t
        BY <2>3, <3>2
      <4>2. credits'[t] <= 1
        BY <2>1, <2>2, <4>1
      <4>3. CASE x.Relayed
        BY <2>1, <2>2, <4>1, <4>2, <4>3
      <4>4. CASE ~x.Relayed
        BY <2>1, <2>2, <4>1, <4>2, <4>4
      <4> QED
        BY <4>3, <4>4
    <3> QED
      BY <3>1, <3>2
  <2>8. \A t \in outside' : debits'[t] = 0 /\ credits'[t] = 0
    BY <2>2, <2>4, <2>5 DEF Counted
  <2>9. ASSUME NEW p \in places', NEW x \in Range(p.txs)
        PROVE  credits'[x.id] = 0 /\ (~x.Relayed => debits'[x.id] = 0)
    <3>1. CASE x.id \notin ids(b) /\ \E q \in places : x \in Range(q.txs)
      <4>1. x.id \in Txs
        BY <3>1, PlacedTyped
      <4>2. credits[x.id] = 0 /\ (~x.Relayed => debits[x.id] = 0)
        BY <3>1 DEF Counted
      <4> QED
        BY <2>2, <3>1, <4>1, <4>2
    <3>2. CASE x.Relayed /\ x.id \in ids(b) /\ PartitionMap[s][Recipient[x.id]] # s
      BY <2>1, <2>2, <2>3, <3>2
    <3> QED
      BY <2>6, <2>9, <3>1, <3>2
  <2> QED
    BY <2>7, <2>8, <2>9 DEF Counted
<1> QED
  BY <1>1, <1>2, NextOnePlace

-----------------------------------------------------------------------------
(***************************************************************************)
(* Where the transactions are that were not debited.                       *)
(***************************************************************************)

LEMMA HeldFor ==
  ASSUME Typed, NEW m \in held
  PROVE  /\ m.to \in Shards /\ request[m.to].kind # "partition" /\ m \in AccountMsgs
         /\ \E i \in collected(m.to) : m = AccountStateTx[m.to][i]
  BY DEF Typed, MessagesOK, held

LEMMA InitRouted ==
  ASSUME Init
  PROVE  Routed
PROOF
<1>1. injectNet = {} /\ accountNet = {} /\ \A s \in Shards : collected(s) = {}
  BY DEF Init, collected, EmptyMap
<1>2. held = {}
  BY <1>1 DEF held
<1>3. \A s \in Shards : own(s) = <<>>
  <2>1. \A s \in Shards : request[s].kind = "none" /\ TxQueue[s] = <<>>
    BY DEF Init, Idle
  <2> QED
    BY <2>1 DEF own
<1>4. \A s \in Shards : Range(own(s)) = {}
  BY <1>3, EmptyList
<1> QED
  BY <1>1, <1>2, <1>4 DEF Routed, InjectedHome, OwnHome, HeldInTime

\* The steps that leave the requests and the maps of the shards alone.
LEMMA RoutedFrame ==
  ASSUME Typed, Routed, UNCHANGED <<request, PartitionMap, received, AccountTransferRound>>,
         epoch' \in {epoch, epoch + 1}, late \subseteq late',
         injectNet' \subseteq injectNet \cup
           {m \in [to : Shards, tx : Txs] : ~moving(m.to) /\ PartitionMap[m.to][Sender[m.tx]] = m.to},
         \A s \in Shards : \A x \in Range(own(s)') :
           \/ x \in Range(own(s)) \/ x.Relayed \/ mapOf(s)[Sender[x.id]] = s,
         accountNet' \subseteq accountNet,
         \A m \in held' :
           \/ m \in held
           \/ /\ m \in accountNet
              /\ m.epoch = AccountTransferRound[m.to] + 1 \/ ids(m.Txs) \subseteq late'
  PROVE  Routed'
PROOF
<1>1. \A s : mapOf(s)' = mapOf(s) /\ moving(s)' = moving(s)
  BY DEF mapOf, moving
<1>2. InjectedHome'
  BY <1>1 DEF Routed, InjectedHome
<1>3. OwnHome'
  BY <1>1 DEF Routed, OwnHome
<1>4. HeldInTime'
  BY DEF Routed, HeldInTime
<1>5. \A m \in (accountNet \cup held)' : byItsMap(m)'
  <2>1. \A m : byItsMap(m) => byItsMap(m)'
    BY ReshardAssumption DEF byItsMap, Typed, CoreOK
  <2> QED
    BY <2>1 DEF Routed
<1> QED
  BY <1>2, <1>3, <1>4, <1>5 DEF Routed

LEMMA txSendingRouted ==
  ASSUME Typed, OnePlace, Routed, NEW t \in Txs, txSending(t)
  PROVE  Routed'
PROOF
<1> USE DEF txSending, chainVars, dataVars, history
<1> DEFINE s == modifiedMap[Sender[t]]
<1>1. s \in Shards
  BY ReshardAssumption DEF Typed, CoreOK
<1>2. AccountTransferRound[s] = epoch
  BY <1>1 DEF waiting, Typed, CoreOK
<1>3. PartitionMap[s][Sender[t]] = s
  BY <1>1, <1>2 DEF Typed, MapsInStep
<1>4. ~moving(s)
  BY <1>1, <1>2, ReshardAssumption DEF Typed, CoreOK, MapsInStep
<1> HIDE DEF s
<1>5. injectNet' \subseteq injectNet \cup
        {m \in [to : Shards, tx : Txs] : ~moving(m.to) /\ PartitionMap[m.to][Sender[m.tx]] = m.to}
  <2>1. injectNet' = injectNet \cup {[to |-> s, tx |-> t]}
    BY DEF s
  <2> QED
    BY <1>1, <1>3, <1>4, <2>1
<1>6. held' = held /\ \A i \in Shards : own(i)' = own(i)
  BY DEF held, collected, own
<1> QED
  BY <1>5, <1>6, RoutedFrame

LEMMA clpaMapSendRouted ==
  ASSUME Typed, Routed, clpaMapSend
  PROVE  Routed'
PROOF
<1> USE DEF clpaMapSend, chainVars, dataVars, netVars, history
<1>1. held' = held /\ \A i \in Shards : own(i)' = own(i)
  BY DEF held, collected, own
<1> QED
  BY <1>1, RoutedFrame

LEMMA handleInjectTxRouted ==
  ASSUME Typed, OnePlace, Routed, NEW m \in injectNet, handleInjectTx(m)
  PROVE  Routed'
PROOF
<1> USE DEF handleInjectTx, committeeVars, chainVars, dataVars, history
<1> DEFINE s == m.to
           one == <<Tx(m.tx, FALSE)>>
<1>1. s \in Shards /\ m.tx \in Txs
  BY DEF Typed, MessagesOK
<1>2. /\ one \in Seq(TxRec) /\ ids(one) = {m.tx} /\ distinct(one)
      /\ \A x \in Range(one) : x.id = m.tx
  <2> DEFINE y == Tx(m.tx, FALSE)
  <2>1. y \in TxRec /\ y.id = m.tx
    BY <1>1 DEF Tx, TxRec
  <2> HIDE DEF y
  <2>2. <<y>> \in Seq(TxRec) /\ Range(<<y>>) = {y} /\ ids(<<y>>) = {y.id} /\ distinct(<<y>>)
    BY <2>1, OneList
  <2>3. one = <<y>>
    BY DEF y
  <2> HIDE DEF one
  <2> QED
    BY <2>1, <2>2, <2>3
<1>3. AddTxs2Pool(s, one) /\ \A i \in Shards : block(i)' = block(i)
  BY DEF block
<1> HIDE DEF one
<1>4. distinct(own(s)) /\ m.tx \notin ids(own(s))
  BY <1>1, OwnDistinct DEF outside
<1>5. /\ \A i \in Shards \ {s} : own(i)' = own(i)
      /\ Range(own(s)') = Range(own(s)) \cup Range(one)
  BY <1>1, <1>2, <1>3, <1>4, OwnGrows
<1>6. mapOf(s)[Sender[m.tx]] = s
  BY DEF Routed, InjectedHome, mapOf
<1>7. \A i \in Shards : \A x \in Range(own(i)') :
        \/ x \in Range(own(i)) \/ x.Relayed \/ mapOf(i)[Sender[x.id]] = i
  BY <1>2, <1>5, <1>6
<1>8. held' = held
  BY DEF held, collected
<1> QED
  BY <1>7, <1>8, RoutedFrame

LEMMA handleRelayRouted ==
  ASSUME Typed, OnePlace, Routed, NEW m \in relayNet, handleRelay(m)
  PROVE  Routed'
PROOF
<1> USE DEF handleRelay, committeeVars, chainVars, dataVars, history
<1> DEFINE s == m.to
<1>1. s \in Shards /\ m.txs \in Seq(TxRec) /\ \A x \in Range(m.txs) : x.Relayed
  BY DEF Typed, MessagesOK
<1>2. held' = held
  BY DEF held, collected
<1>3. \A i \in Shards : \A x \in Range(own(i)') : x \in Range(own(i)) \/ x.Relayed
  <2>1. CASE ~proofsCorrect(m)
    BY <2>1 DEF own
  <2>2. CASE proofsCorrect(m)
    <3>1. AddTxs2Pool(s, m.txs) /\ \A i \in Shards : block(i)' = block(i)
      BY <2>2 DEF block
    <3>2. /\ \A i \in Shards \ {s} : own(i)' = own(i)
          /\ Range(own(s)') = Range(own(s)) \cup Range(m.txs)
      <4> DEFINE p == place("own", s, own(s))
                 r == place("relay", m, m.txs)
      <4>1. p \in places /\ r \in places /\ p.txs = own(s) /\ r.txs = m.txs /\ p # r
        BY <1>1, PlacesAre, PlaceParts DEF PlaceTable
      <4> HIDE DEF p, r
      <4>2. distinct(p.txs) /\ distinct(r.txs) /\ ids(p.txs) \cap ids(r.txs) = {}
        BY <4>1 DEF OnePlace, single
      <4> QED
        BY <1>1, <3>1, <4>1, <4>2, OwnGrows
    <3> QED
      BY <1>1, <3>2
  <2> QED
    BY <2>1, <2>2
<1> QED
  BY <1>2, <1>3, RoutedFrame

LEMMA handleAccountRouted ==
  ASSUME Typed, OnePlace, Routed, NEW m \in accountNet, handleAccountStateAndTxMsg(m)
  PROVE  Routed'
PROOF
<1> USE DEF handleAccountStateAndTxMsg, committeeVars, chainVars
<1>1. \A n \in held' : n \in held \/ n = m
  BY handleAccountOnePlace
<1>2. m.epoch = AccountTransferRound[m.to] + 1 \/ ids(m.Txs) \subseteq late'
  <2>1. m.to \in Shards /\ m.epoch \in Nat /\ m.epoch <= epoch
    BY DEF Typed, MessagesOK, AccountMsgs, Routed, byItsMap
  <2>2. /\ AccountTransferRound[m.to] \in Nat /\ epoch \in Nat
        /\ epoch <= AccountTransferRound[m.to] + 1
    BY <2>1 DEF Typed, CoreOK, MapsInStep
  <2>3. CASE AccountTransferRound[m.to] >= m.epoch
    BY <2>3 DEF lostBy, ids
  <2> QED
    BY <2>1, <2>2, <2>3
<1>3. \A i \in Shards : own(i)' = own(i)
  BY DEF own
<1> QED
  BY <1>1, <1>2, <1>3, RoutedFrame

LEMMA handlePartitionMsgRouted ==
  ASSUME Typed, Routed, NEW s \in Shards, handlePartitionMsg(s)
  PROVE  Routed'
PROOF
<1> USE DEF handlePartitionMsg, committeeVars, chainVars, netVars, history
<1>1. ~moving(s)
  BY DEF Typed, CoreOK, MapsInStep
<1>2. \A i \in Shards : moving(i)' = moving(i) /\ mapOf(i)' = mapOf(i)
  BY <1>1 DEF moving, mapOf, Typed, CoreOK
<1>3. held' = held /\ \A i \in Shards : own(i)' = own(i)
  BY DEF held, collected, own
<1>4. InjectedHome'
  BY <1>2 DEF Routed, InjectedHome, Typed, MessagesOK
<1>5. OwnHome'
  BY <1>2, <1>3 DEF Routed, OwnHome
<1> QED
  BY <1>3, <1>4, <1>5 DEF Routed, HeldInTime, byItsMap

LEMMA GenerateBlockRouted ==
  ASSUME Typed, OnePlace, Routed, NEW s \in Shards, GenerateBlock(s)
  PROVE  Routed'
PROOF
<1> USE DEF GenerateBlock, committeeVars, chainVars, dataVars, netVars, history
<1>1. (\A i \in Shards : own(i)' = own(i)) /\ held' = held
  BY GenerateBlockOnePlace
<1>2. request[s].kind = "none" /\ request'[s].kind = "block" /\ DOMAIN request = Shards
  BY DEF Idle, Typed, MessagesOK
<1>3. \A i \in Shards : moving(i)' = moving(i) /\ mapOf(i)' = mapOf(i)
  BY <1>2 DEF moving, mapOf
<1>4. InjectedHome'
  BY <1>3 DEF Routed, InjectedHome, Typed, MessagesOK
<1>5. OwnHome'
  BY <1>1, <1>3 DEF Routed, OwnHome
<1> QED
  BY <1>1, <1>4, <1>5 DEF Routed, HeldInTime, byItsMap

LEMMA HandleinCommitRouted ==
  ASSUME Typed, OnePlace, Routed, NEW s \in Shards, HandleinCommit(s)
  PROVE  Routed'
PROOF
<1> USE DEF committeeVars, dataVars
<1>1. /\ request[s].kind = "block" /\ request' = [request EXCEPT ![s] = Idle]
      /\ UNCHANGED <<committeeVars, PartitionMap, dataVars, injectNet, accountNet, late>>
  BY DEF HandleinCommit
<1>2. /\ own(s)' = TxQueue[s] /\ (\A i \in Shards \ {s} : own(i)' = own(i)) /\ held' = held
  BY HandleinCommitMoves
<1>3. Range(own(s)') \subseteq Range(own(s))
  BY <1>2, OwnIs DEF OwnLists
<1>4. request'[s].kind = "none" /\ DOMAIN request = Shards
  BY <1>1 DEF Idle, Typed, MessagesOK
<1>5. \A i \in Shards : moving(i)' = moving(i) /\ mapOf(i)' = mapOf(i)
  BY <1>1, <1>4 DEF moving, mapOf
<1>6. InjectedHome'
  BY <1>1, <1>5 DEF Routed, InjectedHome, Typed, MessagesOK
<1>7. OwnHome'
  BY <1>1, <1>2, <1>3, <1>5 DEF Routed, OwnHome
<1> QED
  BY <1>1, <1>2, <1>6, <1>7 DEF Routed, HeldInTime, byItsMap

LEMMA sendAccountsRouted ==
  ASSUME Typed, Routed, NEW s \in Shards, sendAccounts_and_Txs(s)
  PROVE  Routed'
PROOF
<1> USE DEF committeeVars, chainVars, dataVars, history
<1> DEFINE N == {accountMsg(s, i) : i \in Shards \ {s}}
           M == Maps[received[s]]
<1>1. /\ request[s] = Idle /\ PartitionOn(s) /\ injectedInTime(s)
      /\ request' = [request EXCEPT ![s] = [kind |-> "sent"]]
      /\ UNCHANGED <<committeeVars, chainVars, dataVars, injectNet, relayNet, history>>
  BY DEF sendAccounts_and_Txs
<1>2. DOMAIN request = Shards /\ request[s].kind = "none" /\ request'[s].kind = "sent"
  BY <1>1 DEF Idle, Typed, MessagesOK
<1>3. /\ received[s] \in 1 .. Len(Maps) /\ epoch = received[s]
  BY <1>1, MapAtHand
<1>4. /\ own(s) = TxQueue[s] /\ own(s)' = TxQueue'[s]
      /\ \A x : x \in Range(TxQueue'[s]) <=>
                  x \in Range(TxQueue[s]) /\ travelsWith(x) \notin accountToFetch(s)
      /\ \A i \in Shards \ {s} : own(i)' = own(i)
      /\ held' = held /\ accountNet' = accountNet \cup N
  BY sendAccountsMoves
<1>5. \A i \in Shards \ {s} : moving(i)' = moving(i) /\ mapOf(i)' = mapOf(i)
  BY <1>1, <1>2 DEF moving, mapOf
<1>6. mapOf(s) = PartitionMap[s] /\ mapOf(s)' = putAll(PartitionMap[s], M)
  BY <1>1, <1>2 DEF moving, mapOf
<1>7. InjectedHome'
  BY <1>1, <1>5 DEF Routed, InjectedHome, Typed, MessagesOK, injectedInTime
<1>8. ASSUME NEW x \in Range(own(s)'), ~x.Relayed, x.id \notin late
      PROVE  mapOf(s)'[Sender[x.id]] = s
  <2> DEFINE a == Sender[x.id]
  <2>1. x \in Range(own(s)) /\ travelsWith(x) \notin accountToFetch(s) /\ travelsWith(x) = a
    BY <1>4, <1>8 DEF travelsWith
  <2>2. PartitionMap[s][a] = s
    BY <1>6, <1>8, <2>1 DEF Routed, OwnHome
  <2>3. a \in Accounts /\ DOMAIN PartitionMap[s] = Accounts
    <3>1. own(s) \in Seq(TxRec)
      BY OwnIs DEF OwnLists
    <3>2. x \in TxRec
      BY <2>1, <3>1, RangeOfList
    <3> QED
      BY <3>2, ReshardAssumption DEF Typed, CoreOK, TxRec
  <2>4. a \in DOMAIN M => M[a] = s
    BY <2>1, <2>2 DEF accountToFetch
  <2> HIDE DEF M, a
  <2> QED
    BY <1>6, <2>2, <2>3, <2>4 DEF putAll, a
<1>9. OwnHome'
  BY <1>1, <1>4, <1>5, <1>8 DEF Routed, OwnHome
<1>10. ASSUME NEW m \in N PROVE byItsMap(m)'
  <2>1. PICK i \in Shards : m = accountMsg(s, i)
    OBVIOUS
  <2> DEFINE n == accountMsg(s, i)
  <2>2. /\ n.to = i /\ n.epoch = received[s]
        /\ \A x : x \in Range(n.Txs) <=>
             /\ x \in Range(TxQueue[s]) /\ travelsWith(x) \in accountToFetch(s)
             /\ M[travelsWith(x)] = i
    BY AccountMsgList
  <2> HIDE DEF n
  <2>3. \A x \in Range(n.Txs) : travelsWith(x) \in DOMAIN M /\ M[travelsWith(x)] = i
    BY <2>2 DEF accountToFetch
  <2>4. m = n /\ epoch' = epoch
    BY <1>1, <2>1 DEF n
  <2>5. n.epoch \in 1 .. Len(Maps) /\ n.epoch <= epoch
    BY <1>3, <2>2
  <2> QED
    BY <2>2, <2>3, <2>4, <2>5 DEF byItsMap
<1>11. \A m \in (accountNet \cup held)' : byItsMap(m)'
  <2>1. \A m : byItsMap(m) => byItsMap(m)'
    BY <1>1 DEF byItsMap
  <2> HIDE DEF N
  <2> QED
    BY <1>4, <1>10, <2>1 DEF Routed
<1>12. HeldInTime'
  BY <1>1, <1>4 DEF Routed, HeldInTime
<1> QED
  BY <1>7, <1>9, <1>11, <1>12 DEF Routed

LEMMA proposePartitionRouted ==
  ASSUME Typed, OnePlace, Routed, NEW s \in Shards, proposePartition(s)
  PROVE  Routed'
PROOF
<1> USE DEF committeeVars, chainVars, dataVars, netVars, history
<1> DEFINE msg(i) == AccountStateTx[s][i]
<1>1. /\ request[s].kind = "sent"
      /\ \E rec : rec.kind = "partition" /\ request' = [request EXCEPT ![s] = rec]
      /\ UNCHANGED <<committeeVars, chainVars, dataVars, netVars, history>>
  <2>1. \A st : [kind |-> "partition", map |-> Maps[AccountTransferRound[s] + 1],
                 ATid |-> received[s], AccountState |-> st].kind = "partition"
    OBVIOUS
  <2> QED
    BY <2>1 DEF proposePartition
<1>2. DOMAIN request = Shards /\ request'[s].kind = "partition"
  BY <1>1 DEF Typed, MessagesOK
<1>3. \A i \in Shards : moving(i)' = moving(i) /\ mapOf(i)' = mapOf(i)
  BY <1>1, <1>2 DEF moving, mapOf
<1>4. /\ \A i \in collected(s) : msg(i) \in held /\ msg(i).to = s
      /\ \A x \in Range(validTxs(s)) : \E i \in collected(s) : x \in Range(msg(i).Txs)
      /\ Range(own(s)') = Range(own(s)) \cup Range(validTxs(s))
      /\ \A i \in Shards \ {s} : own(i)' = own(i)
      /\ held' \subseteq held /\ accountNet' = accountNet
  BY proposePartitionMoves
<1>5. moving(s) /\ received[s] = AccountTransferRound[s] + 1
  BY <1>1, MapAtHand DEF moving
<1>6. ASSUME NEW x \in Range(validTxs(s)), ~x.Relayed, x.id \notin late
      PROVE  mapOf(s)[Sender[x.id]] = s
  <2>1. PICK i \in collected(s) : x \in Range(msg(i).Txs)
    BY <1>4
  <2>2. msg(i).epoch = received[s] /\ msg(i).to = s
    BY <1>4, <1>5, <1>6, <2>1 DEF Routed, HeldInTime, ids
  <2>3. travelsWith(x) = Sender[x.id]
    BY <1>6 DEF travelsWith
  <2>4. /\ Sender[x.id] \in DOMAIN Maps[received[s]]
        /\ Maps[received[s]][Sender[x.id]] = s
    BY <1>4, <2>1, <2>2, <2>3 DEF Routed, byItsMap
  <2>5. mapOf(s) = putAll(PartitionMap[s], Maps[received[s]])
    BY <1>5 DEF mapOf
  <2> QED
    BY <2>4, <2>5 DEF putAll
<1>7. OwnHome'
  <2>1. ASSUME NEW i \in Shards, NEW x \in Range(own(i)'), ~x.Relayed, x.id \notin late
        PROVE  mapOf(i)[Sender[x.id]] = i
    <3>1. CASE x \in Range(own(i))
      BY <2>1, <3>1 DEF Routed, OwnHome
    <3>2. CASE i = s /\ x \in Range(validTxs(s))
      BY <1>6, <2>1, <3>2
    <3> QED
      BY <1>4, <2>1, <3>1, <3>2
  <2> QED
    BY <1>1, <1>3, <2>1 DEF OwnHome
<1>8. InjectedHome'
  BY <1>1, <1>3 DEF Routed, InjectedHome, Typed, MessagesOK
<1> QED
  BY <1>1, <1>4, <1>7, <1>8 DEF Routed, HeldInTime, byItsMap

LEMMA accountTransferRouted ==
  ASSUME Typed, OnePlace, Routed, NEW s \in Shards, accountTransfer_do(s)
  PROVE  Routed'
PROOF
<1> USE DEF committeeVars, netVars
<1>1. /\ request[s].kind = "partition" /\ request' = [request EXCEPT ![s] = Idle]
      /\ PartitionMap' = [PartitionMap EXCEPT ![s] = putAll(PartitionMap[s], request[s].map)]
      /\ AccountTransferRound' = [AccountTransferRound EXCEPT ![s] = request[s].ATid]
      /\ UNCHANGED <<committeeVars, received, netVars, late>>
  BY DEF accountTransfer_do
<1>2. moving(s)
  BY <1>1 DEF moving
<1>3. request[s].map = Maps[received[s]]
  BY <1>1 DEF Typed, MapsInStep
<1>4. /\ DOMAIN request = Shards /\ DOMAIN PartitionMap = Shards
      /\ DOMAIN AccountTransferRound = Shards /\ request'[s].kind = "none"
  BY <1>1 DEF Typed, MessagesOK, CoreOK, Idle
<1>5. \A i \in Shards \ {s} : /\ request'[i] = request[i] /\ PartitionMap'[i] = PartitionMap[i]
                              /\ AccountTransferRound'[i] = AccountTransferRound[i]
  BY <1>1, <1>4
<1>6. \A i \in Shards \ {s} : moving(i)' = moving(i) /\ mapOf(i)' = mapOf(i)
  BY <1>1, <1>5 DEF moving, mapOf
<1>7. mapOf(s)' = mapOf(s)
  BY <1>1, <1>2, <1>3, <1>4 DEF moving, mapOf
<1>8. (\A i \in Shards : own(i)' = own(i)) /\ held' = held
  BY accountTransferOnePlace
<1>9. InjectedHome'
  BY <1>1, <1>2, <1>5, <1>6 DEF Routed, InjectedHome, Typed, MessagesOK
<1>10. OwnHome'
  BY <1>1, <1>6, <1>7, <1>8 DEF Routed, OwnHome
<1>11. HeldInTime'
  <2>1. \A m \in held : m.to \in Shards \ {s}
    BY <1>1, HeldFor
  <2> QED
    BY <1>1, <1>5, <1>8, <2>1 DEF Routed, HeldInTime
<1>12. \A m \in (accountNet \cup held)' : byItsMap(m)'
  BY <1>1, <1>8 DEF Routed, byItsMap
<1> QED
  BY <1>9, <1>10, <1>11, <1>12 DEF Routed

LEMMA RoutedStep ==
  ASSUME Typed, OnePlace, Routed, [Next]_vars
  PROVE  Routed'
PROOF
<1>1. CASE UNCHANGED vars
  <2>1. UNCHANGED <<epoch, received, AccountTransferRound, PartitionMap, TxQueue, AccountStateTx,
                    request, injectNet, accountNet, late>>
    BY <1>1 DEF vars, committeeVars, chainVars, dataVars, netVars, history
  <2>2. held' = held /\ \A i \in Shards : own(i)' = own(i)
    BY <2>1 DEF held, collected, own
  <2> QED
    BY <2>1, <2>2, RoutedFrame
<1> QED
  BY <1>1, txSendingRouted, clpaMapSendRouted, handleInjectTxRouted, handleRelayRouted,
     handleAccountRouted, handlePartitionMsgRouted, GenerateBlockRouted, HandleinCommitRouted,
     sendAccountsRouted, proposePartitionRouted, accountTransferRouted
     DEF Next, Deliver, ShardStep

-----------------------------------------------------------------------------
(***************************************************************************)
(* Every account has enough of InitBalance left, so that no transaction is *)
(* passed over, and each is debited before it is credited.                 *)
(***************************************************************************)

LEMMA InitFunded ==
  ASSUME NEW v \in Nat, Init
  PROVE  Funded(v)
PROOF
<1>1. \A s \in Shards : DOMAIN trie[s] = {} /\ collected(s) = {} /\ request[s].kind = "none"
  BY DEF Init, EmptyMap, collected, Idle
<1>2. accountNet = {}
  BY DEF Init
<1> QED
  BY <1>1, <1>2 DEF Funded, fundsLeft

\* A step in which no block is committed: no state has appeared that does not
\* come from the funds of before.
LEMMA FundedFrame ==
  ASSUME NEW v \in Nat, Funded(v), UNCHANGED debits,
         \A s \in Shards : fundsLeft(debits, v, trie'[s]),
         \A m \in accountNet' : m \in accountNet \/ fundsLeft(debits, v, m.AccountState),
         \A s \in Shards : \A i \in DOMAIN AccountStateTx'[s] :
           \/ i \in collected(s) /\ AccountStateTx'[s][i] = AccountStateTx[s][i]
           \/ AccountStateTx'[s][i] \in accountNet,
         \A s \in Shards : request'[s].kind = "partition" =>
           request'[s] = request[s] \/ fundsLeft(debits, v, request'[s].AccountState)
  PROVE  Funded(v)'
PROOF
<1>1. \A m \in accountNet' : fundsLeft(debits, v, m.AccountState)
  BY DEF Funded
<1>2. ASSUME NEW s \in Shards, NEW i \in DOMAIN AccountStateTx'[s]
      PROVE  fundsLeft(debits, v, AccountStateTx'[s][i].AccountState)
  BY <1>2 DEF Funded
<1>3. ASSUME NEW s \in Shards, request'[s].kind = "partition"
      PROVE  fundsLeft(debits, v, request'[s].AccountState)
  BY <1>3 DEF Funded
<1> QED
  BY <1>1, <1>2, <1>3 DEF Funded, fundsLeft, spent, collected

LEMMA handleAccountFunded ==
  ASSUME NEW v \in Nat, Funded(v), Typed, NEW m \in accountNet, handleAccountStateAndTxMsg(m)
  PROVE  Funded(v)'
PROOF
<1> USE DEF handleAccountStateAndTxMsg, committeeVars, chainVars
<1>1. ASSUME NEW s \in Shards, NEW i \in DOMAIN AccountStateTx'[s]
      PROVE  \/ i \in collected(s) /\ AccountStateTx'[s][i] = AccountStateTx[s][i]
             \/ AccountStateTx'[s][i] \in accountNet
  <2>1. DOMAIN AccountStateTx = Shards
    BY DEF Typed, MessagesOK
  <2>2. CASE s # m.to
    BY <1>1, <2>1, <2>2 DEF collected
  <2>3. CASE s = m.to
    <3>1. AccountStateTx'[s] = put(AccountStateTx[s], m.from, m)
      BY <2>1, <2>3
    <3> QED
      BY <1>1, <3>1 DEF collected, put
  <2> QED
    BY <2>2, <2>3
<1>2. UNCHANGED <<debits, trie, request>> /\ accountNet' \subseteq accountNet
  OBVIOUS
<1>3. \A s \in Shards : fundsLeft(debits, v, trie'[s])
  BY <1>2 DEF Funded
<1> QED
  BY <1>1, <1>2, <1>3, FundedFrame

LEMMA GenerateBlockFunded ==
  ASSUME NEW v \in Nat, Funded(v), Typed, NEW s \in Shards, GenerateBlock(s)
  PROVE  Funded(v)'
PROOF
<1> USE DEF GenerateBlock, committeeVars, chainVars, dataVars, netVars, history
<1>1. DOMAIN request = Shards
  BY DEF Typed, MessagesOK
<1>2. \A i \in Shards : request'[i].kind = "partition" => request'[i] = request[i]
  BY <1>1
<1>3. UNCHANGED <<debits, trie, accountNet, AccountStateTx>>
  OBVIOUS
<1> QED
  BY <1>2, <1>3, FundedFrame DEF Funded, collected

LEMMA sendAccountsFunded ==
  ASSUME NEW v \in Nat, EnoughMoney(v), Funded(v), Typed, NEW s \in Shards,
         sendAccounts_and_Txs(s)
  PROVE  Funded(v)'
PROOF
<1> USE DEF sendAccounts_and_Txs, committeeVars, chainVars, dataVars, history
<1>1. DOMAIN request = Shards
  BY DEF Typed, MessagesOK
<1>2. \A i \in Shards : request'[i].kind = "partition" => request'[i] = request[i]
  BY <1>1
<1>3. UNCHANGED <<debits, trie, AccountStateTx>>
      /\ accountNet' = accountNet \cup {accountMsg(s, i) : i \in Shards \ {s}}
  OBVIOUS
<1>4. ASSUME NEW i \in Shards PROVE fundsLeft(debits, v, accountMsg(s, i).AccountState)
  <2> DEFINE addrs == {a \in accountToFetch(s) : Maps[received[s]][a] = i}
             st == [a \in addrs |-> BalanceOf(trie[s], a)]
  <2>1. accountMsg(s, i).AccountState = st
    BY DEF accountMsg
  <2> HIDE DEF addrs
  <2>2. ASSUME NEW a \in addrs PROVE st[a] + v * Cardinality(spent(debits, a)) >= InitBalance
    <3>1. CASE a \in DOMAIN trie[s]
      BY <3>1 DEF Funded, fundsLeft, BalanceOf
    <3>2. CASE a \notin DOMAIN trie[s]
      <4>1. Cardinality(spent(debits, a)) \in Nat
        BY SpentMore DEF EnoughMoney
      <4>2. v * Cardinality(spent(debits, a)) \in Nat
        BY <4>1, TimesNext
      <4>3. st[a] = InitBalance /\ InitBalance \in Nat
        BY <3>2, ReshardAssumption DEF BalanceOf
      <4> HIDE DEF st
      <4> QED
        BY <4>2, <4>3
    <3> QED
      BY <3>1, <3>2
  <2>3. DOMAIN st = addrs
    OBVIOUS
  <2> HIDE DEF st
  <2> QED
    BY <2>1, <2>2, <2>3 DEF fundsLeft
<1>5. \A i \in Shards : fundsLeft(debits, v, trie'[i])
  BY <1>3 DEF Funded
<1> QED
  BY <1>2, <1>3, <1>4, <1>5, FundedFrame DEF collected

LEMMA proposePartitionFunded ==
  ASSUME NEW v \in Nat, Funded(v), Typed, NEW s \in Shards, proposePartition(s)
  PROVE  Funded(v)'
PROOF
<1> USE DEF proposePartition, committeeVars, chainVars, dataVars, netVars, history
<1>1. DOMAIN request = Shards
  BY DEF Typed, MessagesOK
<1>2. PICK states \in newAccountStates(s) :
        request' = [request EXCEPT ![s] =
                      [kind |-> "partition", map |-> Maps[AccountTransferRound[s] + 1],
                       ATid |-> received[s], AccountState |-> states]]
  OBVIOUS
<1>3. fundsLeft(debits, v, states)
  BY NewStatesTyped DEF Funded, fundsLeft
<1>4. /\ request'[s].AccountState = states
      /\ \A i \in Shards \ {s} : request'[i] = request[i]
  BY <1>1, <1>2
<1>5. UNCHANGED <<debits, trie, accountNet, AccountStateTx>>
  OBVIOUS
<1> QED
  BY <1>3, <1>4, <1>5, FundedFrame DEF Funded, collected

LEMMA accountTransferFunded ==
  ASSUME NEW v \in Nat, Funded(v), Typed, NEW s \in Shards, accountTransfer_do(s)
  PROVE  Funded(v)'
PROOF
<1> USE DEF committeeVars, netVars
<1> DEFINE r == request[s]
           map == putAll(PartitionMap[s], r.map)
           new == AddAccounts(s, map, r.AccountState)
<1>1. /\ r.kind = "partition" /\ trie' = [trie EXCEPT ![s] = new]
      /\ AccountStateTx' = [AccountStateTx EXCEPT ![s] = EmptyMap]
      /\ request' = [request EXCEPT ![s] = Idle]
      /\ UNCHANGED <<netVars, debits>>
  BY DEF accountTransfer_do
<1>2. /\ DOMAIN request = Shards /\ DOMAIN trie = Shards /\ DOMAIN AccountStateTx = Shards
      /\ trie[s] \in AccountStates /\ r \in Requests
  BY DEF Typed, MessagesOK
<1>3. r.AccountState \in AccountStates
  BY <1>1, <1>2, RequestFields
<1>4. \A a \in DOMAIN new : \/ a \in DOMAIN r.AccountState /\ new[a] = r.AccountState[a]
                            \/ a \in DOMAIN trie[s] /\ new[a] = trie[s][a]
  <2> HIDE DEF map
  <2> QED
    BY <1>2, <1>3, AddAccountsTyped
<1>5. fundsLeft(debits, v, r.AccountState) /\ fundsLeft(debits, v, trie[s])
  BY <1>1 DEF Funded
<1> HIDE DEF new, map
<1>6. fundsLeft(debits, v, new)
  BY <1>4, <1>5 DEF fundsLeft
<1>7. \A i \in Shards : fundsLeft(debits, v, trie'[i])
  BY <1>1, <1>2, <1>6 DEF Funded
<1>8. \A i \in Shards : request'[i].kind = "partition" => request'[i] = request[i]
  BY <1>1, <1>2 DEF Idle
<1>9. \A i \in Shards : \A j \in DOMAIN AccountStateTx'[i] :
        j \in collected(i) /\ AccountStateTx'[i][j] = AccountStateTx[i][j]
  BY <1>1, <1>2 DEF collected, EmptyMap
<1> QED
  BY <1>1, <1>7, <1>8, <1>9, FundedFrame

\* A block leaves every account with its funds, and each of its transactions
\* that did not come late is debited.
LEMMA HandleinCommitFunded ==
  ASSUME NEW v \in Nat, EnoughMoney(v), Typed, OnePlace, Counted, Routed, DebitedFirst, Funded(v),
         NEW s \in Shards, HandleinCommit(s)
  PROVE  /\ Funded(v)'
         /\ \A x \in Range(block(s)) : x.id \notin late => debits'[x.id] = 1
PROOF
<1> DEFINE b == block(s)
           st == GetUpdateStatusTrie(s, b)
<1>1. b \in Seq(TxRec) /\ Range(b) \subseteq Range(own(s)) /\ distinct(b)
  BY OwnIs, OwnDistinct DEF OwnLists
<1>2. b = request[s].txs
  BY HandleinCommitMoves
<1>3. /\ trie' = [trie EXCEPT ![s] = st.trie] /\ debits' = st.debits
      /\ request[s].kind = "block" /\ request' = [request EXCEPT ![s] = Idle]
      /\ UNCHANGED <<dataVars, accountNet>>
  BY <1>2 DEF HandleinCommit
<1>4. /\ PartitionMap[s] \in [Accounts -> Shards] /\ trie[s] \in AccountStates
      /\ debits \in [Txs -> Nat] /\ credits \in [Txs -> Nat]
      /\ DOMAIN request = Shards /\ DOMAIN trie = Shards
      /\ \A i \in Shards : trie[i] \in AccountStates
  BY DEF Typed, CoreOK, MessagesOK
<1>5. \A x \in Range(b) : ~x.Relayed => debits[x.id] = 0
  BY <1>1, OwnPlace DEF Counted
<1>6. fundsLeft(debits, v, trie[s])
  BY DEF Funded
<1> HIDE DEF b
<1>7. /\ fundsLeft(st.debits, v, st.trie)
      /\ \A x \in Range(b) : ~x.Relayed /\ PartitionMap[s][Sender[x.id]] = s => st.debits[x.id] = 1
  BY <1>1, <1>4, <1>5, <1>6, BlockFunded
<1> HIDE DEF st
<1>8. \A t \in Txs : debits[t] # 0 => debits'[t] # 0
  <2>1. /\ \A t \in Txs \ ids(b) : debits'[t] = debits[t]
        /\ \A x \in Range(b) : debits'[x.id] \in {debits[x.id], debits[x.id] + 1}
    BY CommitCounts DEF b
  <2>2. \A t \in ids(b) : \E x \in Range(b) : x.id = t
    BY DEF ids
  <2> QED
    BY <1>4, <2>1, <2>2
<1>9. \A e \in AccountStates : fundsLeft(debits, v, e) => fundsLeft(debits', v, e)
  BY <1>8, FundsKept DEF EnoughMoney
<1>10. Funded(v)'
  <2>1. \A i \in Shards : fundsLeft(debits', v, trie'[i])
    BY <1>3, <1>4, <1>7, <1>9 DEF Funded
  <2>2. \A m \in accountNet : fundsLeft(debits', v, m.AccountState)
    BY <1>9 DEF Funded, Typed, MessagesOK, AccountMsgs
  <2>3. ASSUME NEW i \in Shards, NEW j \in collected(i)
        PROVE  fundsLeft(debits', v, AccountStateTx[i][j].AccountState)
    BY <1>9 DEF Funded, Typed, MessagesOK, AccountMsgs
  <2>4. ASSUME NEW i \in Shards, request'[i].kind = "partition"
        PROVE  fundsLeft(debits', v, request'[i].AccountState)
    <3>1. request'[i] = request[i]
      BY <1>3, <1>4, <2>4 DEF Idle
    <3>2. request[i].AccountState \in AccountStates
      BY <2>4, <3>1, RequestFields DEF Typed, MessagesOK
    <3> QED
      BY <1>9, <2>4, <3>1, <3>2 DEF Funded
  <2>5. AccountStateTx' = AccountStateTx /\ accountNet' = accountNet
    BY <1>3 DEF dataVars
  <2> QED
    BY <2>1, <2>2, <2>3, <2>4, <2>5 DEF Funded, collected
<1>11. ASSUME NEW x \in Range(b), x.id \notin late PROVE debits'[x.id] = 1
  <2>1. x \in Range(own(s))
    BY <1>1
  <2>2. CASE x.Relayed
    <3>1. debits[x.id] = 1
      BY <1>11, <2>1, <2>2, OwnPlace DEF DebitedFirst
    <3> QED
      BY <2>2, <3>1, CommitCounts DEF b
  <2>3. CASE ~x.Relayed
    <3>1. mapOf(s) = PartitionMap[s]
      BY <1>3 DEF mapOf, moving
    <3>2. PartitionMap[s][Sender[x.id]] = s
      BY <1>11, <2>1, <2>3, <3>1 DEF Routed, OwnHome
    <3> QED
      BY <1>3, <1>7, <2>3, <3>2
  <2> QED
    BY <2>2, <2>3
<1> QED
  BY <1>10, <1>11 DEF b

LEMMA DebitedFirstStep ==
  ASSUME NEW v \in Nat, EnoughMoney(v), Typed, OnePlace, Counted, Routed, DebitedFirst, Funded(v),
         [Next]_vars
  PROVE  DebitedFirst'
PROOF
<1>1. CASE Carried /\ UNCHANGED <<debits, credits>> /\ late \subseteq late'
  BY <1>1 DEF Carried, DebitedFirst
<1>2. ASSUME NEW s \in Shards, HandleinCommit(s) PROVE DebitedFirst'
  <2> DEFINE b == block(s)
  <2>1. late' = late
    BY <1>2 DEF HandleinCommit
  <2>2. \A t \in ids(b) : t \notin late => debits'[t] = 1
    BY <1>2, HandleinCommitFunded DEF ids
  <2>3. \A t \in Txs \ ids(b) : debits'[t] = debits[t] /\ credits'[t] = credits[t]
    BY <1>2, CommitCounts
  <2>4. \A t \in Txs : credits'[t] <= 1
    BY CountedStep DEF Counted
  <2>5. \A p \in places' : \A x \in Range(p.txs) :
           \/ x.id \notin ids(b) /\ \E q \in places : x \in Range(q.txs)
           \/ x.id \in ids(b)
    BY <1>2, CommitPlaces
  <2> HIDE DEF b
  <2>6. ASSUME NEW t \in Txs \ late PROVE credits'[t] <= debits'[t]
    <3>1. CASE t \in ids(b)
      BY <2>2, <2>4, <3>1
    <3>2. CASE t \notin ids(b)
      BY <2>3, <3>2 DEF DebitedFirst
    <3> QED
      BY <3>1, <3>2
  <2>7. ASSUME NEW p \in places', NEW x \in Range(p.txs), x.Relayed, x.id \notin late
        PROVE  debits'[x.id] = 1
    <3>1. CASE x.id \in ids(b)
      BY <2>2, <2>7, <3>1
    <3>2. CASE x.id \notin ids(b)
      <4>1. PICK q \in places : x \in Range(q.txs)
        BY <2>5, <2>7, <3>2
      <4>2. x.id \in Txs /\ debits[x.id] = 1
        BY <2>7, <4>1, PlacedTyped DEF DebitedFirst
      <4> QED
        BY <2>3, <3>2, <4>2
    <3> QED
      BY <3>1, <3>2
  <2> QED
    BY <2>1, <2>6, <2>7 DEF DebitedFirst
<1> QED
  BY <1>1, <1>2, NextOnePlace

LEMMA FundedStep ==
  ASSUME NEW v \in Nat, EnoughMoney(v), Typed, OnePlace, Counted, Routed, DebitedFirst, Funded(v),
         [Next]_vars
  PROVE  Funded(v)'
PROOF
<1>1. ASSUME UNCHANGED <<debits, trie, accountNet, AccountStateTx, request>>
      PROVE  Funded(v)'
  BY <1>1 DEF Funded, collected
<1>2. ASSUME NEW t \in Txs, txSending(t) PROVE Funded(v)'
  BY <1>1, <1>2 DEF txSending, committeeVars, chainVars, dataVars, netVars, history
<1>3. ASSUME clpaMapSend PROVE Funded(v)'
  BY <1>1, <1>3 DEF clpaMapSend, committeeVars, chainVars, dataVars, netVars, history
<1>4. ASSUME NEW m \in injectNet, handleInjectTx(m) PROVE Funded(v)'
  BY <1>1, <1>4 DEF handleInjectTx, committeeVars, chainVars, dataVars, netVars, history
<1>5. ASSUME NEW m \in relayNet, handleRelay(m) PROVE Funded(v)'
  BY <1>1, <1>5 DEF handleRelay, committeeVars, chainVars, dataVars, netVars, history
<1>6. ASSUME NEW s \in Shards, handlePartitionMsg(s) PROVE Funded(v)'
  BY <1>1, <1>6 DEF handlePartitionMsg, committeeVars, chainVars, dataVars, netVars, history
<1>7. ASSUME UNCHANGED vars PROVE Funded(v)'
  BY <1>1, <1>7 DEF vars, chainVars, dataVars, netVars, history
<1>8. ASSUME NEW m \in accountNet, handleAccountStateAndTxMsg(m) PROVE Funded(v)'
  BY <1>8, handleAccountFunded
<1>9. ASSUME NEW s \in Shards, ShardStep(s) PROVE Funded(v)'
  <2>1. CASE GenerateBlock(s)
    BY <2>1, GenerateBlockFunded
  <2>2. CASE HandleinCommit(s)
    BY <2>2, HandleinCommitFunded
  <2>3. CASE sendAccounts_and_Txs(s)
    BY <2>3, sendAccountsFunded
  <2>4. CASE proposePartition(s)
    BY <2>4, proposePartitionFunded
  <2>5. CASE accountTransfer_do(s)
    BY <2>5, accountTransferFunded
  <2> QED
    BY <1>9, <2>1, <2>2, <2>3, <2>4, <2>5 DEF ShardStep
<1> QED
  BY <1>2, <1>3, <1>4, <1>5, <1>6, <1>7, <1>8, <1>9 DEF Next, Deliver

LEMMA InitCounted ==
  ASSUME Init
  PROVE  Counted /\ DebitedFirst
PROOF
<1>1. debits = [t \in Txs |-> 0] /\ credits = [t \in Txs |-> 0] /\ outside \subseteq Txs
  BY DEF Init, outside
<1>2. Typed
  BY InitTyped
<1>3. \A p \in places : \A x \in Range(p.txs) : FALSE
  <2>1. \A s \in Shards : request[s].kind = "none" /\ TxQueue[s] = <<>> /\ collected(s) = {}
    BY DEF Init, Idle, collected, EmptyMap
  <2>2. \A s \in Shards : own(s) = <<>>
    BY <2>1 DEF own
  <2>3. held = {} /\ relayNet = {} /\ accountNet = {}
    BY <2>1 DEF held, Init
  <2>4. \A p \in places : p.txs = <<>>
    BY <2>2, <2>3, PlacesAre, PlaceParts DEF PlaceTable
  <2> QED
    BY <2>4, EmptyList
<1> QED
  BY <1>1, <1>3 DEF Counted, DebitedFirst

\* No transaction takes money twice or gives it twice, and one that is still in
\* a pool, a block or a message has given none: however blocks, relays and the
\* moves of accounts interleave, and also where accounts are overdrawn.
THEOREM MovedOnce == Spec => []Counted
PROOF
<1>1. Init => Typed /\ OnePlace /\ Counted
  BY InitTyped, InitOnePlace, InitCounted
<1>2. Typed /\ OnePlace /\ Counted /\ [Next]_vars => (Typed /\ OnePlace /\ Counted)'
  BY NextOnePlace, CountedStep
<1> QED
  BY <1>1, <1>2, PTL DEF Spec

\* When InitBalance is enough for all transactions, each takes the money from
\* its sender before it gives it to its recipient, and both at most once, unless
\* it was moved with an account and came late (PaidOnce).
THEOREM PaidInOrder ==
  ASSUME NEW v \in Nat, EnoughMoney(v)
  PROVE  Spec => []PaidOnce
PROOF
<1> DEFINE Inv == Typed /\ OnePlace /\ Counted /\ Routed /\ DebitedFirst /\ Funded(v)
<1>1. Init => Inv
  BY InitTyped, InitOnePlace, InitCounted, InitRouted, InitFunded
<1>2. Inv /\ [Next]_vars => Inv'
  BY NextOnePlace, CountedStep, RoutedStep, DebitedFirstStep, FundedStep
<1>3. Inv => PaidOnce
  BY DEF Counted, DebitedFirst, PaidOnce
<1> QED
  BY <1>1, <1>2, <1>3, PTL DEF Spec

-----------------------------------------------------------------------------
(***************************************************************************)
(* Balances: what a block does to an account of its shard, and to what the *)
(* account should have, is the same.                                       *)
(***************************************************************************)

\* One transaction more in a count.
LEMMA TotalNext ==
  ASSUME NEW S \in SUBSET Txs, NEW d \in [Txs -> Nat], NEW t \in Txs,
         NEW e, e = [d EXCEPT ![t] = @ + 1]
  PROVE  /\ SumFunctionOnSet(valueOf(d), S) \in Int
         /\ SumFunctionOnSet(valueOf(e), S)
              = IF t \in S THEN SumFunctionOnSet(valueOf(d), S) + Value[t]
                ELSE SumFunctionOnSet(valueOf(d), S)
PROOF
<1> DEFINE f == valueOf(d)
           g == valueOf(e)
<1>0. e \in [Txs -> Nat] /\ e[t] = d[t] + 1 /\ \A u \in Txs \ {t} : e[u] = d[u]
  OBVIOUS
<1>1. IsFiniteSet(S) /\ Value \in [Txs -> Nat]
  BY FS_Subset, ReshardAssumption
<1>2. /\ \A u \in Txs : f[u] = d[u] * Value[u] /\ g[u] = e[u] * Value[u]
      /\ \A u \in Txs \ {t} : f[u] = g[u]
  BY <1>0 DEF valueOf
<1>3. \A u \in Txs : f[u] \in Int /\ g[u] \in Int
  <2> TAKE u \in Txs
  <2>1. d[u] \in Nat /\ e[u] \in Nat /\ Value[u] \in Nat
    BY <1>0, <1>1
  <2>2. d[u] * Value[u] \in Int /\ e[u] * Value[u] \in Int
    BY <2>1
  <2> QED
    BY <1>2, <2>2
<1>4. g[t] = f[t] + Value[t]
  <2>1. d[t] \in Nat /\ e[t] = d[t] + 1 /\ Value[t] \in Nat
    BY <1>0, <1>1
  <2>2. (d[t] + 1) * Value[t] = d[t] * Value[t] + Value[t]
    BY <2>1
  <2> QED
    BY <1>2, <2>1, <2>2
<1> HIDE DEF f, g
<1>5. SumFunctionOnSet(f, S) \in Int
  BY <1>1, <1>3, SumInt
<1>6. CASE t \in S
  <2>3. g[t] \in Int /\ (\A u \in S : f[u] \in Int) /\ (\A u \in S \ {t} : f[u] = g[u])
    BY <1>2, <1>3
  <2>1. SumFunctionOnSet(g, S) = SumFunctionOnSet(f, S) + g[t] - f[t]
    BY <1>1, <1>6, <2>3, SumChange
  <2>2. f[t] \in Int /\ Value[t] \in Nat
    BY <1>1, <1>3
  <2> QED
    BY <1>4, <1>5, <1>6, <2>1, <2>2 DEF f, g
<1>7. CASE t \notin S
  <2>1. SumFunctionOnSet(f, S) = SumFunctionOnSet(g, S)
    BY <1>1, <1>2, <1>7, SumSame
  <2> QED
    BY <1>5, <1>7, <2>1 DEF f, g
<1> QED
  BY <1>6, <1>7

\* What an account should have after one debit, or one credit, more.
LEMMA ExpectedNext ==
  ASSUME NEW d \in [Txs -> Nat], NEW c \in [Txs -> Nat], NEW t \in Txs, NEW a \in Accounts
  PROVE  /\ expectedBy(d, c, a) \in Int
         /\ \A d1 : d1 = [d EXCEPT ![t] = @ + 1] =>
              expectedBy(d1, c, a) = IF Sender[t] = a THEN expectedBy(d, c, a) - Value[t]
                                     ELSE expectedBy(d, c, a)
         /\ \A c1 : c1 = [c EXCEPT ![t] = @ + 1] =>
              expectedBy(d, c1, a) = IF Recipient[t] = a THEN expectedBy(d, c, a) + Value[t]
                                     ELSE expectedBy(d, c, a)
PROOF
<1> DEFINE d1  == [d EXCEPT ![t] = @ + 1]
           c1  == [c EXCEPT ![t] = @ + 1]
           out == {u \in Txs : Sender[u] = a}
           in  == {u \in Txs : Recipient[u] = a}
<1>1. /\ out \in SUBSET Txs /\ in \in SUBSET Txs
      /\ (t \in out <=> Sender[t] = a) /\ (t \in in <=> Recipient[t] = a)
  OBVIOUS
<1>2. InitBalance \in Nat /\ Value[t] \in Nat
  BY ReshardAssumption
<1>3. \A x, y : expectedBy(x, y, a) = InitBalance + SumFunctionOnSet(valueOf(y), in)
                                                - SumFunctionOnSet(valueOf(x), out)
  BY DEF expectedBy
<1> HIDE DEF out, in
<1>4. /\ SumFunctionOnSet(valueOf(d), out) \in Int
      /\ SumFunctionOnSet(valueOf(d1), out)
           = IF t \in out THEN SumFunctionOnSet(valueOf(d), out) + Value[t]
             ELSE SumFunctionOnSet(valueOf(d), out)
  BY <1>1, TotalNext
<1>5. /\ SumFunctionOnSet(valueOf(c), in) \in Int
      /\ SumFunctionOnSet(valueOf(c1), in)
           = IF t \in in THEN SumFunctionOnSet(valueOf(c), in) + Value[t]
             ELSE SumFunctionOnSet(valueOf(c), in)
  BY <1>1, TotalNext
<1> HIDE DEF d1, c1
<1>6. expectedBy(d, c, a) \in Int
  BY <1>2, <1>3, <1>4, <1>5
<1>7. expectedBy(d1, c, a) = IF Sender[t] = a THEN expectedBy(d, c, a) - Value[t]
                             ELSE expectedBy(d, c, a)
  BY <1>1, <1>2, <1>3, <1>4, <1>5
<1>8. expectedBy(d, c1, a) = IF Recipient[t] = a THEN expectedBy(d, c, a) + Value[t]
                             ELSE expectedBy(d, c, a)
  BY <1>1, <1>2, <1>3, <1>4, <1>5
<1> QED
  BY <1>6, <1>7, <1>8 DEF d1, c1

\* Balance and expectation of an account change alike from st to r in shard s,
\* and an account of another shard keeps its expectation.
expects(st, a) == expectedBy(st.debits, st.credits, a)
alike(s, a, st, r) ==
  /\ expects(r, a) \in Int
  /\ PartitionMap[s][a] = s =>
       BalanceOf(r.trie, a) - expects(r, a) = BalanceOf(st.trie, a) - expects(st, a)
  /\ PartitionMap[s][a] # s => expects(r, a) = expects(st, a)

LEMMA PutBalance ==
  ASSUME NEW st, NEW b, NEW n, NEW a
  PROVE  BalanceOf(put(st, b, n), a) = IF a = b THEN n ELSE BalanceOf(st, a)
PROOF
<1>1. a \in DOMAIN put(st, b, n) <=> a \in DOMAIN st \/ a = b
  BY DEF put
<1>2. a \in DOMAIN put(st, b, n) => put(st, b, n)[a] = IF a = b THEN n ELSE st[a]
  BY DEF put
<1> QED
  BY <1>1, <1>2 DEF BalanceOf

\* A debit, and a credit.
LEMMA DebitAlike ==
  ASSUME NEW s, NEW st \in BlockStates, NEW x \in TxRec, NEW a \in Accounts,
         ~unfunded(s, st, x)
  PROVE  debitOf(s, st, x) \in BlockStates /\ alike(s, a, st, debitOf(s, st, x))
PROOF
<1> DEFINE t == x.id
           b == Sender[t]
           r == debitOf(s, st, x)
           left == BalanceOf(st.trie, b) - Value[t]
           tr == put(st.trie, b, left)
           db == [st.debits EXCEPT ![t] = @ + 1]
<1>1. t \in Txs /\ b \in Accounts /\ Value[t] \in Nat
  BY ReshardAssumption DEF TxRec
<1>2. st.trie \in AccountStates /\ st.debits \in [Txs -> Nat] /\ st.credits \in [Txs -> Nat]
  BY DEF BlockStates
<1>3. BalanceOf(st.trie, a) \in Nat /\ BalanceOf(st.trie, b) \in Nat
  BY <1>1, <1>2, BalanceType
<1>4. /\ expects(st, a) \in Int
      /\ expectedBy(db, st.credits, a) = IF b = a THEN expects(st, a) - Value[t]
                                         ELSE expects(st, a)
  BY <1>1, <1>2, ExpectedNext DEF expects
<1>5. CASE x.Relayed \/ PartitionMap[s][b] # s
  <2>1. r = st
    BY <1>5 DEF debitOf
  <2> QED
    BY <1>4, <2>1 DEF alike
<1>6. CASE ~x.Relayed /\ PartitionMap[s][b] = s
  <2>1. left \in Nat
    BY <1>1, <1>3, <1>6 DEF unfunded
  <2>9. db \in [Txs -> Nat]
    BY <1>1, <1>2
  <2>2. tr \in AccountStates
    BY <1>1, <1>2, <2>1, PutState
  <2>3. r = [st EXCEPT !.trie = tr, !.debits = db]
    BY <1>6 DEF debitOf
  <2>4. BalanceOf(tr, a) = IF a = b THEN BalanceOf(st.trie, b) - Value[t]
                           ELSE BalanceOf(st.trie, a)
    BY PutBalance
  <2> HIDE DEF tr, db, r, left
  <2>5. r \in BlockStates /\ r.trie = tr /\ r.debits = db /\ r.credits = st.credits
    BY <2>2, <2>3, <2>9 DEF BlockStates
  <2>6. expects(r, a) = IF b = a THEN expects(st, a) - Value[t] ELSE expects(st, a)
    BY <1>4, <2>5 DEF expects
  <2>7. ASSUME a = b PROVE alike(s, a, st, r)
    <3>1. BalanceOf(r.trie, a) - expects(r, a) = BalanceOf(st.trie, a) - expects(st, a)
      BY <1>1, <1>3, <1>4, <2>4, <2>5, <2>6, <2>7
    <3>2. expects(r, a) \in Int
      BY <1>1, <1>4, <2>6
    <3> QED
      BY <1>6, <2>7, <3>1, <3>2 DEF alike
  <2>8. ASSUME a # b PROVE alike(s, a, st, r)
    <3>1. expects(r, a) = expects(st, a) /\ BalanceOf(r.trie, a) = BalanceOf(st.trie, a)
      BY <2>4, <2>5, <2>6, <2>8
    <3> QED
      BY <1>4, <3>1 DEF alike
  <2> QED
    BY <2>5, <2>7, <2>8 DEF r
<1> QED
  BY <1>1, <1>5, <1>6 DEF TxRec

LEMMA CreditAlike ==
  ASSUME NEW s, NEW st \in BlockStates, NEW x \in TxRec, NEW a \in Accounts
  PROVE  creditOf(s, st, x) \in BlockStates /\ alike(s, a, st, creditOf(s, st, x))
PROOF
<1> DEFINE t == x.id
           b == Recipient[t]
           r == creditOf(s, st, x)
           more == BalanceOf(st.trie, b) + Value[t]
           tr == put(st.trie, b, more)
           cr == [st.credits EXCEPT ![t] = @ + 1]
<1>1. t \in Txs /\ b \in Accounts /\ Value[t] \in Nat
  BY ReshardAssumption DEF TxRec
<1>2. st.trie \in AccountStates /\ st.debits \in [Txs -> Nat] /\ st.credits \in [Txs -> Nat]
  BY DEF BlockStates
<1>3. BalanceOf(st.trie, a) \in Nat /\ BalanceOf(st.trie, b) \in Nat
  BY <1>1, <1>2, BalanceType
<1>4. /\ expects(st, a) \in Int
      /\ expectedBy(st.debits, cr, a) = IF b = a THEN expects(st, a) + Value[t]
                                        ELSE expects(st, a)
  BY <1>1, <1>2, ExpectedNext DEF expects
<1>5. CASE PartitionMap[s][b] # s
  <2>1. r = st
    BY <1>5 DEF creditOf
  <2> QED
    BY <1>4, <2>1 DEF alike
<1>6. CASE PartitionMap[s][b] = s
  <2>1. more \in Nat
    BY <1>1, <1>3
  <2>9. cr \in [Txs -> Nat]
    BY <1>1, <1>2
  <2>2. tr \in AccountStates
    BY <1>1, <1>2, <2>1, PutState
  <2>3. r = [st EXCEPT !.trie = tr, !.credits = cr]
    BY <1>6 DEF creditOf
  <2>4. BalanceOf(tr, a) = IF a = b THEN BalanceOf(st.trie, b) + Value[t]
                           ELSE BalanceOf(st.trie, a)
    BY PutBalance
  <2> HIDE DEF tr, cr, r, more
  <2>5. r \in BlockStates /\ r.trie = tr /\ r.credits = cr /\ r.debits = st.debits
    BY <2>2, <2>3, <2>9 DEF BlockStates
  <2>6. expects(r, a) = IF b = a THEN expects(st, a) + Value[t] ELSE expects(st, a)
    BY <1>4, <2>5 DEF expects
  <2>7. ASSUME a = b PROVE alike(s, a, st, r)
    <3>1. BalanceOf(r.trie, a) - expects(r, a) = BalanceOf(st.trie, a) - expects(st, a)
      BY <1>1, <1>3, <1>4, <2>4, <2>5, <2>6, <2>7
    <3>2. expects(r, a) \in Int
      BY <1>1, <1>4, <2>6
    <3> QED
      BY <1>6, <2>7, <3>1, <3>2 DEF alike
  <2>8. ASSUME a # b PROVE alike(s, a, st, r)
    <3>1. expects(r, a) = expects(st, a) /\ BalanceOf(r.trie, a) = BalanceOf(st.trie, a)
      BY <2>4, <2>5, <2>6, <2>8
    <3> QED
      BY <1>4, <3>1 DEF alike
  <2> QED
    BY <2>5, <2>7, <2>8 DEF r
<1> QED
  BY <1>5, <1>6

LEMMA ExpectsInt ==
  ASSUME NEW st \in BlockStates, NEW a \in Accounts
  PROVE  expects(st, a) \in Int
PROOF
<1>1. st.debits \in [Txs -> Nat] /\ st.credits \in [Txs -> Nat]
  BY DEF BlockStates
<1> DEFINE out == {u \in Txs : Sender[u] = a}
           in  == {u \in Txs : Recipient[u] = a}
<1>2. IsFiniteSet(out) /\ IsFiniteSet(in)
  BY FS_Subset, ReshardAssumption
<1>3. \A u \in Txs : valueOf(st.debits)[u] \in Int /\ valueOf(st.credits)[u] \in Int
  <2> TAKE u \in Txs
  <2>1. st.debits[u] \in Nat /\ st.credits[u] \in Nat /\ Value[u] \in Nat
    BY <1>1, ReshardAssumption
  <2>2. st.debits[u] * Value[u] \in Int /\ st.credits[u] * Value[u] \in Int
    BY <2>1
  <2> QED
    BY <2>2 DEF valueOf
<1>4. out \subseteq Txs /\ in \subseteq Txs
  OBVIOUS
<1>5. expects(st, a) = InitBalance + SumFunctionOnSet(valueOf(st.credits), in)
                         - SumFunctionOnSet(valueOf(st.debits), out)
  BY DEF expects, expectedBy
<1> HIDE DEF out, in
<1>6. /\ SumFunctionOnSet(valueOf(st.credits), in) \in Int
      /\ SumFunctionOnSet(valueOf(st.debits), out) \in Int
  BY <1>2, <1>3, <1>4, SumInt
<1> QED
  BY <1>5, <1>6, ReshardAssumption

LEMMA AlikeTwice ==
  ASSUME NEW s, NEW a, NEW st, NEW r, NEW q, alike(s, a, st, r), alike(s, a, r, q)
  PROVE  alike(s, a, st, q)
BY DEF alike

LEMMA ExecuteAlike ==
  ASSUME NEW s, NEW st \in BlockStates, NEW x \in TxRec, NEW a \in Accounts
  PROVE  execute(s, st, x) \in BlockStates /\ alike(s, a, st, execute(s, st, x))
PROOF
<1>1. CASE unfunded(s, st, x)
  <2>1. execute(s, st, x) = st
    BY <1>1 DEF execute
  <2> QED
    BY <2>1, ExpectsInt DEF alike
<1>2. CASE ~unfunded(s, st, x)
  <2> DEFINE d == debitOf(s, st, x)
             r == creditOf(s, d, x)
  <2>1. execute(s, st, x) = r
    BY <1>2 DEF execute
  <2>2. d \in BlockStates /\ alike(s, a, st, d)
    BY <1>2, DebitAlike
  <2> HIDE DEF d
  <2>3. r \in BlockStates /\ alike(s, a, d, r)
    BY <2>2, CreditAlike
  <2> QED
    BY <2>1, <2>2, <2>3, AlikeTwice
<1> QED
  BY <1>1, <1>2

\* The block as a whole.
LEMMA BlockAlike ==
  ASSUME NEW s \in Shards, trie[s] \in AccountStates,
         debits \in [Txs -> Nat], credits \in [Txs -> Nat],
         NEW txs \in Seq(TxRec), NEW a \in Accounts
  PROVE  LET st == GetUpdateStatusTrie(s, txs)
         IN /\ st \in BlockStates
            /\ alike(s, a, [trie |-> trie[s], debits |-> debits, credits |-> credits], st)
PROOF
<1>1. PICK k : /\ k[0] = [trie |-> trie[s], debits |-> debits, credits |-> credits]
               /\ \A i \in Nat : i < Len(txs) => k[i + 1] = execute(s, k[i], txs[i + 1])
               /\ GetUpdateStatusTrie(s, txs) = k[Len(txs)]
  BY BlockRun
<1>2. /\ Len(txs) \in Nat /\ \A i \in 1 .. Len(txs) : txs[i] \in TxRec
  BY RangeOfList
<1> DEFINE good(i) == k[i] \in BlockStates /\ alike(s, a, k[0], k[i])
           I == {i \in Nat : i <= Len(txs) => good(i)}
<1>3. 0 \in I
  <2>1. k[0] \in BlockStates
    BY <1>1 DEF BlockStates
  <2> QED
    BY <2>1, ExpectsInt DEF alike
<1>4. ASSUME NEW i \in Nat, i \in I PROVE i + 1 \in I
  <2> SUFFICES ASSUME i + 1 <= Len(txs) PROVE good(i + 1)
    <3> HIDE DEF good
    <3> QED
      OBVIOUS
  <2>1. i < Len(txs) /\ i <= Len(txs) /\ i + 1 \in 1 .. Len(txs)
    BY <1>2
  <2>2. good(i)
    <3> HIDE DEF good
    <3> QED
      BY <1>4, <2>1
  <2>3. k[i + 1] = execute(s, k[i], txs[i + 1]) /\ txs[i + 1] \in TxRec
    BY <1>1, <1>2, <2>1
  <2>4. k[i + 1] \in BlockStates /\ alike(s, a, k[i], k[i + 1])
    BY <2>2, <2>3, ExecuteAlike
  <2> QED
    BY <2>2, <2>4, AlikeTwice
<1>5. good(Len(txs))
  <2>1. Nat \subseteq I
    <3> HIDE DEF I
    <3> QED
      BY <1>3, <1>4, InductionOnSet
  <2> HIDE DEF good
  <2> QED
    BY <1>2, <2>1
<1> QED
  BY <1>1, <1>5

-----------------------------------------------------------------------------
(***************************************************************************)
(* The balance of an account is kept while the account moves.              *)
(***************************************************************************)

LEMMA Rounds ==
  ASSUME Typed, NEW s \in Shards
  PROVE  /\ AccountTransferRound[s] \in Nat /\ epoch \in Nat
         /\ AccountTransferRound[s] <= epoch /\ epoch <= AccountTransferRound[s] + 1
         /\ AccountTransferRound[s] = epoch => PartitionMap[s] = modifiedMap
         /\ PartitionMap[s] \in [Accounts -> Shards] /\ trie[s] \in AccountStates
PROOF
<1>1. /\ AccountTransferRound[s] \in 0 .. epoch /\ epoch \in 0 .. Len(Maps)
      /\ PartitionMap[s] \in [Accounts -> Shards] /\ Len(Maps) \in Nat
      /\ trie[s] \in AccountStates
  BY ReshardAssumption DEF Typed, CoreOK, MessagesOK
<1>2. /\ epoch <= AccountTransferRound[s] + 1
      /\ AccountTransferRound[s] = epoch => PartitionMap[s] = modifiedMap
  BY DEF Typed, MapsInStep
<1> QED
  BY <1>1, <1>2

\* A shard that holds an account and is not at a partition is the one that
\* answers for it, and before it has executed the last map the only one.
LEMMA HolderAlone ==
  ASSUME Typed, SameMaps, NEW a \in Accounts, HandedOver(a), NEW s \in Shards,
         PartitionMap[s][a] = s, ~moving(s)
  PROVE  /\ owns(s, a) /\ \A j \in Shards : owns(j, a) => j = s
         /\ AccountTransferRound[s] < epoch => \A j \in Shards : PartitionMap[j][a] = j => j = s
PROOF
<1>1. ASSUME NEW j \in Shards, PartitionMap[j][a] = j
      PROVE  /\ AccountTransferRound[j] <= AccountTransferRound[s]
             /\ AccountTransferRound[j] = AccountTransferRound[s] => j = s
             /\ AccountTransferRound[s] < epoch => j = s
  <2>1. ~(AccountTransferRound[s] < AccountTransferRound[j])
    BY <1>1 DEF HandedOver
  <2>2. AccountTransferRound[j] = AccountTransferRound[s] => j = s
    BY <1>1 DEF SameMaps
  <2>3. /\ AccountTransferRound[j] \in Nat /\ AccountTransferRound[s] \in Nat /\ epoch \in Nat
        /\ epoch <= AccountTransferRound[j] + 1
    BY Rounds
  <2> QED
    BY <2>1, <2>2, <2>3
<1>2. owns(s, a)
  BY <1>1 DEF owns
<1>3. ASSUME NEW j \in Shards, owns(j, a) PROVE j = s
  <2>1. PartitionMap[j][a] = j /\ AccountTransferRound[s] <= AccountTransferRound[j]
    BY <1>3 DEF owns
  <2>2. AccountTransferRound[j] \in Nat /\ AccountTransferRound[s] \in Nat
    BY Rounds
  <2> QED
    BY <1>1, <2>1, <2>2
<1> QED
  BY <1>1, <1>2, <1>3

\* No balance of the account is on its way.
nowhere(a) ==
  /\ \A m \in accountNet : ~inNet(a, m)
  /\ \A s, i \in Shards : ~inStore(a, s, i)
  /\ \A s \in Shards : ~inRequest(a, s)

LEMMA NoCopies ==
  ASSUME NEW a, CopiesRight(a), NEW s \in Shards, PartitionMap[s][a] = s, ~moving(s)
  PROVE  nowhere(a)
BY DEF CopiesRight, onItsWay, nowhere

LEMMA NowhereRight ==
  ASSUME NEW a, nowhere(a)'
  PROVE  CopiesRight(a)' /\ OneCopy(a)'
BY DEF CopiesRight, OneCopy, nowhere

\* A step that leaves alone where the account and its balances are.
LEMMA KeptFrame ==
  ASSUME Typed, NEW a, AccountKept(a),
         UNCHANGED <<modifiedMap, AccountTransferRound, PartitionMap, trie, debits, credits,
                     accountNet, AccountStateTx>>,
         \A s \in Shards : moving(s)' <=> moving(s),
         \A s \in Shards : request'[s].kind = "partition" => request'[s] = request[s]
  PROVE  AccountKept(a)'
PROOF
<1>0. \A m \in accountNet : m.to \in Shards
  BY DEF Typed, MessagesOK, AccountMsgs
<1>1. balanceRight(a) /\ HandedOver(a) /\ CopiesRight(a) /\ OneCopy(a)
  BY DEF AccountKept
<1>2. expected(a)' = expected(a)
  BY DEF expected
<1>3. balanceRight(a)'
  BY <1>1, <1>2 DEF balanceRight, owns
<1>4. HandedOver(a)'
  BY <1>1 DEF HandedOver
<1>5. /\ \A m : inNet(a, m)' <=> inNet(a, m)
      /\ \A s, i \in Shards : inStore(a, s, i)' <=> inStore(a, s, i)
      /\ \A s \in Shards : inRequest(a, s)' => inRequest(a, s) /\ request'[s] = request[s]
  BY DEF inNet, inStore, inRequest, collected
<1>6. \A i, b : onItsWay(a, i, b) => onItsWay(a, i, b)'
  BY <1>2 DEF onItsWay
<1>7. CopiesRight(a)'
  <2>1. ASSUME NEW m \in accountNet', inNet(a, m)'
        PROVE  onItsWay(a, m.to, m.AccountState[a])'
    BY <1>1, <1>5, <1>6, <2>1 DEF CopiesRight
  <2>2. ASSUME NEW s \in Shards, NEW i \in Shards, inStore(a, s, i)'
        PROVE  onItsWay(a, s, AccountStateTx[s][i].AccountState[a])'
    <3>1. onItsWay(a, s, AccountStateTx[s][i].AccountState[a])
      BY <1>1, <1>5, <2>2 DEF CopiesRight
    <3> QED
      BY <1>2, <3>1 DEF onItsWay
  <2>3. ASSUME NEW s \in Shards, inRequest(a, s)'
        PROVE  onItsWay(a, s, request[s].AccountState[a])'
    <3>1. onItsWay(a, s, request[s].AccountState[a]) /\ request'[s] = request[s]
      BY <1>1, <1>5, <2>3 DEF CopiesRight
    <3> QED
      BY <1>2, <3>1 DEF onItsWay
  <2> QED
    BY <2>1, <2>2, <2>3 DEF CopiesRight
<1>8. OneCopy(a)'
  <2>1. ASSUME NEW m \in accountNet', inNet(a, m)'
        PROVE  /\ \A n \in accountNet' : inNet(a, n)' => n = m
               /\ \A i \in Shards : ~inStore(a, m.to, i)'
               /\ ~inRequest(a, m.to)'
    <3>1. inNet(a, m) /\ m \in accountNet
      BY <1>5, <2>1 DEF inNet
    <3>2. /\ \A n \in accountNet : inNet(a, n) => n = m
          /\ \A i \in Shards : ~inStore(a, m.to, i)
          /\ ~inRequest(a, m.to) /\ m.to \in Shards
      BY <1>0, <1>1, <3>1 DEF OneCopy
    <3> QED
      BY <1>5, <3>2
  <2> QED
    BY <2>1 DEF OneCopy
<1> QED
  BY <1>3, <1>4, <1>7, <1>8 DEF AccountKept

\* clpaMapSend: the last partition is over in every shard, and no balance is on
\* its way.
LEMMA clpaMapSendKept ==
  ASSUME Typed, NEW a \in Accounts, AccountKept(a), clpaMapSend
  PROVE  AccountKept(a)'
PROOF
<1> USE DEF clpaMapSend, chainVars, dataVars, netVars, history
<1>1. balanceRight(a) /\ HandedOver(a) /\ CopiesRight(a)
  BY DEF AccountKept
<1>2. ASSUME NEW i \in Shards PROVE PartitionMap[i] = modifiedMap
  <2>1. ~(AccountTransferRound[i] < epoch)
    BY DEF waiting
  <2> QED
    BY <2>1, Rounds
<1>3. \A i \in Shards : \A b : ~onItsWay(a, i, b)
  BY <1>2 DEF onItsWay
<1>4. \A m \in accountNet : m.to \in Shards
  BY DEF Typed, MessagesOK, AccountMsgs
<1>5. nowhere(a)
  BY <1>1, <1>3, <1>4 DEF CopiesRight, nowhere
<1>6. nowhere(a)'
  BY <1>5 DEF nowhere, inNet, inStore, inRequest, collected
<1>7. balanceRight(a)' /\ HandedOver(a)'
  BY <1>1 DEF balanceRight, owns, expected, HandedOver, moving
<1> QED
  BY <1>6, <1>7, NowhereRight DEF AccountKept

\* handleAccountStateAndTxMsg: the balances of a message go into the store.
LEMMA handleAccountKept ==
  ASSUME Typed, NEW a \in Accounts, AccountKept(a),
         NEW m \in accountNet, handleAccountStateAndTxMsg(m)
  PROVE  AccountKept(a)'
PROOF
<1> USE DEF handleAccountStateAndTxMsg, committeeVars, chainVars
<1>1. balanceRight(a) /\ HandedOver(a) /\ CopiesRight(a) /\ OneCopy(a)
  BY DEF AccountKept
<1>2. /\ DOMAIN AccountStateTx = Shards /\ \A n \in accountNet : n.to \in Shards
      /\ m.from \in Shards
  BY DEF Typed, MessagesOK, AccountMsgs
<1>3. expected(a)' = expected(a) /\ UNCHANGED <<request, trie, PartitionMap, AccountTransferRound>>
  BY DEF expected
<1>4. balanceRight(a)' /\ HandedOver(a)'
  BY <1>1, <1>3 DEF balanceRight, owns, HandedOver, moving
<1>5. \A i, b : onItsWay(a, i, b) => onItsWay(a, i, b)'
  BY <1>3 DEF onItsWay, moving
<1>6. \A n : inNet(a, n)' <=> inNet(a, n) /\ n # m
  BY DEF inNet
<1>7. \A i \in Shards : inRequest(a, i)' <=> inRequest(a, i)
  BY <1>3 DEF inRequest
<1>8. ASSUME NEW s \in Shards, NEW i \in Shards, inStore(a, s, i)'
      PROVE  \/ inStore(a, s, i) /\ AccountStateTx'[s][i] = AccountStateTx[s][i]
             \/ s = m.to /\ i = m.from /\ AccountStateTx'[s][i] = m /\ inNet(a, m)
  <2>1. CASE s # m.to
    BY <1>2, <1>8, <2>1 DEF inStore, collected
  <2>2. CASE s = m.to
    <3>1. AccountStateTx'[s] = put(AccountStateTx[s], m.from, m)
      BY <1>2, <2>2
    <3>2. /\ DOMAIN AccountStateTx'[s] = DOMAIN AccountStateTx[s] \cup {m.from}
          /\ AccountStateTx'[s][m.from] = m
          /\ \A j \in DOMAIN AccountStateTx[s] :
               j # m.from => AccountStateTx'[s][j] = AccountStateTx[s][j]
      BY <3>1 DEF put
    <3> QED
      BY <1>8, <2>2, <3>2 DEF inStore, inNet, collected
  <2> QED
    BY <2>1, <2>2
<1>9. CopiesRight(a)'
  <2>1. ASSUME NEW n \in accountNet', inNet(a, n)'
        PROVE  onItsWay(a, n.to, n.AccountState[a])'
    BY <1>1, <1>5, <1>6, <2>1 DEF CopiesRight
  <2>2. ASSUME NEW s \in Shards, NEW i \in Shards, inStore(a, s, i)'
        PROVE  onItsWay(a, s, AccountStateTx[s][i].AccountState[a])'
    <3>1. onItsWay(a, s, AccountStateTx'[s][i].AccountState[a])
      BY <1>1, <1>8, <2>2 DEF CopiesRight
    <3> QED
      BY <1>3, <3>1 DEF onItsWay, moving
  <2>3. ASSUME NEW s \in Shards, inRequest(a, s)'
        PROVE  onItsWay(a, s, request[s].AccountState[a])'
    <3>1. onItsWay(a, s, request[s].AccountState[a])
      BY <1>1, <1>7, <2>3 DEF CopiesRight
    <3> QED
      BY <1>3, <3>1 DEF onItsWay, moving
  <2> QED
    BY <2>1, <2>2, <2>3 DEF CopiesRight
<1>10. OneCopy(a)'
  <2>1. ASSUME NEW n \in accountNet', inNet(a, n)'
        PROVE  /\ \A k \in accountNet' : inNet(a, k)' => k = n
               /\ \A i \in Shards : ~inStore(a, n.to, i)'
               /\ ~inRequest(a, n.to)'
    <3>1. /\ n \in accountNet /\ n # m /\ inNet(a, n) /\ ~inNet(a, m)
      BY <1>1, <1>6, <2>1 DEF OneCopy, inNet
    <3>2. /\ \A k \in accountNet : inNet(a, k) => k = n
          /\ \A i \in Shards : ~inStore(a, n.to, i)
          /\ ~inRequest(a, n.to) /\ n.to \in Shards
      BY <1>1, <1>2, <3>1 DEF OneCopy
    <3> QED
      BY <1>6, <1>7, <1>8, <3>1, <3>2
  <2> QED
    BY <2>1 DEF OneCopy
<1> QED
  BY <1>4, <1>9, <1>10 DEF AccountKept

\* The balances in the messages of sendAccounts_and_Txs.
LEMMA AccountMsgStates ==
  ASSUME NEW s, NEW i, NEW a
  PROVE  LET m == accountMsg(s, i)
         IN /\ m.to = i
            /\ a \in DOMAIN m.AccountState <=>
                 a \in accountToFetch(s) /\ Maps[received[s]][a] = i
            /\ a \in DOMAIN m.AccountState => m.AccountState[a] = BalanceOf(trie[s], a)
BY DEF accountMsg

\* sendAccounts_and_Txs: the shard that sends the balance is the one that
\* answers for the account, and it executes no block from now on.
LEMMA sendAccountsKept ==
  ASSUME Typed, SameMaps, NEW a \in Accounts, AccountKept(a), NEW s \in Shards,
         sendAccounts_and_Txs(s)
  PROVE  AccountKept(a)'
PROOF
<1> USE DEF committeeVars, chainVars, dataVars, history
<1>0. DOMAIN request = Shards /\ \A m \in accountNet : m.to \in Shards
  BY DEF Typed, MessagesOK, AccountMsgs
<1>1. balanceRight(a) /\ HandedOver(a) /\ CopiesRight(a) /\ OneCopy(a)
  BY DEF AccountKept
<1>2. /\ request[s] = Idle /\ PartitionOn(s) /\ ~moving(s)
      /\ request' = [request EXCEPT ![s] = [kind |-> "sent"]]
      /\ accountNet' = accountNet \cup {accountMsg(s, i) : i \in Shards \ {s}}
      /\ UNCHANGED <<modifiedMap, AccountTransferRound, PartitionMap, trie, debits, credits,
                     AccountStateTx, received>>
  BY DEF sendAccounts_and_Txs, moving, Idle
<1>3. /\ moving(s)' /\ \A j \in Shards : moving(j) => moving(j)'
      /\ \A j \in Shards : inRequest(a, j)' => inRequest(a, j) /\ request'[j] = request[j]
  BY <1>0, <1>2 DEF moving, inRequest
<1>4. expected(a)' = expected(a)
  BY <1>2 DEF expected
<1>5. balanceRight(a)' /\ HandedOver(a)'
  BY <1>1, <1>2, <1>3, <1>4 DEF balanceRight, owns, HandedOver
<1>6. /\ \A i, b : onItsWay(a, i, b) => onItsWay(a, i, b)'
      /\ \A i, j \in Shards : inStore(a, i, j)' <=> inStore(a, i, j)
  BY <1>2, <1>3, <1>4 DEF onItsWay, inStore, collected
<1>7. \A m \in accountNet' : inNet(a, m)' =>
        \/ inNet(a, m)
        \/ \E i \in Shards : /\ m = accountMsg(s, i) /\ m.to = i
                             /\ a \in accountToFetch(s) /\ Maps[received[s]][a] = i
                             /\ m.AccountState[a] = BalanceOf(trie[s], a)
  BY <1>2, AccountMsgStates DEF inNet
<1>8. CASE a \in accountToFetch(s)
  <2> DEFINE i == Maps[received[s]][a]
             b == BalanceOf(trie[s], a)
             new == accountMsg(s, i)
  <2>1. /\ a \in DOMAIN Maps[received[s]] /\ i # s /\ PartitionMap[s][a] = s
    BY <1>8 DEF accountToFetch
  <2>2. /\ received[s] \in 1 .. Len(Maps) /\ AccountTransferRound[s] < epoch
        /\ modifiedMap = putAll(PartitionMap[s], Maps[received[s]])
    BY <1>2, MapAtHand, Rounds
  <2>3. i \in Shards /\ modifiedMap[a] = i
    BY <2>1, <2>2, ReshardAssumption, Rounds DEF putAll
  <2>4. owns(s, a) /\ \A j \in Shards : PartitionMap[j][a] = j => j = s
    BY <1>1, <1>2, <2>1, <2>2, HolderAlone
  <2>5. nowhere(a)
    BY <1>1, <1>2, <2>1, NoCopies
  <2>6. b = expected(a)
    BY <1>1, <2>4 DEF balanceRight
  <2>12. PartitionMap[i][a] # i
    BY <2>1, <2>3, <2>4
  <2>8. ASSUME NEW m \in accountNet', inNet(a, m)'
        PROVE  m = new /\ m.to = i /\ m.AccountState[a] = b
    BY <1>7, <2>5, <2>8 DEF nowhere, inNet
  <2>9. (\A j, k \in Shards : ~inStore(a, j, k)') /\ (\A j \in Shards : ~inRequest(a, j)')
    BY <1>3, <1>6, <2>5 DEF nowhere
  <2> HIDE DEF b, new, i
  <2>10. CopiesRight(a)'
    <3>1. ASSUME NEW m \in accountNet', inNet(a, m)'
          PROVE  onItsWay(a, m.to, m.AccountState[a])'
      <4>1. m.to = i /\ m.AccountState[a] = b
        BY <2>8, <3>1
      <4>2. i = modifiedMap'[a] /\ PartitionMap'[i][a] # i /\ b = expected(a)'
            /\ \A j \in Shards : PartitionMap'[j][a] = j => moving(j)'
        BY <1>2, <1>3, <1>4, <2>3, <2>4, <2>6, <2>12
      <4> QED
        BY <4>1, <4>2 DEF onItsWay
    <3> QED
      BY <2>9, <3>1 DEF CopiesRight
  <2>11. OneCopy(a)'
    BY <2>3, <2>8, <2>9 DEF OneCopy
  <2> QED
    BY <1>5, <2>10, <2>11 DEF AccountKept
<1>9. CASE a \notin accountToFetch(s)
  <2>1. \A m \in accountNet' : inNet(a, m)' => inNet(a, m) /\ m \in accountNet
    BY <1>7, <1>9 DEF inNet
  <2>2. CopiesRight(a)'
    <3>1. \A m \in accountNet' : inNet(a, m)' => onItsWay(a, m.to, m.AccountState[a])'
      BY <1>1, <1>6, <2>1 DEF CopiesRight
    <3>2. ASSUME NEW j \in Shards, NEW k \in Shards, inStore(a, j, k)'
          PROVE  onItsWay(a, j, AccountStateTx[j][k].AccountState[a])'
      <4>1. onItsWay(a, j, AccountStateTx[j][k].AccountState[a])
        BY <1>1, <1>6, <3>2 DEF CopiesRight
      <4> QED
        BY <1>2, <1>3, <1>4, <4>1 DEF onItsWay
    <3>3. ASSUME NEW j \in Shards, inRequest(a, j)'
          PROVE  onItsWay(a, j, request[j].AccountState[a])'
      <4>1. onItsWay(a, j, request[j].AccountState[a]) /\ request'[j] = request[j]
        BY <1>1, <1>3, <3>3 DEF CopiesRight
      <4> QED
        BY <1>2, <1>3, <1>4, <4>1 DEF onItsWay
    <3> QED
      BY <3>1, <3>2, <3>3 DEF CopiesRight
  <2>3. OneCopy(a)'
    <3>1. ASSUME NEW m \in accountNet', inNet(a, m)'
          PROVE  /\ \A n \in accountNet' : inNet(a, n)' => n = m
                 /\ \A i \in Shards : ~inStore(a, m.to, i)'
                 /\ ~inRequest(a, m.to)'
      <4>1. inNet(a, m) /\ m \in accountNet /\ m.to \in Shards
        BY <1>0, <2>1, <3>1
      <4>2. /\ \A n \in accountNet : inNet(a, n) => n = m
            /\ \A i \in Shards : ~inStore(a, m.to, i)
            /\ ~inRequest(a, m.to)
        BY <1>1, <4>1 DEF OneCopy
      <4> QED
        BY <1>3, <1>6, <2>1, <4>1, <4>2
    <3> QED
      BY <3>1 DEF OneCopy
  <2> QED
    BY <1>5, <2>2, <2>3 DEF AccountKept
<1> QED
  BY <1>8, <1>9

\* proposePartition: a balance in the request is one of the store.
LEMMA proposePartitionKept ==
  ASSUME Typed, NEW a \in Accounts, AccountKept(a), NEW s \in Shards, proposePartition(s)
  PROVE  AccountKept(a)'
PROOF
<1> USE DEF committeeVars, chainVars, dataVars, netVars, history
<1>0. DOMAIN request = Shards /\ collected(s) \subseteq Shards
      /\ \A m \in accountNet : m.to \in Shards
  BY DEF Typed, MessagesOK, AccountMsgs
<1>1. balanceRight(a) /\ HandedOver(a) /\ CopiesRight(a) /\ OneCopy(a)
  BY DEF AccountKept
<1>2. PICK states \in newAccountStates(s) :
        request' = [request EXCEPT ![s] =
                      [kind |-> "partition", map |-> Maps[AccountTransferRound[s] + 1],
                       ATid |-> received[s], AccountState |-> states]]
  BY DEF proposePartition
<1>3. /\ request[s].kind = "sent"
      /\ UNCHANGED <<modifiedMap, AccountTransferRound, PartitionMap, trie, debits, credits,
                     AccountStateTx, accountNet>>
  BY DEF proposePartition
<1>4. request'[s].AccountState = states /\ \A j \in Shards \ {s} : request'[j] = request[j]
  BY <1>0, <1>2
<1>5. \A j \in Shards : moving(j)' <=> moving(j)
  BY <1>0, <1>2, <1>3 DEF moving
<1>6. expected(a)' = expected(a)
  BY <1>3 DEF expected
<1>7. balanceRight(a)' /\ HandedOver(a)'
  BY <1>1, <1>3, <1>5, <1>6 DEF balanceRight, owns, HandedOver
<1>8. /\ \A m : inNet(a, m)' <=> inNet(a, m)
      /\ \A i, j \in Shards : inStore(a, i, j)' <=> inStore(a, i, j)
  BY <1>3 DEF inNet, inStore, collected
<1>9. ASSUME NEW j \in Shards, inRequest(a, j)'
      PROVE  \/ j # s /\ inRequest(a, j) /\ request'[j] = request[j]
             \/ j = s /\ \E i \in Shards :
                  /\ inStore(a, s, i)
                  /\ request'[s].AccountState[a] = AccountStateTx[s][i].AccountState[a]
  <2>1. CASE j # s
    BY <1>4, <1>9, <2>1 DEF inRequest
  <2>2. CASE j = s
    <3>1. a \in DOMAIN states
      BY <1>4, <1>9, <2>2 DEF inRequest
    <3>2. PICK i \in collected(s) : /\ a \in DOMAIN AccountStateTx[s][i].AccountState
                                    /\ states[a] = AccountStateTx[s][i].AccountState[a]
      BY <3>1, NewStatesTyped
    <3> QED
      BY <1>0, <1>4, <2>2, <3>2 DEF inStore
  <2> QED
    BY <2>1, <2>2
<1>10. CopiesRight(a)'
  <2>1. ASSUME NEW m \in accountNet', inNet(a, m)'
        PROVE  onItsWay(a, m.to, m.AccountState[a])'
    <3>1. onItsWay(a, m.to, m.AccountState[a])
      BY <1>1, <1>3, <1>8, <2>1 DEF CopiesRight
    <3> QED
      BY <1>3, <1>5, <1>6, <3>1 DEF onItsWay
  <2>2. ASSUME NEW i \in Shards, NEW j \in Shards, inStore(a, i, j)'
        PROVE  onItsWay(a, i, AccountStateTx[i][j].AccountState[a])'
    <3>1. onItsWay(a, i, AccountStateTx[i][j].AccountState[a])
      BY <1>1, <1>8, <2>2 DEF CopiesRight
    <3> QED
      BY <1>3, <1>5, <1>6, <3>1 DEF onItsWay
  <2>3. ASSUME NEW j \in Shards, inRequest(a, j)'
        PROVE  onItsWay(a, j, request[j].AccountState[a])'
    <3>1. PICK b : b = request'[j].AccountState[a]
      OBVIOUS
    <3>2. onItsWay(a, j, b)
      BY <1>1, <1>9, <2>3, <3>1 DEF CopiesRight
    <3> QED
      BY <1>3, <1>5, <1>6, <3>1, <3>2 DEF onItsWay
  <2> QED
    BY <2>1, <2>2, <2>3 DEF CopiesRight
<1>11. OneCopy(a)'
  <2>1. ASSUME NEW m \in accountNet', inNet(a, m)'
        PROVE  /\ \A n \in accountNet' : inNet(a, n)' => n = m
               /\ \A i \in Shards : ~inStore(a, m.to, i)'
               /\ ~inRequest(a, m.to)'
    <3>1. inNet(a, m) /\ m \in accountNet /\ m.to \in Shards
      BY <1>0, <1>3, <1>8, <2>1
    <3>2. /\ \A n \in accountNet : inNet(a, n) => n = m
          /\ \A i \in Shards : ~inStore(a, m.to, i)
          /\ ~inRequest(a, m.to)
      BY <1>1, <3>1 DEF OneCopy
    <3> QED
      BY <1>3, <1>8, <1>9, <3>1, <3>2
  <2> QED
    BY <2>1 DEF OneCopy
<1> QED
  BY <1>7, <1>10, <1>11 DEF AccountKept

\* What accountTransfer_do does to the shard.
transferred(s, map, states) ==
  /\ map = modifiedMap /\ moving(s) /\ request[s].kind = "partition"
  /\ states = request[s].AccountState /\ states \in AccountStates
  /\ PartitionMap' = [PartitionMap EXCEPT ![s] = map]
  /\ trie' = [trie EXCEPT ![s] = AddAccounts(s, map, states)]
  /\ AccountTransferRound' = [AccountTransferRound EXCEPT ![s] = epoch]
  /\ AccountTransferRound[s] < epoch
  /\ AccountStateTx' = [AccountStateTx EXCEPT ![s] = EmptyMap]
  /\ request' = [request EXCEPT ![s] = Idle]
  /\ reset' = reset \cup {a \in Accounts : map[a] = s /\ PartitionMap[s][a] # s
                                           /\ a \notin DOMAIN states}
  /\ UNCHANGED <<modifiedMap, epoch, accountNet, debits, credits>>

LEMMA Transferred ==
  ASSUME Typed, NEW s \in Shards, accountTransfer_do(s)
  PROVE  \E map, states : transferred(s, map, states)
PROOF
<1> DEFINE r == request[s]
           map == putAll(PartitionMap[s], r.map)
<1>1. moving(s) /\ r.kind = "partition" /\ r \in Requests
  BY DEF moving, Typed, MessagesOK, accountTransfer_do
<1>2. /\ received[s] = AccountTransferRound[s] + 1 /\ epoch = received[s]
      /\ AccountTransferRound[s] \in Nat
      /\ modifiedMap = putAll(PartitionMap[s], Maps[received[s]])
  BY <1>1, MapAtHand
<1>3. r.ATid = received[s] /\ r.map = Maps[received[s]] /\ r.AccountState \in AccountStates
  BY <1>1, RequestFields DEF Typed, MapsInStep
<1>4. map = modifiedMap /\ AccountTransferRound[s] < epoch
  BY <1>2, <1>3
<1>5. transferred(s, map, r.AccountState)
  BY <1>1, <1>2, <1>3, <1>4 DEF transferred, accountTransfer_do, committeeVars, netVars
<1> QED
  BY <1>5

\* The shards that have executed the same partitions have the same map.
LEMMA SameMapsStep ==
  ASSUME Typed, SameMaps, [Next]_vars
  PROVE  SameMaps'
PROOF
<1>1. ASSUME NEW s \in Shards, accountTransfer_do(s) PROVE SameMaps'
  <2>1. PICK map, states : transferred(s, map, states)
    BY <1>1, Transferred
  <2>2. PartitionMap'[s] = modifiedMap /\ AccountTransferRound'[s] = epoch
    BY <2>1 DEF transferred, Typed, CoreOK
  <2>3. ASSUME NEW j \in Shards, AccountTransferRound'[j] = epoch
        PROVE  PartitionMap'[j] = modifiedMap
    <3>1. CASE j = s
      BY <2>2, <3>1
    <3>2. CASE j # s
      <4>1. AccountTransferRound'[j] = AccountTransferRound[j] /\ PartitionMap'[j] = PartitionMap[j]
        BY <2>1, <3>2 DEF transferred, Typed, CoreOK
      <4> QED
        BY <2>3, <4>1, Rounds
    <3> QED
      BY <3>1, <3>2
  <2>4. \A j \in Shards \ {s} : /\ AccountTransferRound'[j] = AccountTransferRound[j]
                                /\ PartitionMap'[j] = PartitionMap[j]
    BY <2>1 DEF transferred, Typed, CoreOK
  <2>5. ASSUME NEW i \in Shards, NEW j \in Shards,
               AccountTransferRound'[i] = AccountTransferRound'[j]
        PROVE  PartitionMap'[i] = PartitionMap'[j]
    <3>1. CASE i = s \/ j = s
      BY <2>2, <2>3, <2>5, <3>1
    <3>2. CASE i # s /\ j # s
      BY <2>4, <2>5, <3>2 DEF SameMaps
    <3> QED
      BY <3>1, <3>2
  <2> QED
    BY <2>5 DEF SameMaps
<1>2. CASE UNCHANGED <<PartitionMap, AccountTransferRound>>
  BY <1>2 DEF SameMaps
<1>3. CASE \E t \in Txs : txSending(t)
  BY <1>2, <1>3 DEF txSending, chainVars, dataVars
<1>4. CASE clpaMapSend
  BY <1>2, <1>4 DEF clpaMapSend, chainVars, dataVars
<1>5. CASE Deliver
  BY <1>2, <1>5 DEF Deliver, handleInjectTx, handleRelay, handleAccountStateAndTxMsg,
                    handlePartitionMsg, chainVars, dataVars
<1>6. ASSUME NEW s \in Shards, ShardStep(s) PROVE SameMaps'
  BY <1>1, <1>2, <1>6 DEF ShardStep, GenerateBlock, HandleinCommit, sendAccounts_and_Txs,
                          proposePartition, chainVars, dataVars
<1>7. CASE UNCHANGED vars
  BY <1>2, <1>7 DEF vars, chainVars, dataVars
<1> QED
  BY <1>3, <1>4, <1>5, <1>6, <1>7 DEF Next

LEMMA AddBalance ==
  ASSUME NEW s, NEW map, NEW states, NEW a
  PROVE  BalanceOf(AddAccounts(s, map, states), a)
           = IF a \in DOMAIN states /\ map[a] = s THEN states[a] ELSE BalanceOf(trie[s], a)
PROOF
<1> DEFINE here == {x \in DOMAIN states : map[x] = s}
           f == Restrict(states, here)
<1>1. DOMAIN f = here /\ \A x \in here : f[x] = states[x]
  BY DEF Restrict
<1>2. AddAccounts(s, map, states) = putAll(trie[s], f)
  BY DEF AddAccounts
<1>3. a \in here <=> a \in DOMAIN states /\ map[a] = s
  OBVIOUS
<1> HIDE DEF f, here
<1>4. AddAccounts(s, map, states)
        = [x \in DOMAIN trie[s] \cup here |-> IF x \in here THEN states[x] ELSE trie[s][x]]
  BY <1>1, <1>2 DEF putAll
<1> QED
  BY <1>3, <1>4 DEF BalanceOf

\* accountTransfer_do: the new shard takes the balance over from its request.
LEMMA accountTransferKept ==
  ASSUME Typed, SameMaps, NEW s \in Shards, accountTransfer_do(s),
         NEW a \in Accounts, a \notin reset', AccountKept(a)
  PROVE  AccountKept(a)'
PROOF
<1>0. /\ DOMAIN request = Shards /\ DOMAIN trie = Shards /\ DOMAIN AccountStateTx = Shards
      /\ DOMAIN PartitionMap = Shards /\ DOMAIN AccountTransferRound = Shards
      /\ \A m \in accountNet : m.to \in Shards
  BY DEF Typed, CoreOK, MessagesOK, AccountMsgs
<1>1. balanceRight(a) /\ HandedOver(a) /\ CopiesRight(a) /\ OneCopy(a)
  BY DEF AccountKept
<1>2. PICK map, states : transferred(s, map, states)
  BY Transferred
<1>3. /\ PartitionMap'[s] = modifiedMap /\ AccountTransferRound'[s] = epoch
      /\ trie'[s] = AddAccounts(s, map, states) /\ DOMAIN AccountStateTx'[s] = {}
      /\ request'[s].kind = "none" /\ map = modifiedMap
      /\ request[s].kind = "partition" /\ states = request[s].AccountState
  BY <1>0, <1>2 DEF transferred, EmptyMap, Idle
<1>4. \A j \in Shards \ {s} :
        /\ PartitionMap'[j] = PartitionMap[j] /\ trie'[j] = trie[j]
        /\ AccountTransferRound'[j] = AccountTransferRound[j]
        /\ AccountStateTx'[j] = AccountStateTx[j] /\ request'[j] = request[j]
        /\ (moving(j)' <=> moving(j))
  BY <1>0, <1>2 DEF transferred, moving
<1>5. UNCHANGED <<modifiedMap, epoch, accountNet, debits, credits>>
  BY <1>2 DEF transferred
<1>6. expected(a)' = expected(a)
  BY <1>5 DEF expected
<1>7. /\ \A m : inNet(a, m)' <=> inNet(a, m)
      /\ \A i, j \in Shards : inStore(a, i, j)' => i # s /\ inStore(a, i, j)
      /\ \A j \in Shards : inRequest(a, j)' => j # s /\ inRequest(a, j)
      /\ inRequest(a, s) <=> a \in DOMAIN states
  BY <1>3, <1>4, <1>5 DEF inNet, inStore, inRequest, collected
<1>8. ASSUME NEW j \in Shards
      PROVE  /\ AccountTransferRound[j] \in Nat /\ epoch \in Nat
             /\ AccountTransferRound[j] <= epoch /\ epoch <= AccountTransferRound[j] + 1
             /\ AccountTransferRound[j] = epoch => PartitionMap[j] = modifiedMap
             /\ AccountTransferRound[j] < epoch => PartitionMap[j] = PartitionMap[s]
  <2>1. /\ AccountTransferRound[j] \in Nat /\ epoch \in Nat /\ AccountTransferRound[s] \in Nat
        /\ AccountTransferRound[j] <= epoch /\ epoch <= AccountTransferRound[j] + 1
        /\ epoch <= AccountTransferRound[s] + 1
        /\ AccountTransferRound[j] = epoch => PartitionMap[j] = modifiedMap
    BY Rounds
  <2>2. AccountTransferRound[s] < epoch
    BY <1>2 DEF transferred
  <2>3. AccountTransferRound[j] < epoch => AccountTransferRound[j] = AccountTransferRound[s]
    BY <2>1, <2>2
  <2> QED
    BY <2>1, <2>3 DEF SameMaps
<1>9. BalanceOf(trie'[s], a)
        = IF a \in DOMAIN states /\ modifiedMap[a] = s THEN states[a] ELSE BalanceOf(trie[s], a)
  BY <1>3, AddBalance
<1>10. CASE modifiedMap[a] = s
  <2>1. nowhere(a)'
    <3>1. CASE PartitionMap[s][a] = s
      <4>1. \A i, b : ~onItsWay(a, i, b)
        BY <1>10, <3>1 DEF onItsWay
      <4>2. nowhere(a)
        BY <1>1, <4>1 DEF CopiesRight, nowhere
      <4> QED
        BY <1>5, <1>7, <4>2 DEF nowhere
    <3>2. CASE PartitionMap[s][a] # s
      <4>1. inRequest(a, s)
        BY <1>2, <1>7, <1>10, <3>2 DEF transferred
      <4>2. \A i, b : onItsWay(a, i, b) => i = s
        BY <1>10 DEF onItsWay
      <4>3. \A m \in accountNet : ~inNet(a, m)
        BY <1>1, <4>1, <4>2 DEF CopiesRight, OneCopy
      <4>4. \A i, j \in Shards : inStore(a, i, j) => i = s
        BY <1>1, <4>2 DEF CopiesRight
      <4>5. \A j \in Shards : inRequest(a, j) => j = s
        BY <1>1, <4>2 DEF CopiesRight
      <4> QED
        BY <1>5, <1>7, <4>3, <4>4, <4>5 DEF nowhere
    <3> QED
      BY <3>1, <3>2
  <2>2. BalanceOf(trie'[s], a) = expected(a)
    <3>1. CASE PartitionMap[s][a] = s
      <4>1. a \notin DOMAIN states
        BY <1>1, <1>7, <3>1 DEF CopiesRight, onItsWay
      <4>2. ASSUME NEW j \in Shards, PartitionMap[j][a] = j
            PROVE  AccountTransferRound[j] <= AccountTransferRound[s]
        <5>1. CASE AccountTransferRound[j] = epoch
          <6>1. j = s
            BY <1>8, <1>10, <4>2, <5>1
          <6> QED
            BY <1>8, <6>1
        <5>2. CASE AccountTransferRound[j] < epoch
          <6>1. epoch <= AccountTransferRound[s] + 1 /\ AccountTransferRound[s] \in Nat
            BY <1>8
          <6> QED
            BY <1>8, <5>2, <6>1
        <5> QED
          BY <1>8, <5>1, <5>2
      <4>3. owns(s, a)
        BY <3>1, <4>2 DEF owns
      <4> QED
        BY <1>1, <1>9, <4>1, <4>3 DEF balanceRight
    <3>2. CASE PartitionMap[s][a] # s
      <4>1. a \in DOMAIN states
        BY <1>2, <1>10, <3>2 DEF transferred
      <4>2. onItsWay(a, s, states[a])
        BY <1>1, <1>3, <1>7, <4>1 DEF CopiesRight
      <4> QED
        BY <1>9, <1>10, <4>1, <4>2 DEF onItsWay
    <3> QED
      BY <3>1, <3>2
  <2>3. ASSUME NEW j \in Shards \ {s}, PartitionMap'[j][a] = j
        PROVE  AccountTransferRound'[j] < epoch /\ moving(j)'
    <3>1. PartitionMap[j][a] = j /\ AccountTransferRound'[j] = AccountTransferRound[j]
      BY <1>4, <2>3
    <3>2. AccountTransferRound[j] < epoch
      BY <1>8, <1>10, <3>1
    <3>3. PartitionMap[s][a] = j
      BY <1>8, <3>1, <3>2
    <3>4. a \in DOMAIN states
      BY <1>2, <1>10, <2>3, <3>3 DEF transferred
    <3>5. onItsWay(a, s, states[a])
      BY <1>1, <1>3, <1>7, <3>4 DEF CopiesRight
    <3> QED
      BY <1>4, <3>1, <3>2, <3>5 DEF onItsWay
  <2>4. balanceRight(a)'
    <3>1. ASSUME NEW j \in Shards, owns(j, a)' PROVE j = s
      <4>1. PartitionMap'[s][a] = s
        BY <1>3, <1>10
      <4>2. PartitionMap'[j][a] = j /\ epoch <= AccountTransferRound'[j]
        BY <1>3, <3>1, <4>1 DEF owns
      <4>3. SUFFICES ASSUME j # s PROVE FALSE
        OBVIOUS
      <4>4. AccountTransferRound'[j] < epoch /\ AccountTransferRound'[j] \in Nat /\ epoch \in Nat
        BY <1>4, <1>8, <2>3, <4>2, <4>3
      <4> QED
        BY <4>2, <4>4
    <3> QED
      BY <1>6, <2>2, <3>1 DEF balanceRight
  <2>5. HandedOver(a)'
    <3>1. ASSUME NEW i \in Shards, NEW j \in Shards, PartitionMap'[i][a] = i,
                 AccountTransferRound'[i] < AccountTransferRound'[j]
          PROVE  moving(i)'
      <4>1. AccountTransferRound'[j] <= epoch /\ AccountTransferRound'[j] \in Nat /\ epoch \in Nat
        BY <1>3, <1>4, <1>8
      <4>2. i # s
        BY <1>3, <3>1, <4>1
      <4> QED
        BY <2>3, <3>1, <4>2
    <3> QED
      BY <3>1 DEF HandedOver
  <2> QED
    BY <2>1, <2>4, <2>5, NowhereRight DEF AccountKept
<1>11. CASE modifiedMap[a] # s
  <2>1. \A j \in Shards : PartitionMap'[j][a] = j => j # s /\ PartitionMap[j][a] = j
    BY <1>3, <1>4, <1>11
  <2>2. balanceRight(a)'
    <3>1. ASSUME NEW j \in Shards, owns(j, a)'
          PROVE  BalanceOf(trie'[j], a) = expected(a)
      <4>1. PartitionMap[j][a] = j /\ j # s
        BY <2>1, <3>1 DEF owns
      <4>2. ASSUME NEW i \in Shards, PartitionMap[i][a] = i
            PROVE  AccountTransferRound[i] <= AccountTransferRound[j]
        <5>1. CASE i # s
          BY <1>4, <3>1, <4>1, <4>2, <5>1 DEF owns
        <5>2. CASE i = s
          <6>1. AccountTransferRound[s] < epoch
            BY <1>2 DEF transferred
          <6> QED
            BY <1>8, <5>2, <6>1
        <5> QED
          BY <5>1, <5>2
      <4>3. owns(j, a)
        BY <4>1, <4>2 DEF owns
      <4> QED
        BY <1>1, <1>4, <4>1, <4>3 DEF balanceRight
    <3> QED
      BY <1>6, <3>1 DEF balanceRight
  <2>3. HandedOver(a)'
    BY <1>1, <1>4, <2>1 DEF HandedOver
  <2>4. \A i \in Shards : \A b : onItsWay(a, i, b) => onItsWay(a, i, b)'
    <3> TAKE i \in Shards
    <3> TAKE b
    <3> HAVE onItsWay(a, i, b)
    <3>1. i # s
      BY <1>11 DEF onItsWay
    <3> QED
      BY <1>4, <1>5, <1>6, <2>1, <3>1 DEF onItsWay
  <2>5. CopiesRight(a)'
    <3>1. ASSUME NEW m \in accountNet', inNet(a, m)'
          PROVE  onItsWay(a, m.to, m.AccountState[a])'
      BY <1>0, <1>1, <1>5, <1>7, <2>4, <3>1 DEF CopiesRight
    <3>2. ASSUME NEW i \in Shards, NEW j \in Shards, inStore(a, i, j)'
          PROVE  onItsWay(a, i, AccountStateTx[i][j].AccountState[a])'
      <4>1. i # s /\ onItsWay(a, i, AccountStateTx[i][j].AccountState[a])
        BY <1>1, <1>7, <3>2 DEF CopiesRight
      <4>2. AccountStateTx'[i] = AccountStateTx[i]
        BY <1>4, <4>1
      <4> QED
        BY <1>4, <1>5, <1>6, <2>1, <4>1, <4>2 DEF onItsWay
    <3>3. ASSUME NEW j \in Shards, inRequest(a, j)'
          PROVE  onItsWay(a, j, request[j].AccountState[a])'
      <4>1. j # s /\ onItsWay(a, j, request[j].AccountState[a])
        BY <1>1, <1>7, <3>3 DEF CopiesRight
      <4>2. request'[j] = request[j]
        BY <1>4, <4>1
      <4> QED
        BY <1>4, <1>5, <1>6, <2>1, <4>1, <4>2 DEF onItsWay
    <3> QED
      BY <3>1, <3>2, <3>3 DEF CopiesRight
  <2>6. OneCopy(a)'
    <3>1. ASSUME NEW m \in accountNet', inNet(a, m)'
          PROVE  /\ \A n \in accountNet' : inNet(a, n)' => n = m
                 /\ \A i \in Shards : ~inStore(a, m.to, i)'
                 /\ ~inRequest(a, m.to)'
      <4>1. inNet(a, m) /\ m \in accountNet /\ m.to \in Shards
        BY <1>0, <1>5, <1>7, <3>1
      <4>2. /\ \A n \in accountNet : inNet(a, n) => n = m
            /\ \A i \in Shards : ~inStore(a, m.to, i)
            /\ ~inRequest(a, m.to)
        BY <1>1, <4>1 DEF OneCopy
      <4> QED
        BY <1>5, <1>7, <4>1, <4>2
    <3> QED
      BY <3>1 DEF OneCopy
  <2> QED
    BY <2>2, <2>3, <2>5, <2>6 DEF AccountKept
<1> QED
  BY <1>10, <1>11

\* HandleinCommit: a block changes the balance and the expectation of an account
\* of its shard alike, and no balance of such an account is on its way.
LEMMA HandleinCommitKept ==
  ASSUME Typed, SameMaps, NEW a \in Accounts, AccountKept(a), NEW s \in Shards,
         HandleinCommit(s)
  PROVE  AccountKept(a)'
PROOF
<1> DEFINE b == request[s].txs
           st == GetUpdateStatusTrie(s, b)
           old == [trie |-> trie[s], debits |-> debits, credits |-> credits]
<1>0. DOMAIN request = Shards /\ DOMAIN trie = Shards /\ request[s] \in Requests
      /\ debits \in [Txs -> Nat] /\ credits \in [Txs -> Nat]
      /\ \A m \in accountNet : m.to \in Shards
  BY DEF Typed, CoreOK, MessagesOK, AccountMsgs
<1>1. balanceRight(a) /\ HandedOver(a) /\ CopiesRight(a) /\ OneCopy(a)
  BY DEF AccountKept
<1>2. /\ request[s].kind = "block" /\ request' = [request EXCEPT ![s] = Idle]
      /\ trie' = [trie EXCEPT ![s] = st.trie] /\ debits' = st.debits /\ credits' = st.credits
      /\ UNCHANGED <<modifiedMap, AccountTransferRound, PartitionMap, AccountStateTx, accountNet>>
  BY DEF HandleinCommit, committeeVars, dataVars
<1>3. b \in Seq(TxRec) /\ trie[s] \in AccountStates
  BY <1>0, <1>2, RequestFields, Rounds
<1>4. st \in BlockStates /\ alike(s, a, old, st)
  BY <1>0, <1>3, BlockAlike
<1>5. expected(a) = expects(old, a) /\ expected(a)' = expects(st, a)
  BY <1>2 DEF expected, expects
<1>6. expects(old, a) \in Int /\ expects(st, a) \in Int
  <2>1. old \in BlockStates
    BY <1>0, <1>3 DEF BlockStates
  <2> HIDE DEF old, st
  <2> QED
    BY <1>4, <2>1, ExpectsInt
<1>7. trie'[s] = st.trie /\ (\A j \in Shards \ {s} : trie'[j] = trie[j]) /\ old.trie = trie[s]
  BY <1>0, <1>2
<1> HIDE DEF st, old, b
<1>8. /\ ~moving(s)
      /\ \A j \in Shards : moving(j)' <=> moving(j)
      /\ \A j \in Shards : inRequest(a, j)' => inRequest(a, j) /\ request'[j] = request[j]
  BY <1>0, <1>2 DEF moving, Idle, inRequest
<1>9. HandedOver(a)'
  BY <1>1, <1>2, <1>8 DEF HandedOver
<1>10. /\ \A m : inNet(a, m)' <=> inNet(a, m)
       /\ \A i, j \in Shards : inStore(a, i, j)' <=> inStore(a, i, j)
       /\ \A j \in Shards : owns(j, a)' <=> owns(j, a)
  BY <1>2 DEF inNet, inStore, collected, owns
<1>11. CASE PartitionMap[s][a] = s
  <2>1. nowhere(a)
    BY <1>1, <1>8, <1>11, NoCopies
  <2>2. nowhere(a)'
    BY <1>2, <1>8, <1>10, <2>1 DEF nowhere
  <2>3. owns(s, a) /\ \A j \in Shards : owns(j, a) => j = s
    BY <1>1, <1>8, <1>11, HolderAlone
  <2>4. BalanceOf(trie[s], a) = expected(a)
    BY <1>1, <2>3 DEF balanceRight
  <2>5. BalanceOf(st.trie, a) - expects(st, a) = BalanceOf(trie[s], a) - expects(old, a)
    BY <1>4, <1>7, <1>11 DEF alike
  <2>6. BalanceOf(st.trie, a) \in Nat /\ BalanceOf(trie[s], a) \in Nat
    BY <1>3, <1>4, BalanceType DEF BlockStates
  <2>7. BalanceOf(st.trie, a) = expects(st, a)
    BY <1>5, <1>6, <2>4, <2>5, <2>6
  <2>8. balanceRight(a)'
    BY <1>5, <1>7, <1>10, <2>3, <2>7 DEF balanceRight
  <2> QED
    BY <1>9, <2>2, <2>8, NowhereRight DEF AccountKept
<1>12. CASE PartitionMap[s][a] # s
  <2>1. expected(a)' = expected(a)
    BY <1>4, <1>5, <1>12 DEF alike
  <2>2. balanceRight(a)'
    <3>1. ASSUME NEW j \in Shards, owns(j, a)' PROVE BalanceOf(trie'[j], a) = expected(a)
      <4>1. owns(j, a) /\ j # s
        BY <1>10, <1>12, <3>1 DEF owns
      <4> QED
        BY <1>1, <1>7, <4>1 DEF balanceRight
    <3> QED
      BY <2>1, <3>1 DEF balanceRight
  <2>3. CopiesRight(a)'
    <3>1. ASSUME NEW m \in accountNet', inNet(a, m)'
          PROVE  onItsWay(a, m.to, m.AccountState[a])'
      <4>1. onItsWay(a, m.to, m.AccountState[a])
        BY <1>1, <1>2, <1>10, <3>1 DEF CopiesRight
      <4> QED
        BY <1>2, <1>8, <2>1, <4>1 DEF onItsWay
    <3>2. ASSUME NEW i \in Shards, NEW j \in Shards, inStore(a, i, j)'
          PROVE  onItsWay(a, i, AccountStateTx[i][j].AccountState[a])'
      <4>1. onItsWay(a, i, AccountStateTx[i][j].AccountState[a])
        BY <1>1, <1>10, <3>2 DEF CopiesRight
      <4> QED
        BY <1>2, <1>8, <2>1, <4>1 DEF onItsWay
    <3>3. ASSUME NEW j \in Shards, inRequest(a, j)'
          PROVE  onItsWay(a, j, request[j].AccountState[a])'
      <4>1. onItsWay(a, j, request[j].AccountState[a]) /\ request'[j] = request[j]
        BY <1>1, <1>8, <3>3 DEF CopiesRight
      <4> QED
        BY <1>2, <1>8, <2>1, <4>1 DEF onItsWay
    <3> QED
      BY <3>1, <3>2, <3>3 DEF CopiesRight
  <2>4. OneCopy(a)'
    <3>1. ASSUME NEW m \in accountNet', inNet(a, m)'
          PROVE  /\ \A n \in accountNet' : inNet(a, n)' => n = m
                 /\ \A i \in Shards : ~inStore(a, m.to, i)'
                 /\ ~inRequest(a, m.to)'
      <4>1. inNet(a, m) /\ m \in accountNet /\ m.to \in Shards
        BY <1>0, <1>2, <1>10, <3>1
      <4>2. /\ \A n \in accountNet : inNet(a, n) => n = m
            /\ \A i \in Shards : ~inStore(a, m.to, i)
            /\ ~inRequest(a, m.to)
        BY <1>1, <4>1 DEF OneCopy
      <4> QED
        BY <1>2, <1>8, <1>10, <4>1, <4>2
    <3> QED
      BY <3>1 DEF OneCopy
  <2> QED
    BY <1>9, <2>2, <2>3, <2>4 DEF AccountKept
<1> QED
  BY <1>11, <1>12

\* The steps that move no account and no money.
LEMMA OtherStepsKept ==
  ASSUME Typed, NEW a, AccountKept(a),
         \/ \E t \in Txs : txSending(t)
         \/ \E m \in injectNet : handleInjectTx(m)
         \/ \E m \in relayNet : handleRelay(m)
         \/ \E s \in Shards : handlePartitionMsg(s)
         \/ UNCHANGED vars
  PROVE  AccountKept(a)'
PROOF
<1>1. UNCHANGED <<modifiedMap, AccountTransferRound, PartitionMap, trie, debits, credits,
                  accountNet, AccountStateTx, request>>
  BY DEF txSending, handleInjectTx, handleRelay, handlePartitionMsg, vars, committeeVars,
         chainVars, dataVars, netVars, history
<1>2. /\ \A s \in Shards : moving(s)' <=> moving(s)
      /\ \A s \in Shards : request'[s].kind = "partition" => request'[s] = request[s]
  BY <1>1 DEF moving
<1> QED
  BY <1>1, <1>2, KeptFrame

LEMMA GenerateBlockKept ==
  ASSUME Typed, NEW a, AccountKept(a), NEW s \in Shards, GenerateBlock(s)
  PROVE  AccountKept(a)'
PROOF
<1>1. DOMAIN request = Shards
  BY DEF Typed, MessagesOK
<1>2. /\ request[s] = Idle
      /\ request' = [request EXCEPT ![s] = [kind |-> "block", txs |-> PackTxs(s)]]
      /\ UNCHANGED <<modifiedMap, AccountTransferRound, PartitionMap, trie, debits, credits,
                     accountNet, AccountStateTx>>
  BY DEF GenerateBlock, committeeVars, chainVars, dataVars, netVars, history
<1>3. request'[s].kind = "block" /\ \A i \in Shards \ {s} : request'[i] = request[i]
  BY <1>1, <1>2
<1>4. \A i \in Shards : moving(i)' <=> moving(i)
  BY <1>2, <1>3 DEF moving, Idle
<1>5. \A i \in Shards : request'[i].kind = "partition" => request'[i] = request[i]
  BY <1>3
<1> QED
  BY <1>2, <1>4, <1>5, KeptFrame

\* The accounts whose state was late are never taken back.
LEMMA ResetStays ==
  ASSUME [Next]_vars
  PROVE  reset \subseteq reset'
BY DEF Next, Deliver, ShardStep, txSending, clpaMapSend, handleInjectTx, handleRelay,
       handleAccountStateAndTxMsg, handlePartitionMsg, GenerateBlock, HandleinCommit,
       sendAccounts_and_Txs, proposePartition, accountTransfer_do, history, vars

LEMMA BalancedStep ==
  ASSUME Typed, Balanced, [Next]_vars
  PROVE  Balanced'
PROOF
<1>1. SameMaps /\ SameMaps'
  BY SameMapsStep DEF Balanced
<1>2. ASSUME NEW a \in Accounts, a \notin reset' PROVE AccountKept(a)'
  <2>1. AccountKept(a)
    BY <1>2, ResetStays DEF Balanced
  <2>2. CASE \/ \E t \in Txs : txSending(t)
             \/ \E m \in injectNet : handleInjectTx(m)
             \/ \E m \in relayNet : handleRelay(m)
             \/ \E s \in Shards : handlePartitionMsg(s)
             \/ UNCHANGED vars
    BY <2>1, <2>2, OtherStepsKept
  <2>3. CASE clpaMapSend
    BY <2>1, <2>3, clpaMapSendKept
  <2>4. CASE \E m \in accountNet : handleAccountStateAndTxMsg(m)
    BY <2>1, <2>4, handleAccountKept
  <2>5. ASSUME NEW s \in Shards, GenerateBlock(s) PROVE AccountKept(a)'
    BY <2>1, <2>5, GenerateBlockKept
  <2>6. ASSUME NEW s \in Shards, HandleinCommit(s) PROVE AccountKept(a)'
    BY <1>1, <2>1, <2>6, HandleinCommitKept
  <2>7. ASSUME NEW s \in Shards, sendAccounts_and_Txs(s) PROVE AccountKept(a)'
    BY <1>1, <2>1, <2>7, sendAccountsKept
  <2>8. ASSUME NEW s \in Shards, proposePartition(s) PROVE AccountKept(a)'
    BY <2>1, <2>8, proposePartitionKept
  <2>9. ASSUME NEW s \in Shards, accountTransfer_do(s) PROVE AccountKept(a)'
    BY <1>1, <1>2, <2>1, <2>9, accountTransferKept
  <2> QED
    BY <2>2, <2>3, <2>4, <2>5, <2>6, <2>7, <2>8, <2>9 DEF Next, Deliver, ShardStep
<1> QED
  BY <1>1, <1>2 DEF Balanced

LEMMA InitBalanced ==
  ASSUME Init
  PROVE  Balanced
PROOF
<1>1. SameMaps
  BY DEF Init, SameMaps
<1>2. ASSUME NEW a \in Accounts PROVE AccountKept(a)
  <2> DEFINE R == {t \in Txs : Recipient[t] = a}
             S == {t \in Txs : Sender[t] = a}
  <2>1. IsFiniteSet(R) /\ IsFiniteSet(S)
    BY ReshardAssumption, FS_Subset
  <2>2. \A t \in Txs : valueOf(credits)[t] = 0 /\ valueOf(debits)[t] = 0
    BY ReshardAssumption DEF Init, valueOf
  <2>3. SumFunctionOnSet(valueOf(credits), R) = 0 /\ SumFunctionOnSet(valueOf(debits), S) = 0
    BY <2>1, <2>2, SumZero
  <2>4. expected(a) = InitBalance
    BY <2>3, ReshardAssumption DEF expected, expectedBy
  <2>5. \A s \in Shards : BalanceOf(trie[s], a) = InitBalance
    BY DEF Init, BalanceOf, EmptyMap
  <2>6. balanceRight(a)
    BY <2>4, <2>5 DEF balanceRight
  <2>7. HandedOver(a)
    BY DEF Init, HandedOver
  <2>8. nowhere(a)
    BY DEF Init, nowhere, inNet, inStore, inRequest, collected, EmptyMap, Idle
  <2>9. CopiesRight(a) /\ OneCopy(a)
    BY <2>8 DEF CopiesRight, OneCopy, nowhere
  <2> QED
    BY <2>6, <2>7, <2>9 DEF AccountKept
<1> QED
  BY <1>1, <1>2 DEF Balanced

\* The balance of an account is what its transactions make it, in the shard that
\* answers for it, however the account moves and whatever blocks and partitions
\* of other shards come in between, unless its state was late (BalanceKept).
THEOREM BalancesKept == Spec => []BalanceKept
PROOF
<1>1. Init => Typed /\ OnePlace /\ Balanced
  BY InitTyped, InitOnePlace, InitBalanced
<1>2. Typed /\ OnePlace /\ Balanced /\ [Next]_vars => (Typed /\ OnePlace /\ Balanced)'
  BY NextOnePlace, BalancedStep
<1>3. Balanced => BalanceKept
  BY DEF Balanced, AccountKept, BalanceKept
<1> QED
  BY <1>1, <1>2, <1>3, PTL DEF Spec

=============================================================================
