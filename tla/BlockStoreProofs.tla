-------------------------- MODULE BlockStoreProofs --------------------------
(***************************************************************************)
(* What is on disk is enough to start from, wherever the process ended,    *)
(* for any number of blocks and crashes.                                   *)
(***************************************************************************)
EXTENDS BlockStore, TLAPS

\* An element of a sequence.
LEMMA ElementOf ==
  ASSUME NEW S, NEW q \in Seq(S), NEW i \in 1 .. Len(q)
  PROVE  q[i] \in S
OBVIOUS

\* The fields of an older block are read from a longer list as they were.
LEMMA OldBlocks ==
  ASSUME made \in Seq([Number : Nat, ParentBlockHash : Blocks, StateRoot : Blocks]),
         NEW x, made' = Append(made, x), NEW b \in Int, b <= Len(made), b >= 0
  PROVE  /\ Parent(b)' = Parent(b) /\ StateRoot(b)' = StateRoot(b)
         /\ b # Genesis => made'[b] = made[b]
BY DEF Parent, StateRoot, Genesis

\* The fields of the block that was appended.
LEMMA LastBlock ==
  ASSUME made \in Seq([Number : Nat, ParentBlockHash : Blocks, StateRoot : Blocks]),
         NEW p, NEW r, made' = Append(made, NewBlock(p, r)),
         NEW n \in Nat, n = Len(made) + 1
  PROVE  Len(made') = n /\ Parent(n)' = p /\ StateRoot(n)' = r
<1>1. made'[n] = NewBlock(p, r) /\ n # Genesis /\ Len(made') = n
  BY DEF Genesis
<1> QED
  BY <1>1 DEF Parent, StateRoot, NewBlock

\* A list of blocks stays one when a block on an existing one is added.
LEMMA MadeGrows ==
  ASSUME TypeOK, NamesMade, MaxBlocks \in Nat,
         NEW p \in Blocks, p <= Len(made), NEW r \in Blocks, Len(made) < MaxBlocks,
         made' = Append(made, NewBlock(p, r))
  PROVE  /\ made' \in Seq([Number : Nat, ParentBlockHash : Blocks, StateRoot : Blocks])
         /\ Len(made') <= MaxBlocks
         /\ \A b \in 1 .. Len(made') : made'[b].ParentBlockHash < b
<1>1. Number(p) \in Nat
  <2>1. CASE p = Genesis
    BY <2>1 DEF Number
  <2>2. CASE p # Genesis
    <3>1. made \in Seq([Number : Nat, ParentBlockHash : Blocks, StateRoot : Blocks])
      BY DEF TypeOK
    <3>2. p \in 1 .. Len(made)
      BY <2>2, <3>1 DEF Genesis, Blocks
    <3>3. made[p] \in [Number : Nat, ParentBlockHash : Blocks, StateRoot : Blocks]
      BY <3>1, <3>2, ElementOf
    <3> QED
      BY <2>2, <3>3 DEF Number
  <2> QED
    BY <2>1, <2>2
<1>2. NewBlock(p, r) \in [Number : Nat, ParentBlockHash : Blocks, StateRoot : Blocks]
  BY <1>1 DEF NewBlock
<1>3. NewBlock(p, r).ParentBlockHash = p
  BY DEF NewBlock
<1>4. \A b \in 1 .. Len(made) : made[b].ParentBlockHash < b
  BY DEF NamesMade
<1>5. made \in Seq([Number : Nat, ParentBlockHash : Blocks, StateRoot : Blocks])
  BY DEF TypeOK
<1>6. p < Len(made) + 1
  BY <1>5 DEF Blocks
<1> HIDE DEF NewBlock
<1>7. \A b \in 1 .. Len(made') : made'[b].ParentBlockHash < b
  <2> TAKE b \in 1 .. Len(made')
  <2>1. CASE b <= Len(made)
    BY <2>1, <1>4, <1>5
  <2>2. CASE b = Len(made) + 1
    BY <2>2, <1>3, <1>5, <1>6
  <2> QED
    BY <2>1, <2>2, <1>5
<1> QED
  BY <1>2, <1>5, <1>7

-----------------------------------------------------------------------------

LEMMA InitStore == Init => StoreInv
<1> SUFFICES ASSUME Init PROVE StoreInv
  OBVIOUS
<1>1. Len(made) = 0 /\ made = <<>>
  BY DEF Init
<1>5. made \in Seq([Number : Nat, ParentBlockHash : Blocks, StateRoot : Blocks])
  BY <1>1
<1>6. Genesis \in Blocks
  BY BoundsAssumption DEF Genesis, Blocks
<1>7. Len(made) <= MaxBlocks
  BY <1>1, BoundsAssumption
<1>2. TypeOK
  BY <1>5, <1>6, <1>7 DEF Init, TypeOK
<1>3. NamesMade
  BY <1>1 DEF Init, NamesMade, Genesis, None
<1>4. TriesFirst /\ WriterAt /\ NoPanic /\ ChainReadable
  BY DEF Init, TriesFirst, WriterAt, NoPanic, ChainReadable
<1> QED
  BY <1>2, <1>3, <1>4 DEF StoreInv

LEMMA GenerateKeeps ==
  ASSUME StoreInv, NEW leads \in BOOLEAN, NEW root \in 0 .. MaxBlocks,
         GenerateBlock(leads, root)
  PROVE  StoreInv'
<1> USE BoundsAssumption
<1>1. /\ tip \in Blocks /\ tip <= Len(made) /\ CurrentBlock \in Blocks
      /\ made' = Append(made, NewBlock(tip, root)) /\ Len(made) < MaxBlocks
      /\ root \in Blocks /\ pc = "idle" /\ ~panicked
  BY DEF StoreInv, TypeOK, NamesMade, TriesFirst, GenerateBlock, running, Blocks, None
<1>2. /\ made \in Seq([Number : Nat, ParentBlockHash : Blocks, StateRoot : Blocks])
      /\ Len(made) \in Nat
  BY DEF StoreInv, TypeOK
<1>3. /\ made' \in Seq([Number : Nat, ParentBlockHash : Blocks, StateRoot : Blocks])
      /\ Len(made') <= MaxBlocks
      /\ \A b \in 1 .. Len(made') : made'[b].ParentBlockHash < b
  BY <1>1, MadeGrows DEF StoreInv
<1>4. Len(made') = Len(made) + 1
  BY <1>1, <1>2
<1>5. /\ panicked' = panicked /\ triedb \subseteq triedb' /\ triedb' \subseteq triedb \cup {root}
  BY <1>1 DEF StoreInv, TriesFirst, GenerateBlock, running
<1>6. TypeOK'
  BY <1>1, <1>2, <1>3, <1>5 DEF StoreInv, TypeOK, GenerateBlock, Blocks, NoPanic
<1>7. NamesMade'
  BY <1>1, <1>2, <1>3, <1>4 DEF StoreInv, TypeOK, NamesMade, GenerateBlock, Blocks, None
<1>8. \A b \in Blocks : b <= Len(made) => Parent(b)' = Parent(b) /\ StateRoot(b)' = StateRoot(b)
  BY <1>1, <1>2, OldBlocks DEF Blocks
<1>9. TriesFirst' /\ WriterAt'
  BY <1>1, <1>2, <1>5, <1>8
     DEF StoreInv, TypeOK, NamesMade, TriesFirst, WriterAt, GenerateBlock, Blocks, None
<1>10. NoPanic' /\ ChainReadable'
  BY <1>1, <1>5, <1>8 DEF StoreInv, TypeOK, NamesMade, NoPanic, ChainReadable, GenerateBlock, Blocks
<1> QED
  BY <1>6, <1>7, <1>9, <1>10 DEF StoreInv

LEMMA AddAccountsKeeps ==
  ASSUME StoreInv, NEW root \in 0 .. MaxBlocks, AddAccounts(root)
  PROVE  StoreInv'
<1> USE BoundsAssumption
<1>1. /\ CurrentBlock \in Blocks /\ CurrentBlock <= Len(made) /\ CurrentBlock # None
      /\ made' = Append(made, NewBlock(CurrentBlock, root)) /\ Len(made) < MaxBlocks
      /\ root \in Blocks /\ pc = "idle" /\ ~panicked
      /\ StateRoot(CurrentBlock) \in triedb
  BY DEF StoreInv, TypeOK, NamesMade, TriesFirst, AddAccounts, running, Blocks, None
<1>2. /\ made \in Seq([Number : Nat, ParentBlockHash : Blocks, StateRoot : Blocks])
      /\ Len(made) \in Nat
  BY DEF StoreInv, TypeOK
<1>3. /\ made' \in Seq([Number : Nat, ParentBlockHash : Blocks, StateRoot : Blocks])
      /\ Len(made') <= MaxBlocks
      /\ \A b \in 1 .. Len(made') : made'[b].ParentBlockHash < b
  BY <1>1, MadeGrows DEF StoreInv
<1>4. PICK n \in Nat : n = Len(made) + 1
  BY <1>2
<1>13. Len(made') = n /\ (Parent(n)' = CurrentBlock) /\ StateRoot(n)' = root
  BY <1>1, <1>2, <1>4, LastBlock
<1>5. /\ panicked' = panicked /\ pc' = "current"
      /\ triedb \subseteq triedb' /\ triedb' \subseteq triedb \cup {root} /\ root \in triedb'
  BY <1>1 DEF AddAccounts
<1>6. TypeOK'
  BY <1>1, <1>2, <1>3, <1>5 DEF StoreInv, TypeOK, AddAccounts, Blocks, NoPanic
<1>7. NamesMade'
  BY <1>1, <1>2, <1>3, <1>4, <1>13 DEF StoreInv, TypeOK, NamesMade, AddAccounts, Blocks, None
<1>8. \A b \in Blocks : b <= Len(made) => Parent(b)' = Parent(b) /\ StateRoot(b)' = StateRoot(b)
  BY <1>1, <1>2, OldBlocks DEF Blocks
<1>9. /\ writing' = n /\ tip' = n /\ CurrentBlock' = CurrentBlock
      /\ newestBlockHash' = newestBlockHash /\ blockBucket' = blockBucket
  BY <1>4 DEF AddAccounts
<1>14. (newestBlockHash # None =>
          newestBlockHash \in blockBucket /\ StateRoot(newestBlockHash) \in triedb)'
  BY <1>5, <1>8, <1>9 DEF StoreInv, TypeOK, NamesMade, TriesFirst
<1>19. StateRoot(CurrentBlock)' = StateRoot(CurrentBlock)
  BY <1>1, <1>9, <1>8
<1>15. (StateRoot(CurrentBlock) \in triedb)' /\ tip' # None
  <2>1. (StateRoot(CurrentBlock) \in triedb)'
    BY <1>1, <1>5, <1>19
  <2>2. tip' # None
    BY <1>9 DEF None
  <2> QED
    BY <2>1, <2>2
<1>16. (StateRoot(writing) \in triedb)'
  BY <1>5, <1>9, <1>13
<1>17. (Genesis \in triedb)'
  BY <1>5 DEF StoreInv, TriesFirst, Genesis
<1>18. pc' \notin {"header", "newest"}
  BY <1>5
<1>10. TriesFirst'
  BY <1>14, <1>15, <1>16, <1>17, <1>18 DEF TriesFirst
<1>11. WriterAt'
  BY <1>1, <1>2, <1>4, <1>13, <1>5, <1>8, <1>9
     DEF StoreInv, TypeOK, NamesMade, WriterAt, Blocks, None, Genesis
<1>12. NoPanic' /\ ChainReadable'
  BY <1>1, <1>5, <1>8, <1>9 DEF StoreInv, TypeOK, NamesMade, NoPanic, ChainReadable, Blocks
<1> QED
  BY <1>6, <1>7, <1>10, <1>11, <1>12 DEF StoreInv

\* The steps that make no block leave all fields of blocks alone.
LEMMA SameBlocks ==
  ASSUME UNCHANGED made, NEW b
  PROVE  Parent(b)' = Parent(b) /\ StateRoot(b)' = StateRoot(b) /\ Number(b)' = Number(b)
BY DEF Parent, StateRoot, Number

LEMMA AddBlockKeeps ==
  ASSUME StoreInv, NEW b \in 1 .. MaxBlocks, AddBlock(b)
  PROVE  StoreInv'
<1> USE BoundsAssumption
<1>1. UNCHANGED made
  BY DEF AddBlock
<1>6. b \in Blocks /\ b <= Len(made)
  BY DEF StoreInv, TypeOK, AddBlock, Blocks
<1>7. TypeOK'
  BY <1>1, <1>6 DEF StoreInv, TypeOK, AddBlock, diskVars
<1>8. NamesMade' /\ NoPanic'
  BY <1>1, <1>6 DEF StoreInv, NamesMade, NoPanic, AddBlock, diskVars
<1>2. TypeOK' /\ NamesMade' /\ NoPanic'
  BY <1>7, <1>8
<1>3. TriesFirst'
  BY <1>1, SameBlocks DEF StoreInv, TriesFirst, AddBlock, diskVars
<1>4. WriterAt'
  BY <1>1, SameBlocks DEF StoreInv, WriterAt, AddBlock, diskVars, running, Genesis
<1>5. ChainReadable'
  BY <1>1, SameBlocks DEF StoreInv, ChainReadable, AddBlock, diskVars
<1> QED
  BY <1>2, <1>3, <1>4, <1>5 DEF StoreInv

LEMMA ExecuteKeeps == StoreInv /\ executeBlock => StoreInv'
<1> SUFFICES ASSUME StoreInv, executeBlock PROVE StoreInv'
  OBVIOUS
<1> USE BoundsAssumption
<1>1. UNCHANGED made
  BY DEF executeBlock
<1>2. /\ pc' = "current" /\ panicked' = panicked /\ StateRoot(writing) \in triedb'
      /\ triedb \subseteq triedb' /\ triedb' \subseteq triedb \cup {StateRoot(writing)}
  BY DEF StoreInv, TriesFirst, WriterAt, executeBlock
<1>3. StateRoot(writing) \in Blocks
  <2>1. writing \in 1 .. Len(made) /\ writing # Genesis
    BY DEF StoreInv, TypeOK, NamesMade, WriterAt, executeBlock, Genesis, Blocks
  <2>2. made[writing] \in [Number : Nat, ParentBlockHash : Blocks, StateRoot : Blocks]
    <3>1. made \in Seq([Number : Nat, ParentBlockHash : Blocks, StateRoot : Blocks])
      BY DEF StoreInv, TypeOK
    <3> QED
      BY <2>1, <3>1, ElementOf
  <2> QED
    BY <2>1, <2>2 DEF StateRoot
<1>4. TypeOK'
  BY <1>1, <1>2, <1>3 DEF StoreInv, TypeOK, executeBlock
<1>5. NamesMade' /\ NoPanic'
  BY <1>1, <1>2 DEF StoreInv, NamesMade, NoPanic, executeBlock
<1>6. TriesFirst'
  BY <1>1, <1>2, SameBlocks DEF StoreInv, TriesFirst, executeBlock
<1>7. WriterAt'
  BY <1>1, <1>2, SameBlocks DEF StoreInv, WriterAt, executeBlock
<1>8. ChainReadable'
  BY <1>1, SameBlocks DEF StoreInv, ChainReadable, executeBlock
<1> QED
  BY <1>4, <1>5, <1>6, <1>7, <1>8 DEF StoreInv

LEMMA SetCurrentKeeps == StoreInv /\ setCurrentBlock => StoreInv'
<1> SUFFICES ASSUME StoreInv, setCurrentBlock PROVE StoreInv'
  OBVIOUS
<1>1. UNCHANGED made
  BY DEF setCurrentBlock
<1>2. TypeOK' /\ NamesMade' /\ NoPanic'
  BY DEF StoreInv, TypeOK, NamesMade, NoPanic, setCurrentBlock, diskVars
<1>3. TriesFirst'
  BY <1>1, SameBlocks DEF StoreInv, TriesFirst, WriterAt, setCurrentBlock, diskVars
<1>4. WriterAt'
  BY <1>1, SameBlocks DEF StoreInv, TypeOK, WriterAt, setCurrentBlock, diskVars, Blocks, None
<1>5. ChainReadable'
  BY <1>1, SameBlocks DEF StoreInv, ChainReadable, setCurrentBlock, diskVars
<1> QED
  BY <1>2, <1>3, <1>4, <1>5 DEF StoreInv

LEMMA PutBlockKeeps == StoreInv /\ putBlock => StoreInv'
<1> SUFFICES ASSUME StoreInv, putBlock PROVE StoreInv'
  OBVIOUS
<1>1. UNCHANGED made
  BY DEF putBlock
<1>2. TypeOK' /\ NamesMade' /\ NoPanic'
  BY DEF StoreInv, TypeOK, NamesMade, NoPanic, putBlock, Blocks
<1>3. TriesFirst'
  BY <1>1, SameBlocks DEF StoreInv, TriesFirst, putBlock
<1>4. WriterAt'
  BY <1>1, SameBlocks DEF StoreInv, WriterAt, putBlock
<1>5. writing # Genesis => Parent(writing) \in blockBucket
  BY DEF StoreInv, TriesFirst, WriterAt, putBlock
<1>6. ChainReadable'
  BY <1>1, <1>5, SameBlocks DEF StoreInv, ChainReadable, putBlock
<1> QED
  BY <1>2, <1>3, <1>4, <1>6 DEF StoreInv

LEMMA PutHeaderKeeps == StoreInv /\ AddBlockHeader => StoreInv'
<1> SUFFICES ASSUME StoreInv, AddBlockHeader PROVE StoreInv'
  OBVIOUS
<1>1. UNCHANGED made
  BY DEF AddBlockHeader
<1>2. TypeOK' /\ NamesMade' /\ NoPanic'
  BY DEF StoreInv, TypeOK, NamesMade, NoPanic, AddBlockHeader
<1>3. TriesFirst' /\ WriterAt' /\ ChainReadable'
  BY <1>1, SameBlocks DEF StoreInv, TriesFirst, WriterAt, ChainReadable, AddBlockHeader
<1> QED
  BY <1>2, <1>3 DEF StoreInv

LEMMA PutNewestKeeps == StoreInv /\ UpdateNewestBlock => StoreInv'
<1> SUFFICES ASSUME StoreInv, UpdateNewestBlock PROVE StoreInv'
  OBVIOUS
<1>1. UNCHANGED made
  BY DEF UpdateNewestBlock
<1>2. TypeOK' /\ NamesMade' /\ NoPanic'
  BY DEF StoreInv, TypeOK, NamesMade, NoPanic, UpdateNewestBlock
<1>3. TriesFirst' /\ ChainReadable'
  BY <1>1, SameBlocks DEF StoreInv, TriesFirst, ChainReadable, UpdateNewestBlock
<1>4. WriterAt'
  BY <1>1, SameBlocks DEF StoreInv, TypeOK, WriterAt, UpdateNewestBlock, Blocks, None
<1> QED
  BY <1>2, <1>3, <1>4 DEF StoreInv

LEMMA GenesisKeeps == StoreInv /\ AddGenisisBlock => StoreInv'
<1> SUFFICES ASSUME StoreInv, AddGenisisBlock PROVE StoreInv'
  OBVIOUS
<1>1. UNCHANGED made
  BY DEF AddGenisisBlock
<1>2. TypeOK' /\ NamesMade' /\ NoPanic'
  BY BoundsAssumption
     DEF StoreInv, TypeOK, NamesMade, NoPanic, AddGenisisBlock, diskVars, Blocks, Genesis
<1>3. StateRoot(Genesis) = Genesis
  BY DEF StateRoot
<1>4. TriesFirst'
  BY <1>1, <1>3, SameBlocks DEF StoreInv, TriesFirst, AddGenisisBlock, diskVars
<1>5. WriterAt' /\ ChainReadable'
  BY <1>1, SameBlocks DEF StoreInv, WriterAt, ChainReadable, AddGenisisBlock, diskVars
<1> QED
  BY <1>2, <1>4, <1>5 DEF StoreInv

LEMMA LoadKeeps == StoreInv /\ NewBlockChain => StoreInv'
<1> SUFFICES ASSUME StoreInv, NewBlockChain PROVE StoreInv'
  OBVIOUS
<1>1. UNCHANGED made
  BY DEF NewBlockChain
<1>2. /\ CurrentBlock' = newestBlockHash /\ tip' = newestBlockHash /\ pc' = "idle"
      /\ panicked' = panicked /\ newestBlockHash # None
  BY DEF StoreInv, TriesFirst, NewBlockChain
<1>3. TypeOK' /\ NamesMade' /\ NoPanic'
  BY <1>2 DEF StoreInv, TypeOK, NamesMade, NoPanic, NewBlockChain, diskVars
<1>4. TriesFirst'
  BY <1>1, <1>2, SameBlocks DEF StoreInv, TriesFirst, NewBlockChain, diskVars
<1>5. WriterAt' /\ ChainReadable'
  BY <1>1, <1>2, SameBlocks DEF StoreInv, WriterAt, ChainReadable, NewBlockChain, diskVars
<1> QED
  BY <1>3, <1>4, <1>5 DEF StoreInv

LEMMA CrashKeeps == StoreInv /\ Crash => StoreInv'
<1> SUFFICES ASSUME StoreInv, Crash PROVE StoreInv'
  OBVIOUS
<1>1. UNCHANGED made
  BY DEF Crash
<1>2. TypeOK' /\ NamesMade' /\ NoPanic'
  BY DEF StoreInv, TypeOK, NamesMade, NoPanic, Crash, diskVars, None
<1>3. TriesFirst' /\ WriterAt' /\ ChainReadable'
  BY <1>1, SameBlocks DEF StoreInv, TriesFirst, WriterAt, ChainReadable, Crash, diskVars
<1> QED
  BY <1>2, <1>3 DEF StoreInv

LEMMA StutterKeeps == StoreInv /\ UNCHANGED vars => StoreInv'
<1> SUFFICES ASSUME StoreInv, UNCHANGED vars PROVE StoreInv'
  OBVIOUS
<1>1. UNCHANGED made
  BY DEF vars
<1>2. TypeOK' /\ NamesMade' /\ NoPanic'
  BY DEF StoreInv, TypeOK, NamesMade, NoPanic, vars, diskVars
<1>3. TriesFirst' /\ WriterAt' /\ ChainReadable'
  BY <1>1, SameBlocks DEF StoreInv, TriesFirst, WriterAt, ChainReadable, vars, diskVars
<1> QED
  BY <1>2, <1>3 DEF StoreInv

LEMMA StoreStep == StoreInv /\ [Next]_vars => StoreInv'
BY GenerateKeeps, AddAccountsKeeps, AddBlockKeeps, ExecuteKeeps, SetCurrentKeeps,
   PutBlockKeeps, PutHeaderKeeps, PutNewestKeeps, GenesisKeeps, LoadKeeps, CrashKeeps,
   StutterKeeps DEF Next

-----------------------------------------------------------------------------

\* The inductive invariant: the trie reaches the disk before its block is the
\* current one, the block before its hash is the newest, and the newest block
\* is the current one or its parent.
THEOREM StoreInvariant == Spec => []StoreInv
BY InitStore, StoreStep, PTL DEF Spec

\* The buckets, the newest hash and the fields of BlockChain keep their types.
THEOREM StoreTypes == Spec => []TypeOK
<1>1. StoreInv => TypeOK
  BY DEF StoreInv
<1> QED
  BY <1>1, StoreInvariant, PTL

\* NewBlockChain and the execution of blocks never panic over a block or trie
\* that is not on disk, wherever Storage.AddBlock was interrupted.
THEOREM RestartSafe == Spec => []NoPanic
<1>1. StoreInv => NoPanic
  BY DEF StoreInv
<1> QED
  BY <1>1, StoreInvariant, PTL

\* Every block in the block bucket can be read back to Genesis.
THEOREM StoredChain == Spec => []ChainReadable
<1>1. StoreInv => ChainReadable
  BY DEF StoreInv
<1> QED
  BY <1>1, StoreInvariant, PTL

\* UpdateNewestBlock only replaces a hash by that of a child of its block.
THEOREM NewestOnlyGrows == Spec => NewestGrows
<1> DEFINE Grows ==
      newestBlockHash # None /\ newestBlockHash' # newestBlockHash
        => newestBlockHash' \in 1 .. Len(made) /\ Parent(newestBlockHash') = newestBlockHash
<1>1. StoreInv /\ [Next]_vars => [Grows]_vars
  <2> SUFFICES ASSUME StoreInv, Next, newestBlockHash' # newestBlockHash, newestBlockHash # None
               PROVE  newestBlockHash' \in 1 .. Len(made) /\ Parent(newestBlockHash') = newestBlockHash
    OBVIOUS
  <2>1. UpdateNewestBlock
    BY DEF Next, GenerateBlock, AddBlock, executeBlock, AddAccounts, setCurrentBlock, putBlock,
           AddBlockHeader, AddGenisisBlock, NewBlockChain, Crash, diskVars
  <2>2. writing # Genesis /\ Parent(writing) = newestBlockHash
    BY <2>1 DEF StoreInv, WriterAt, UpdateNewestBlock
  <2>3. writing \in 1 .. Len(made)
    BY <2>2 DEF StoreInv, TypeOK, NamesMade, Blocks, Genesis
  <2> QED
    BY <2>1, <2>2, <2>3 DEF UpdateNewestBlock
<1> QED
  BY <1>1, StoreInvariant, PTL DEF Spec, NewestGrows

=============================================================================
