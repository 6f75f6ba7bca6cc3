----------------------------- MODULE BlockStore -----------------------------
(***************************************************************************)
(* What a node of a shard keeps on disk (storage/storage.go, the bolt      *)
(* database of blocks, and the trie database of chain/blockchain.go), the  *)
(* order in which a block reaches it, and what NewBlockChain finds there   *)
(* when the process has ended between two of the writes.                   *)
(*                                                                         *)
(* Each database transaction is one step.  AddBlock is called for one      *)
(* block at a time here (handleCommit holds pbftLock).  All nodes of the   *)
(* shard stop and start together, so the leader goes on from what the node *)
(* has loaded.  A block is named by a number of its own, as its hash covers *)
(* the time it was made at; Genesis is block 0.  The root of a state is    *)
(* named after the first block that has it; an empty block has the root of *)
(* its parent, and Genesis the empty trie, which needs no node on disk.    *)
(***************************************************************************)
EXTENDS Integers, Sequences

CONSTANTS MaxBlocks,  \* blocks made in a run
          MaxCrashes  \* ends of the process

ASSUME BoundsAssumption == MaxBlocks \in Nat /\ MaxCrashes \in Nat

Genesis == 0
None == -1

VARIABLES
  made,              \* the blocks made so far, without Genesis
  \* the disk
  blockBucket, blockHeaderBucket, newestBlockHash,
  triedb,            \* the roots whose tries can be read
  \* the process
  CurrentBlock,      \* None before NewBlockChain has loaded it
  tip,               \* the block the leader of the shard is at
  pc, writing,       \* the next write, and the block it is for
  panicked,          \* log.Panic was called
  crashes

diskVars == <<blockBucket, blockHeaderBucket, newestBlockHash, triedb>>
vars == <<made, diskVars, CurrentBlock, tip, pc, writing, panicked, crashes>>

Number(b)    == IF b = Genesis THEN 0 ELSE made[b].Number
Parent(b)    == IF b = Genesis THEN None ELSE made[b].ParentBlockHash
StateRoot(b) == IF b = Genesis THEN Genesis ELSE made[b].StateRoot

\* Mutant of NewBlock: the heights run the wrong way.
NewBlockBelow(parent, root) ==
  [Number |-> Number(parent) - 1, ParentBlockHash |-> parent, StateRoot |-> root]

\* The header that GenerateBlock and AddAccounts make.
NewBlock(parent, root) ==
  [Number |-> Number(parent) + 1, ParentBlockHash |-> parent, StateRoot |-> root]

-----------------------------------------------------------------------------
(***************************************************************************)
(* Making a block.                                                         *)
(***************************************************************************)

running == CurrentBlock # None /\ ~panicked

\* The transactions of a block change the state, or there are none that do.
rootsAfter(b) == {Len(made) + 1, StateRoot(b)}

\* The leader of the shard makes a block on the one it is at; if that is this
\* node, GetUpdateStatusTrie builds on its state and commits the new trie.
GenerateBlock(leads, root) ==
  /\ running /\ pc = "idle" /\ Len(made) < MaxBlocks
  /\ leads => tip = CurrentBlock
  /\ root \in rootsAfter(tip)
  /\ made' = Append(made, NewBlock(tip, root))
  /\ tip' = Len(made) + 1
  /\ IF ~leads \/ root = StateRoot(tip) THEN UNCHANGED <<triedb, panicked>>
     ELSE IF StateRoot(CurrentBlock) \in triedb
     THEN triedb' = triedb \cup {root} /\ UNCHANGED panicked
     ELSE panicked' = TRUE /\ UNCHANGED triedb
  /\ UNCHANGED <<blockBucket, blockHeaderBucket, newestBlockHash, CurrentBlock,
                 pc, writing, crashes>>

-----------------------------------------------------------------------------
(***************************************************************************)
(* Adding a block.                                                         *)
(***************************************************************************)

\* Mutant of AddBlock: the parent is not compared.
AddBlockAnyParent(b) ==
  /\ running /\ pc = "idle"
  /\ b \in 1 .. Len(made)
  /\ Number(b) = Number(CurrentBlock) + 1
  /\ writing' = b /\ pc' = "execute"
  /\ UNCHANGED <<made, diskVars, CurrentBlock, tip, panicked, crashes>>

\* AddBlock: a block that does not follow the current one is passed over.
AddBlock(b) ==
  /\ running /\ pc = "idle"
  /\ b \in 1 .. Len(made)
  /\ Number(b) = Number(CurrentBlock) + 1 /\ Parent(b) = CurrentBlock
  /\ writing' = b /\ pc' = "execute"
  /\ UNCHANGED <<made, diskVars, CurrentBlock, tip, panicked, crashes>>

\* Mutant of executeBlock: the trie is left for later.
executeBlockLater ==
  /\ pc = "execute"
  /\ pc' = "current"
  /\ UNCHANGED <<made, diskVars, CurrentBlock, tip, writing, panicked, crashes>>

\* Its transactions are executed unless the trie is there already.
executeBlock ==
  /\ pc = "execute"
  /\ IF StateRoot(writing) \in triedb
     THEN pc' = "current" /\ UNCHANGED <<triedb, panicked>>
     ELSE IF StateRoot(CurrentBlock) \in triedb
     THEN pc' = "current" /\ triedb' = triedb \cup {StateRoot(writing)} /\ UNCHANGED panicked
     ELSE panicked' = TRUE /\ UNCHANGED <<pc, triedb>>
  /\ UNCHANGED <<made, blockBucket, blockHeaderBucket, newestBlockHash, CurrentBlock,
                 tip, writing, crashes>>

\* AddAccounts makes a block of its own, the same at every node, and commits
\* the trie with the accounts that came to the shard.
AddAccounts(root) ==
  /\ running /\ pc = "idle" /\ tip = CurrentBlock /\ Len(made) < MaxBlocks
  /\ root \in rootsAfter(CurrentBlock)
  /\ made' = Append(made, NewBlock(CurrentBlock, root))
  /\ tip' = Len(made) + 1 /\ writing' = Len(made) + 1
  /\ IF root = StateRoot(CurrentBlock) THEN pc' = "current" /\ UNCHANGED <<triedb, panicked>>
     ELSE IF StateRoot(CurrentBlock) \in triedb
     THEN pc' = "current" /\ triedb' = triedb \cup {root} /\ UNCHANGED panicked
     ELSE panicked' = TRUE /\ UNCHANGED <<pc, triedb>>
  /\ UNCHANGED <<blockBucket, blockHeaderBucket, newestBlockHash, CurrentBlock, crashes>>

\* The end of AddBlock and AddAccounts: the block is the current one, ...
setCurrentBlock ==
  /\ pc = "current"
  /\ CurrentBlock' = writing /\ pc' = "block"
  /\ UNCHANGED <<made, diskVars, tip, writing, panicked, crashes>>

\* ... and Storage.AddBlock stores it, in three transactions.
putBlock ==
  /\ pc = "block"
  /\ blockBucket' = blockBucket \cup {writing} /\ pc' = "header"
  /\ UNCHANGED <<made, blockHeaderBucket, newestBlockHash, triedb, CurrentBlock, tip,
                 writing, panicked, crashes>>

AddBlockHeader ==
  /\ pc = "header"
  /\ blockHeaderBucket' = blockHeaderBucket \cup {writing} /\ pc' = "newest"
  /\ UNCHANGED <<made, blockBucket, newestBlockHash, triedb, CurrentBlock, tip,
                 writing, panicked, crashes>>

UpdateNewestBlock ==
  /\ pc = "newest"
  /\ newestBlockHash' = writing
  /\ pc' = IF CurrentBlock = None THEN "load" ELSE "idle"
  /\ UNCHANGED <<made, blockBucket, blockHeaderBucket, triedb, CurrentBlock, tip,
                 writing, panicked, crashes>>

-----------------------------------------------------------------------------
(***************************************************************************)
(* Starting and stopping.                                                  *)
(***************************************************************************)

\* NewBlockChain with no newest block: NewGenisisBlock, which goes to disk as
\* any other block does.
AddGenisisBlock ==
  /\ pc = "start" /\ newestBlockHash = None
  /\ writing' = Genesis /\ pc' = "block"
  /\ UNCHANGED <<made, diskVars, CurrentBlock, tip, panicked, crashes>>

\* GetNewestBlockHash, GetBlock and the check of the trie, in NewBlockChain and
\* at the end of AddGenisisBlock.
NewBlockChain ==
  /\ pc \in {"start", "load"} /\ ~panicked
  /\ newestBlockHash # None
  /\ IF newestBlockHash \in blockBucket /\ StateRoot(newestBlockHash) \in triedb
     THEN /\ CurrentBlock' = newestBlockHash /\ tip' = newestBlockHash
          /\ pc' = "idle" /\ UNCHANGED panicked
     ELSE panicked' = TRUE /\ UNCHANGED <<CurrentBlock, tip, pc>>
  /\ UNCHANGED <<made, diskVars, writing, crashes>>

\* The process ends, at any point.
Crash ==
  /\ crashes < MaxCrashes
  /\ crashes' = crashes + 1
  /\ CurrentBlock' = None /\ tip' = None /\ pc' = "start"
  /\ UNCHANGED <<made, diskVars, writing, panicked>>

-----------------------------------------------------------------------------

Init ==
  /\ made = <<>>
  /\ blockBucket = {} /\ blockHeaderBucket = {} /\ newestBlockHash = None
  /\ triedb = {Genesis}
  /\ CurrentBlock = None /\ tip = None /\ pc = "start" /\ writing = Genesis
  /\ panicked = FALSE /\ crashes = 0

Next ==
  \/ \E leads \in BOOLEAN, root \in 0 .. MaxBlocks : GenerateBlock(leads, root)
  \/ \E b \in 1 .. MaxBlocks : AddBlock(b)
  \/ executeBlock
  \/ \E root \in 0 .. MaxBlocks : AddAccounts(root)
  \/ setCurrentBlock \/ putBlock \/ AddBlockHeader \/ UpdateNewestBlock
  \/ AddGenisisBlock \/ NewBlockChain \/ Crash

Spec == Init /\ [][Next]_vars

-----------------------------------------------------------------------------
(***************************************************************************)
(* Properties.                                                             *)
(***************************************************************************)

Blocks == 0 .. MaxBlocks

\* The types of what is on disk and in the process.
TypeOK ==
  /\ made \in Seq([Number : Nat, ParentBlockHash : Blocks, StateRoot : Blocks])
  /\ Len(made) <= MaxBlocks
  /\ blockBucket \subseteq Blocks /\ blockHeaderBucket \subseteq Blocks
  /\ newestBlockHash \in Blocks \cup {None} /\ triedb \subseteq Blocks
  /\ CurrentBlock \in Blocks \cup {None} /\ tip \in Blocks \cup {None}
  /\ writing \in Blocks
  /\ pc \in {"start", "load", "idle", "execute", "current", "block", "header", "newest"}
  /\ panicked \in BOOLEAN /\ crashes \in Nat

\* Neither NewBlockChain nor the execution of a block meets a block or a trie
\* that is not there, wherever the process ended before.
NoPanic == ~panicked

\* A stored block can be read back to the first one, as TxProofGenerate does:
\* no block is stored whose parent is not, also not one that was left half
\* written and whose height another block has now.
ChainReadable ==
  \A b \in blockBucket : b # Genesis => Parent(b) \in blockBucket

\* A block that AddBlock has finished with survives: the newest block only
\* changes to one that is built on it.
NewestGrows ==
  [][newestBlockHash # None /\ newestBlockHash' # newestBlockHash
       => newestBlockHash' \in 1 .. Len(made) /\ Parent(newestBlockHash') = newestBlockHash]_vars

-----------------------------------------------------------------------------
(***************************************************************************)
(* The parts of the inductive invariant.                                   *)
(***************************************************************************)

\* Only blocks that were made are named anywhere, and a block names older ones.
NamesMade ==
  /\ \A b \in 1 .. Len(made) : made[b].ParentBlockHash < b
  /\ blockBucket \subseteq 0 .. Len(made)
  /\ \A b \in {newestBlockHash, CurrentBlock, tip, writing} : b <= Len(made)

\* A trie is on disk before anything names its block.
TriesFirst ==
  /\ Genesis \in triedb
  /\ newestBlockHash # None =>
       newestBlockHash \in blockBucket /\ StateRoot(newestBlockHash) \in triedb
  /\ CurrentBlock # None => StateRoot(CurrentBlock) \in triedb /\ tip # None
  /\ pc \in {"current", "block", "header", "newest"} => StateRoot(writing) \in triedb
  /\ pc \in {"header", "newest"} => writing \in blockBucket

\* Where the writer is: before setCurrentBlock the current block is the newest
\* on disk, after it the current block is the one being written.
WriterAt ==
  /\ pc \in {"start", "load"} => CurrentBlock = None
  /\ pc = "load" => newestBlockHash # None
  /\ pc \in {"idle", "execute", "current"} => CurrentBlock # None /\ CurrentBlock = newestBlockHash
  /\ pc \in {"execute", "current"} => writing # Genesis /\ Parent(writing) = CurrentBlock
  /\ pc \in {"block", "header", "newest"} =>
       IF CurrentBlock = None THEN writing = Genesis /\ newestBlockHash = None
       ELSE /\ CurrentBlock = writing /\ writing # Genesis
            /\ newestBlockHash # None /\ Parent(writing) = newestBlockHash

StoreInv == TypeOK /\ NamesMade /\ TriesFirst /\ WriterAt /\ NoPanic /\ ChainReadable

=============================================================================
