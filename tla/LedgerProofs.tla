---------------------------- MODULE LedgerProofs ----------------------------
(***************************************************************************)
(* One node: its types, what its announcements leave on the file, the runs *)
(* of nonces in its pool, that names stay bound, that nothing is applied   *)
(* twice on its chain, and that what it keeps of the chain is what a       *)
(* replay gives: balances, nonces, index, and the validity of memory and   *)
(* file.                                                                   *)
(***************************************************************************)
EXTENDS Ledger, BlockchainProofs

LEMMA StartKeysType ==
    ASSUME NEW auths, NEW keys \in KeyMap
    PROVE  StartKeys(auths, keys) \in KeyMap
BY IdentityAssumption DEF StartKeys, KeyMap

-----------------------------------------------------------------------------
(***************************************************************************)
(* Type correctness.                                                       *)
(***************************************************************************)

\* What the type invariant says of the persisted fields, the index and the
\* pool, which every committing action has to re-establish.
CoreOK ==
    /\ Memory \in ChainFile
    /\ transaction_index \subseteq {Id(t) : t \in Txs}
    /\ mempool \subseteq Txs
    /\ IsFiniteSet(mempool)

LEMMA StateType == CoreOK => State \in LedgerState
BY DEF CoreOK, Memory, ChainFile, State, LedgerState

LEMMA CommitType ==
    ASSUME CoreOK, NEW b \in Block, NEW keys \in KeyMap,
           NEW S, S \subseteq Txs, IsFiniteSet(S),
           Extends(b, keys), CommitBlock(b, keys, S), authorities' = authorities
    PROVE  CoreOK'
<1> DEFINE after == StateAfter(State, <<b>>)
<1>1. State \in LedgerState
  BY StateType
<1>2. <<b>> \in Seq(Block)
  OBVIOUS
<1>3. after \in LedgerState
  BY <1>1, <1>2, StateAfterType DEF Extends, BlockValid
<1>4. /\ blocks' = Append(blocks, b)
      /\ transaction_index' = transaction_index \cup Ids(<<b>>)
      /\ balances' = after.balances
      /\ nonces' = after.nonces
      /\ public_keys' = keys
      /\ mempool' = Requeued(keys, transaction_index', after, S)
  BY DEF CommitBlock, Reconcile, Indexed
<1>5. Memory' \in ChainFile
  <2>1. blocks \in Seq(Block) /\ authorities \subseteq Accounts
    BY DEF CoreOK, Memory, ChainFile
  <2>2. blocks' \in Seq(Block)
    BY <1>4, <2>1
  <2>3. /\ after.balances \in [Accounts -> 0 .. MaxAmount]
        /\ after.nonces \in [Accounts -> Nat]
    BY <1>3 DEF LedgerState
  <2> HIDE DEF after
  <2> QED  BY <1>4, <2>1, <2>2, <2>3 DEF Memory, ChainFile
<1>6. transaction_index' \subseteq {Id(t) : t \in Txs}
  BY <1>2, <1>4, IdsType DEF CoreOK
<1>7. mempool' \subseteq S
  BY <1>4, RequeuedSubset
<1>8. IsFiniteSet(mempool')
  BY <1>7, FS_Subset
<1> QED  BY <1>5, <1>6, <1>7, <1>8 DEF CoreOK

LEMMA SealType ==
    ASSUME TypeOK, NEW sendable, SealPending(sendable)
    PROVE  CoreOK' /\ disk' \in ChainFile /\ announced' \in Seq(Nat)
<1>1. CASE UNCHANGED <<ledger, pool, disk, announced>>
  BY <1>1 DEF TypeOK, CoreOK, ledger, pool, Memory
<1>2. ASSUME NEW batch \in Drained(mempool), SealCommits(batch, sendable)
      PROVE  CoreOK' /\ disk' \in ChainFile /\ announced' \in Seq(Nat)
  <2>1. batch \in Seq(Txs)
    BY DrainedType DEF TypeOK
  <2>2. SealedBlock(batch) \in Block
    BY <2>1, IdentityAssumption DEF SealedBlock, Block
  <2>3. public_keys \in KeyMap
    BY DEF TypeOK, Memory, ChainFile
  <2>4. CoreOK
    BY DEF TypeOK, CoreOK
  <2>5. /\ Extends(SealedBlock(batch), public_keys)
        /\ CommitBlock(SealedBlock(batch), public_keys, {})
        /\ authorities' = authorities
    BY <1>2 DEF SealCommits
  <2>6. CoreOK'
    BY <2>2, <2>3, <2>4, <2>5, FS_EmptySet, CommitType
  <2>7. disk' \in ChainFile
    BY <1>2, <2>6 DEF SealCommits, Save, CoreOK, TypeOK
  <2>8. blocks' \in Seq(Block)
    BY <2>6 DEF CoreOK, Memory, ChainFile
  <2>9. announced' \in Seq(Nat)
    BY <1>2, <2>8 DEF SealCommits, TypeOK
  <2> QED  BY <2>6, <2>7, <2>9
<1> QED  BY <1>1, <1>2 DEF SealPending, SealFails

LEMMA QueueType ==
    ASSUME TypeOK, NEW t \in Txs, NEW keys, Queue(t, keys)
    PROVE  mempool' \subseteq Txs /\ IsFiniteSet(mempool')
<1>1. mempool' = mempool \cup {t}
  BY DEF Queue
<1> QED  BY <1>1, FS_AddElement DEF TypeOK

LEMMA SnapshotType ==
    ASSUME NEW s \in Snapshots
    PROVE  s.blocks \in Seq(Block) /\ s.accounts \in KeyMap
           /\ s.authorities \subseteq Accounts
BY SnapshotAssumption

LEMMA InitType == Init => TypeOK
<1> SUFFICES ASSUME Init PROVE TypeOK
  OBVIOUS
<1>1. Memory \in ChainFile
  BY GenesisType, StartKeysType, AllocationAssumption, IdentityAssumption
  DEF Init, Memory, ChainFile
<1> QED  BY <1>1, FS_EmptySet, SealerAssumption DEF Init, TypeOK

LEMMA NextType == TypeOK /\ [Next]_vars => TypeOK'
<1> SUFFICES ASSUME TypeOK, [Next]_vars PROVE TypeOK'
  OBVIOUS
<1> USE DEF TypeOK
<1>0. CoreOK
  BY DEF CoreOK
<1>1. ASSUME NEW t \in Txs, Submit(t) PROVE TypeOK'
  <2>1. mempool' \subseteq Txs /\ IsFiniteSet(mempool')
    BY <1>1, QueueType DEF Submit
  <2>2. UNCHANGED <<ledger, disk, is_authority, announced, phase>>
    BY <1>1 DEF Submit
  <2>3. sealers' \in 0 .. MaxSealers
    BY <1>1, SealerAssumption DEF Submit
  <2> QED  BY <2>1, <2>2, <2>3 DEF ledger, Memory
<1>2. ASSUME NEW t \in Txs, GossipTransaction(t) PROVE TypeOK'
  <2>1. mempool' \subseteq Txs /\ IsFiniteSet(mempool')
    BY <1>2, QueueType DEF GossipTransaction
  <2>2. public_keys' \in KeyMap
    BY <1>2, TxAssumption DEF GossipTransaction, KeyMap, TxRecord, Memory, ChainFile
  <2>3. Memory' \in ChainFile
    BY <1>2, <2>2 DEF GossipTransaction, Memory, ChainFile
  <2> QED  BY <1>2, <2>1, <2>3 DEF GossipTransaction
<1>3. ASSUME SealAfterSubmit PROVE TypeOK'
  <2>1. CoreOK' /\ disk' \in ChainFile /\ announced' \in Seq(Nat)
    BY <1>3, SealType DEF SealAfterSubmit
  <2> QED  BY <1>3, <2>1, SealerAssumption DEF SealAfterSubmit, CoreOK
<1>4. ASSUME Tick PROVE TypeOK'
  <2>1. CoreOK' /\ disk' \in ChainFile /\ announced' \in Seq(Nat)
    BY <1>4, SealType DEF Tick
  <2> QED  BY <1>4, <2>1 DEF Tick, CoreOK
<1>5. ASSUME NEW t \in Txs, RegisterAccount(t.sender, t.key) PROVE TypeOK'
  <2>1. public_keys' \in KeyMap
    BY <1>5, TxAssumption DEF RegisterAccount, KeyMap, TxRecord, Memory, ChainFile
  <2>2. Memory' \in ChainFile
    BY <1>5, <2>1 DEF RegisterAccount, Memory, ChainFile
  <2>3. disk' \in ChainFile
    BY <1>5, <2>2 DEF RegisterAccount, Save
  <2> QED  BY <1>5, <2>2, <2>3 DEF RegisterAccount, pool
<1>6. ASSUME NEW s \in Snapshots, ReceiveBlock(s) PROVE TypeOK'
  <2> DEFINE b == s.blocks[Len(s.blocks)]
             keys == MergeBlockAccounts(public_keys, s.accounts, b)
  <2>1. Len(s.blocks) = Len(blocks) + 1 /\ blocks \in Seq(Block)
    BY <1>6 DEF ReceiveBlock, Memory, ChainFile
  <2>2. b \in Block
    BY <2>1, SnapshotType
  <2>3. keys \in KeyMap
    BY SnapshotType DEF MergeBlockAccounts, KeyMap, Memory, ChainFile
  <2>4. Extends(b, keys) /\ CommitBlock(b, keys, mempool) /\ authorities' = authorities
    BY <1>6 DEF ReceiveBlock
  <2>5. CoreOK'
    BY <1>0, <2>2, <2>3, <2>4, CommitType
  <2>6. disk' \in ChainFile
    BY <1>6, <2>5 DEF ReceiveBlock, Save, CoreOK
  <2> QED  BY <1>6, <2>5, <2>6 DEF ReceiveBlock, CoreOK
<1>7. ASSUME NEW s \in Snapshots, ReceiveChain(s) PROVE TypeOK'
  <2> DEFINE keys  == MergeAccounts(public_keys, s.accounts)
             auths == MergeAuthorities(authorities, keys, s.authorities)
             after == StateAfter(InitialState, s.blocks)
  <2>1. /\ ChainValid(auths, keys, s.blocks)
        /\ blocks' = s.blocks /\ authorities' = auths /\ public_keys' = keys
        /\ balances' = after.balances /\ nonces' = after.nonces
        /\ transaction_index' = Ids(s.blocks)
        /\ mempool' = Requeued(keys, transaction_index', after, mempool)
    BY <1>7 DEF ReceiveChain, Reconcile
  <2>2. s.blocks \in Seq(Block) /\ s.accounts \in KeyMap /\ s.authorities \subseteq Accounts
    BY SnapshotType
  <2>3. after \in LedgerState
    BY <2>1, <2>2, InitialStateType, StateAfterType DEF ChainValid
  <2>4. keys \in KeyMap
    BY <2>2 DEF MergeAccounts, KeyMap, Memory, ChainFile
  <2>5. auths \subseteq Accounts
    BY <2>2 DEF MergeAuthorities, Memory, ChainFile
  <2>6. Memory' \in ChainFile
    <3>1. /\ after.balances \in [Accounts -> 0 .. MaxAmount]
          /\ after.nonces \in [Accounts -> Nat]
      BY <2>3 DEF LedgerState
    <3> HIDE DEF after, keys, auths
    <3> QED  BY <2>1, <2>2, <2>4, <2>5, <3>1 DEF Memory, ChainFile
  <2>7. transaction_index' \subseteq {Id(t) : t \in Txs}
    BY <2>1, <2>2, IdsType
  <2>8. mempool' \subseteq mempool
    BY <2>1, RequeuedSubset
  <2>9. IsFiniteSet(mempool')
    BY <2>8, FS_Subset
  <2>10. disk' \in ChainFile
    BY <1>7, <2>6 DEF ReceiveChain, Save
  <2> QED  BY <1>7, <2>6, <2>7, <2>8, <2>9, <2>10 DEF ReceiveChain
<1>8. ASSUME Crash PROVE TypeOK'
  BY <1>8, FS_EmptySet, SealerAssumption DEF Crash, Stop, ledger, Memory
<1>9. ASSUME Shutdown PROVE TypeOK'
  <2>1. CASE UNCHANGED <<ledger, pool, disk, announced>>
    BY <1>9, <2>1, SealerAssumption DEF Shutdown, Stop, ledger, pool, Memory
  <2>2. CASE SealPending({FALSE})
    <3>1. CoreOK' /\ disk' \in ChainFile /\ announced' \in Seq(Nat)
      BY <2>2, SealType
    <3> QED  BY <1>9, <3>1, SealerAssumption DEF Shutdown, Stop, CoreOK
  <2> QED  BY <1>9, <2>1, <2>2 DEF Shutdown
<1>10. ASSUME Start PROVE TypeOK'
  <2>1. public_keys' \in KeyMap
    BY <1>10, StartKeysType DEF Start, ChainFile
  <2>2. Memory' \in ChainFile
    BY <1>10, <2>1 DEF Start, Memory, ChainFile
  <2>3. transaction_index' \subseteq {Id(t) : t \in Txs}
    BY <1>10, IdsType DEF Start, ChainFile
  <2> QED  BY <1>10, <2>2, <2>3, FS_EmptySet DEF Start, Save
<1>11. CASE UNCHANGED vars
  BY <1>11 DEF vars, ledger, pool, Memory
<1> QED
  BY <1>1, <1>2, <1>3, <1>4, <1>5, <1>6, <1>7, <1>8, <1>9, <1>10, <1>11 DEF Next

\* The type invariant holds of every behaviour: in particular every balance is
\* a u64 and never negative, in memory and on the file, whatever peers send.
THEOREM TypeCorrect == Spec => []TypeOK
<1>1. Init => TypeOK
  BY InitType
<1>2. TypeOK /\ [Next]_vars => TypeOK'
  BY NextType
<1> QED  BY <1>1, <1>2, PTL DEF Spec

-----------------------------------------------------------------------------
(***************************************************************************)
(* What was announced stays on the chain file, so it is never contradicted.*)
(***************************************************************************)

\* The file never holds fewer blocks than were announced, nor more than the
\* memory: a crash cannot take the node below a height it announced.
AnnouncedDurable ==
    /\ Len(disk.blocks) <= Len(blocks)
    /\ \A i \in DOMAIN announced : announced[i] < Len(disk.blocks)

DurableInv == TypeOK /\ AnnouncedDurable /\ NoEquivocation

\* A step that only grows the chain, and writes it or does not.
LEMMA GrowDurable ==
    ASSUME DurableInv, TypeOK', Len(blocks) <= Len(blocks'),
           disk' = disk \/ disk' = Memory', announced' = announced
    PROVE  AnnouncedDurable' /\ NoEquivocation'
<1>1. /\ Len(blocks) \in Nat /\ Len(blocks') \in Nat
      /\ Len(disk.blocks) \in Nat /\ Len(disk'.blocks) \in Nat
  <2>1. /\ Memory \in ChainFile /\ Memory' \in ChainFile
        /\ disk \in ChainFile /\ disk' \in ChainFile
    BY DEF DurableInv, TypeOK
  <2>2. blocks \in Seq(Block) /\ blocks' \in Seq(Block)
    BY <2>1 DEF Memory, ChainFile
  <2>3. disk.blocks \in Seq(Block) /\ disk'.blocks \in Seq(Block)
    BY <2>1 DEF ChainFile
  <2> QED  BY <2>2, <2>3
<1>2. \A i \in DOMAIN announced : announced[i] \in Nat
  BY DEF DurableInv, TypeOK
<1>3. disk' = Memory' => disk'.blocks = blocks'
  BY DEF Memory
<1>4. Len(disk'.blocks) <= Len(blocks') /\ Len(disk.blocks) <= Len(disk'.blocks)
  BY <1>1, <1>3 DEF DurableInv, AnnouncedDurable
<1>5. \A i \in DOMAIN announced' : announced'[i] < Len(disk'.blocks)
  BY <1>1, <1>2, <1>4 DEF DurableInv, AnnouncedDurable
<1>6. AnnouncedDurable'
  BY <1>4, <1>5 DEF AnnouncedDurable
<1>7. NoEquivocation'
  BY DEF NoEquivocation, DurableInv
<1> QED  BY <1>6, <1>7

LEMMA SealDurable ==
    ASSUME DurableInv, TypeOK', NEW sendable, SealPending(sendable)
    PROVE  AnnouncedDurable' /\ NoEquivocation'
<1>1. CASE UNCHANGED <<ledger, pool, disk, announced>>
  <2>1. blocks \in Seq(Block) /\ blocks' = blocks
    BY <1>1 DEF ledger, DurableInv, TypeOK, Memory, ChainFile
  <2>2. Len(blocks) <= Len(blocks')
    BY <2>1
  <2> QED  BY <1>1, <2>2, GrowDurable
<1>2. ASSUME NEW batch \in Drained(mempool), SealCommits(batch, sendable)
      PROVE  AnnouncedDurable' /\ NoEquivocation'
  <2>1. blocks' = Append(blocks, SealedBlock(batch))
    BY <1>2 DEF SealCommits, CommitBlock, Indexed
  <2>2. Len(blocks') = Len(blocks) + 1 /\ Len(blocks) \in Nat
    BY <2>1 DEF DurableInv, TypeOK, Memory, ChainFile
  <2>3. disk' = disk \/ disk' = Memory'
    BY <1>2 DEF SealCommits, Save
  <2>4. CASE announced' = announced
    BY <2>2, <2>3, <2>4, GrowDurable
  <2>5. CASE disk' = Memory' /\ announced' = Append(announced, Len(blocks))
    <3>1. disk'.blocks = blocks'
      BY <2>5 DEF Memory
    <3>2. announced \in Seq(Nat) /\ Len(disk.blocks) \in Nat
      BY DEF DurableInv, TypeOK, ChainFile
    <3>3. \A i \in DOMAIN announced : announced[i] < Len(blocks)
      BY <2>2, <3>2 DEF DurableInv, AnnouncedDurable
    <3>4. /\ DOMAIN announced' = DOMAIN announced \cup {Len(announced) + 1}
          /\ \A i \in DOMAIN announced : announced'[i] = announced[i]
          /\ announced'[Len(announced) + 1] = Len(blocks)
      BY <2>2, <2>5, <3>2
    <3>5. AnnouncedDurable'
      BY <2>2, <3>1, <3>2, <3>3, <3>4 DEF AnnouncedDurable
    <3>6. \A i \in DOMAIN announced : i \in Nat /\ i <= Len(announced)
      BY <3>2
    <3>7. NoEquivocation'
      BY <2>2, <3>2, <3>3, <3>4, <3>6 DEF NoEquivocation, DurableInv
    <3> QED  BY <3>5, <3>7
  <2> QED  BY <1>2, <2>4, <2>5 DEF SealCommits, Save
<1> QED  BY <1>1, <1>2 DEF SealPending, SealFails

LEMMA DurableStep == DurableInv /\ [Next]_vars => DurableInv'
<1> SUFFICES ASSUME DurableInv, [Next]_vars PROVE DurableInv'
  OBVIOUS
<1>0. TypeOK /\ TypeOK'
  BY NextType DEF DurableInv
<1>l. Len(blocks) \in Nat
  BY <1>0 DEF TypeOK, Memory, ChainFile
<1> SUFFICES AnnouncedDurable' /\ NoEquivocation'
  BY <1>0 DEF DurableInv
<1>1. CASE UNCHANGED <<blocks, disk, announced>>
  BY <1>0, <1>l, <1>1, GrowDurable
<1>2. ASSUME NEW t \in Txs, Submit(t) \/ GossipTransaction(t)
      PROVE  AnnouncedDurable' /\ NoEquivocation'
  BY <1>1, <1>2 DEF Submit, GossipTransaction, ledger
<1>3. CASE SealAfterSubmit \/ Tick
  BY <1>0, <1>3, SealDurable DEF SealAfterSubmit, Tick
<1>4. ASSUME NEW name, NEW key, RegisterAccount(name, key)
      PROVE  AnnouncedDurable' /\ NoEquivocation'
  BY <1>0, <1>l, <1>4, GrowDurable DEF RegisterAccount, Save
<1>5. ASSUME NEW s \in Snapshots, ReceiveBlock(s)
      PROVE  AnnouncedDurable' /\ NoEquivocation'
  <2>1. \E b : blocks' = Append(blocks, b)
    BY <1>5 DEF ReceiveBlock, CommitBlock, Indexed
  <2>2. Len(blocks') = Len(blocks) + 1
    BY <1>0, <2>1 DEF TypeOK, Memory, ChainFile
  <2>3. disk' = disk \/ disk' = Memory'
    BY <1>5 DEF ReceiveBlock, Save
  <2> QED  BY <1>0, <1>l, <1>5, <2>2, <2>3, GrowDurable DEF ReceiveBlock
<1>6. ASSUME NEW s \in Snapshots, ReceiveChain(s)
      PROVE  AnnouncedDurable' /\ NoEquivocation'
  <2>1. Len(blocks') > Len(blocks) /\ Len(blocks') \in Nat
    BY <1>6, SnapshotType DEF ReceiveChain
  <2>2. disk' = disk \/ disk' = Memory'
    BY <1>6 DEF ReceiveChain, Save
  <2> QED  BY <1>0, <1>l, <1>6, <2>1, <2>2, GrowDurable DEF ReceiveChain
<1>7. CASE Crash
  BY <1>1, <1>7 DEF Crash, ledger
<1>8. CASE Shutdown
  <2>1. CASE UNCHANGED <<ledger, pool, disk, announced>>
    BY <1>1, <2>1 DEF ledger
  <2>2. CASE SealPending({FALSE})
    BY <1>0, <2>2, SealDurable
  <2> QED  BY <1>8, <2>1, <2>2 DEF Shutdown
<1>9. CASE Start
  <2>1. blocks' = disk.blocks /\ disk' = Memory' /\ announced' = announced
    BY <1>9 DEF Start, Save
  <2>2. disk'.blocks = disk.blocks
    BY <2>1 DEF Memory
  <2>3. Len(disk.blocks) \in Nat
    BY <1>0 DEF TypeOK, ChainFile
  <2> QED  BY <2>1, <2>2, <2>3 DEF AnnouncedDurable, NoEquivocation, DurableInv
<1>10. CASE UNCHANGED vars
  BY <1>1, <1>10 DEF vars, ledger
<1> QED
  BY <1>2, <1>3, <1>4, <1>5, <1>6, <1>7, <1>8, <1>9, <1>10 DEF Next

\* A validator never announces two different blocks for one height: sealing
\* writes the file before it announces, and the file never gets shorter.
THEOREM NeverEquivocates == Spec => []NoEquivocation
<1>1. Init => DurableInv
  <2>1. Init => NoEquivocation /\ AnnouncedDurable
    BY DEF Init, Memory, NoEquivocation, AnnouncedDurable
  <2> QED  BY <2>1, InitType DEF DurableInv
<1>2. DurableInv /\ [Next]_vars => DurableInv'
  BY DurableStep
<1>3. DurableInv => NoEquivocation
  BY DEF DurableInv
<1> QED  BY <1>1, <1>2, <1>3, PTL DEF Spec

-----------------------------------------------------------------------------
(***************************************************************************)
(* The pool of every sender is the run of nonces that starts at the        *)
(* chain's, through submissions, blocks and reorganizations.               *)
(***************************************************************************)

PoolInv == TypeOK /\ PoolContiguous

LEMMA QueueContiguous ==
    ASSUME PoolInv, NEW t \in Txs, NEW keys, Queue(t, keys), nonces' = nonces
    PROVE  PoolContiguous'
<1> SUFFICES ASSUME NEW a \in Accounts
             PROVE  IsRun(QueuedBy(mempool', a), nonces[a])
  BY DEF PoolContiguous
<1>1. IsRun(QueuedBy(mempool, a), nonces[a])
  BY DEF PoolInv, PoolContiguous
<1>2. mempool \subseteq Txs /\ IsFiniteSet(mempool) /\ mempool' = mempool \cup {t}
  BY DEF PoolInv, TypeOK, Queue
<1>3. State \in LedgerState /\ State.nonces = nonces
  BY StateType DEF PoolInv, TypeOK, CoreOK, State
<1> QED  BY <1>1, <1>2, <1>3, QueuedRun DEF Queue

\* The pool after a reconciliation against any state of the ledger.
LEMMA ReconcileContiguous ==
    ASSUME PoolInv, TypeOK', NEW keys, NEW seen, NEW S,
           S = mempool \/ S = {},
           mempool' = Requeued(keys, seen, State', S)
    PROVE  PoolContiguous'
<1>1. State' \in LedgerState
  BY DEF TypeOK, Memory, ChainFile, State, LedgerState
<1>2. S \subseteq Txs /\ IsFiniteSet(S)
  BY FS_EmptySet DEF PoolInv, TypeOK
<1>3. ASSUME NEW a \in Accounts
      PROVE  \A t, u \in QueuedBy(S, a) : t.nonce = u.nonce => t = u
  BY DEF PoolInv, PoolContiguous, IsRun, QueuedBy
<1>4. ASSUME NEW a \in Accounts
      PROVE  IsRun(QueuedBy(mempool', a), (State').nonces[a])
  BY <1>1, <1>2, <1>3, RequeuedIsRun
<1>5. (State').nonces = nonces'
  BY DEF State
<1> QED  BY <1>4, <1>5 DEF PoolContiguous

LEMMA SealContiguous ==
    ASSUME PoolInv, TypeOK', NEW sendable, SealPending(sendable)
    PROVE  PoolContiguous'
<1>1. CASE UNCHANGED <<ledger, pool, disk, announced>>
  BY <1>1 DEF ledger, pool, PoolInv, PoolContiguous
<1>2. ASSUME NEW batch \in Drained(mempool), SealCommits(batch, sendable)
      PROVE  PoolContiguous'
  <2> DEFINE after == StateAfter(State, <<SealedBlock(batch)>>)
  <2>1. /\ balances' = after.balances /\ nonces' = after.nonces
        /\ mempool' = Requeued(public_keys, transaction_index', after, {})
    BY <1>2 DEF SealCommits, CommitBlock, Reconcile, Indexed
  <2>2. after = State'
    BY <2>1 DEF State, StateAfter
  <2> QED  BY <2>1, <2>2, ReconcileContiguous
<1> QED  BY <1>1, <1>2 DEF SealPending, SealFails

LEMMA PoolStep == PoolInv /\ [Next]_vars => PoolInv'
<1> SUFFICES ASSUME PoolInv, [Next]_vars PROVE PoolInv'
  OBVIOUS
<1>0. TypeOK /\ TypeOK'
  BY NextType DEF PoolInv
<1> SUFFICES PoolContiguous'
  BY <1>0 DEF PoolInv
<1>1. CASE UNCHANGED <<mempool, nonces>>
  BY <1>1 DEF PoolInv, PoolContiguous
<1>2. ASSUME NEW t \in Txs, Submit(t) \/ GossipTransaction(t) PROVE PoolContiguous'
  BY <1>2, QueueContiguous DEF Submit, GossipTransaction, ledger
<1>3. CASE SealAfterSubmit \/ Tick
  BY <1>0, <1>3, SealContiguous DEF SealAfterSubmit, Tick
<1>4. ASSUME NEW name, NEW key, RegisterAccount(name, key) PROVE PoolContiguous'
  BY <1>1, <1>4 DEF RegisterAccount, pool
<1>5. ASSUME NEW s \in Snapshots, ReceiveBlock(s) PROVE PoolContiguous'
  <2> DEFINE b     == s.blocks[Len(s.blocks)]
             keys  == MergeBlockAccounts(public_keys, s.accounts, b)
             after == StateAfter(State, <<b>>)
  <2>1. /\ balances' = after.balances /\ nonces' = after.nonces
        /\ mempool' = Requeued(keys, transaction_index', after, mempool)
    BY <1>5 DEF ReceiveBlock, CommitBlock, Reconcile, Indexed
  <2>2. after = State'
    BY <2>1 DEF State, StateAfter
  <2> QED  BY <1>0, <2>1, <2>2, ReconcileContiguous
<1>6. ASSUME NEW s \in Snapshots, ReceiveChain(s) PROVE PoolContiguous'
  <2> DEFINE keys  == MergeAccounts(public_keys, s.accounts)
             after == StateAfter(InitialState, s.blocks)
  <2>1. /\ balances' = after.balances /\ nonces' = after.nonces
        /\ mempool' = Requeued(keys, transaction_index', after, mempool)
    BY <1>6 DEF ReceiveChain, Reconcile
  <2>2. after = State'
    BY <2>1 DEF State, StateAfter
  <2> QED  BY <1>0, <2>1, <2>2, ReconcileContiguous
<1>7. ASSUME mempool' = {} PROVE PoolContiguous'
  <2>1. \A a \in Accounts : QueuedBy(mempool', a) = {} /\ nonces'[a] \in Nat
    BY <1>0, <1>7 DEF QueuedBy, TypeOK, Memory, ChainFile
  <2> QED  BY <2>1, RunEmpty DEF PoolContiguous
<1>8. CASE Crash \/ Start
  BY <1>7, <1>8 DEF Crash, Start
<1>9. CASE Shutdown
  <2>1. CASE UNCHANGED <<ledger, pool, disk, announced>>
    BY <1>1, <2>1 DEF ledger, pool
  <2>2. CASE SealPending({FALSE})
    BY <1>0, <2>2, SealContiguous
  <2> QED  BY <1>9, <2>1, <2>2 DEF Shutdown
<1>10. CASE UNCHANGED vars
  BY <1>1, <1>10 DEF vars, ledger, pool
<1> QED
  BY <1>2, <1>3, <1>4, <1>5, <1>6, <1>8, <1>9, <1>10 DEF Next

\* The nonce queue() expects, chain nonce plus number queued, is always the
\* one after the last queued: whatever blocks, chains, restarts and restored
\* pools did in between, no sender's queue has a gap or a stale start.
THEOREM PoolAlwaysContiguous == Spec => []PoolContiguous
<1>1. Init => PoolInv
  <2> SUFFICES ASSUME Init PROVE PoolInv
    OBVIOUS
  <2>1. TypeOK
    BY InitType
  <2>2. \A a \in Accounts : QueuedBy(mempool, a) = {} /\ nonces[a] \in Nat
    BY DEF Init, QueuedBy
  <2> QED  BY <2>1, <2>2, RunEmpty DEF PoolInv, PoolContiguous
<1>2. PoolInv /\ [Next]_vars => PoolInv'
  BY PoolStep
<1>3. PoolInv => PoolContiguous
  BY DEF PoolInv
<1> QED  BY <1>1, <1>2, <1>3, PTL DEF Spec

-----------------------------------------------------------------------------
(***************************************************************************)
(* What a running node knows of names is only added to.                    *)
(***************************************************************************)

Grows ==
    /\ \A a \in Accounts : public_keys[a] # NoKey => public_keys'[a] = public_keys[a]
    /\ authorities \subseteq authorities'
    /\ Len(blocks) <= Len(blocks')

LEMMA CommitGrows ==
    ASSUME TypeOK, NEW b, NEW keys \in KeyMap, NEW S,
           CommitBlock(b, keys, S), authorities' = authorities,
           \A a \in Accounts : public_keys[a] # NoKey => keys[a] = public_keys[a]
    PROVE  Grows
<1>1. blocks' = Append(blocks, b) /\ public_keys' = keys
  BY DEF CommitBlock
<1>2. Len(blocks') = Len(blocks) + 1 /\ Len(blocks) \in Nat
  BY <1>1 DEF TypeOK, Memory, ChainFile
<1> QED  BY <1>1, <1>2 DEF Grows

LEMMA SealGrows ==
    ASSUME TypeOK, NEW sendable, SealPending(sendable)
    PROVE  Grows
<1>1. CASE UNCHANGED <<ledger, pool, disk, announced>>
  BY <1>1 DEF Grows, ledger, TypeOK, Memory, ChainFile
<1>2. ASSUME NEW batch \in Drained(mempool), SealCommits(batch, sendable)
      PROVE  Grows
  <2>1. public_keys \in KeyMap
    BY DEF TypeOK, Memory, ChainFile
  <2> QED  BY <1>2, <2>1, CommitGrows DEF SealCommits
<1> QED  BY <1>1, <1>2 DEF SealPending, SealFails

LEMMA StepGrows == TypeOK /\ [Next]_vars => [Running => Grows]_vars
<1> SUFFICES ASSUME TypeOK, Next, Running PROVE Grows
  BY DEF Grows
<1>0. Len(blocks) \in Nat /\ public_keys \in KeyMap
  BY DEF TypeOK, Memory, ChainFile
<1>1. ASSUME NEW t \in Txs, Submit(t) PROVE Grows
  BY <1>0, <1>1 DEF Submit, ledger, Grows
<1>2. ASSUME NEW t \in Txs, GossipTransaction(t) PROVE Grows
  BY <1>0, <1>2 DEF GossipTransaction, Grows, KeyMap
<1>3. CASE SealAfterSubmit \/ Tick
  BY <1>3, SealGrows DEF SealAfterSubmit, Tick
<1>4. ASSUME NEW name, NEW key, RegisterAccount(name, key) PROVE Grows
  BY <1>0, <1>4 DEF RegisterAccount, Grows, KeyMap
<1>5. ASSUME NEW s \in Snapshots, ReceiveBlock(s) PROVE Grows
  <2> DEFINE b    == s.blocks[Len(s.blocks)]
             keys == MergeBlockAccounts(public_keys, s.accounts, b)
  <2>1. keys \in KeyMap
    BY <1>0, SnapshotType DEF MergeBlockAccounts, KeyMap
  <2>2. \A a \in Accounts : public_keys[a] # NoKey => keys[a] = public_keys[a]
    BY DEF MergeBlockAccounts
  <2>3. CommitBlock(b, keys, mempool) /\ authorities' = authorities
    BY <1>5 DEF ReceiveBlock
  <2> QED  BY <2>1, <2>2, <2>3, CommitGrows
<1>6. ASSUME NEW s \in Snapshots, ReceiveChain(s) PROVE Grows
  <2>1. /\ blocks' = s.blocks /\ Len(blocks) < Len(blocks')
        /\ public_keys' = MergeAccounts(public_keys, s.accounts)
        /\ authorities' = MergeAuthorities(authorities, public_keys', s.authorities)
    BY <1>6 DEF ReceiveChain
  <2>2. Len(blocks') \in Nat
    BY <2>1, SnapshotType
  <2> QED  BY <1>0, <2>1, <2>2 DEF MergeAccounts, MergeAuthorities, Grows
<1>7. ~ Crash /\ ~ Shutdown /\ ~ Start
  BY DEF Crash, Shutdown, Start, Stop, Running
<1> QED
  BY <1>1, <1>2, <1>3, <1>4, <1>5, <1>6, <1>7 DEF Next

\* No block, chain, gossiped transaction or registration rebinds a known name,
\* unlearns it, removes an authority or shortens the chain of a running node.
THEOREM NamesStayBound == Spec => KeysNeverRebound
<1>1. Init => TypeOK
  BY InitType
<1>2. TypeOK /\ [Next]_vars => TypeOK'
  BY NextType
<1>3. TypeOK /\ [Next]_vars => [Running => Grows]_vars
  BY StepGrows
<1>4. [][Running => Grows]_vars => KeysNeverRebound
  BY PTL DEF KeysNeverRebound, Grows
<1> QED  BY <1>1, <1>2, <1>3, <1>4, PTL DEF Spec

-----------------------------------------------------------------------------
(***************************************************************************)
(* Nothing is applied twice. The invariant is kept of the file too, for    *)
(* the restart.                                                            *)
(***************************************************************************)

MemoryUnique == transaction_index = Ids(blocks) /\ Unique(blocks, nonces)

ReplayInv == TypeOK /\ MemoryUnique /\ Unique(disk.blocks, disk.nonces)

LEMMA SaveUnique ==
    ASSUME ReplayInv, MemoryUnique', disk' = disk \/ disk' = Memory'
    PROVE  Unique(disk'.blocks, disk'.nonces)
<1>1. Memory'.blocks = blocks' /\ Memory'.nonces = nonces'
  BY DEF Memory
<1> QED  BY <1>1 DEF MemoryUnique, ReplayInv

LEMMA CommitUnique ==
    ASSUME ReplayInv, TypeOK', NEW b \in Block, NEW keys, NEW S,
           Extends(b, keys), CommitBlock(b, keys, S)
    PROVE  MemoryUnique'
<1> DEFINE after == StateAfter(State, <<b>>)
<1>1. /\ blocks' = Append(blocks, b) /\ nonces' = after.nonces
      /\ transaction_index' = transaction_index \cup Ids(<<b>>)
  BY DEF CommitBlock, Indexed
<1>2. /\ blocks \in Seq(Block) /\ nonces \in [Accounts -> Nat]
      /\ nonces' \in [Accounts -> Nat] /\ State \in LedgerState /\ State.nonces = nonces
  BY DEF ReplayInv, TypeOK, Memory, ChainFile, State, LedgerState
<1>3. TransactionsApply(keys, transaction_index, State, <<b>>)
  BY DEF Extends, BlockValid
<1>4. <<b>> \in Seq(Block)
  OBVIOUS
<1> HIDE DEF after
<1>5. /\ Unique(<<b>>, nonces')
      /\ \A a \in Accounts : nonces[a] <= nonces'[a]
      /\ \A p \in Slots(<<b>>) :
           /\ Id(TxAt(<<b>>, p)) \notin Ids(blocks)
           /\ TxAt(<<b>>, p).sender # Mint =>
                nonces[TxAt(<<b>>, p).sender] <= TxAt(<<b>>, p).nonce
  BY <1>1, <1>2, <1>3, <1>4, AppliedUnique DEF after, ReplayInv, MemoryUnique
<1>6. Unique(blocks', nonces')
  BY <1>1, <1>2, <1>5, AppendUnique DEF ReplayInv, MemoryUnique
<1>7. transaction_index' = Ids(blocks')
  BY <1>1, <1>2, AppendIds DEF ReplayInv, MemoryUnique
<1> QED  BY <1>6, <1>7 DEF MemoryUnique

LEMMA SealUnique ==
    ASSUME ReplayInv, TypeOK', NEW sendable, SealPending(sendable)
    PROVE  MemoryUnique' /\ (disk' = disk \/ disk' = Memory')
<1>1. CASE UNCHANGED <<ledger, pool, disk, announced>>
  BY <1>1 DEF ledger, ReplayInv, MemoryUnique
<1>2. ASSUME NEW batch \in Drained(mempool), SealCommits(batch, sendable)
      PROVE  MemoryUnique' /\ (disk' = disk \/ disk' = Memory')
  <2>1. batch \in Seq(Txs)
    BY DrainedType DEF ReplayInv, TypeOK
  <2>2. SealedBlock(batch) \in Block
    BY <2>1, IdentityAssumption DEF SealedBlock, Block
  <2>3. disk' = disk \/ disk' = Memory'
    BY <1>2 DEF SealCommits, Save
  <2> QED  BY <1>2, <2>2, <2>3, CommitUnique DEF SealCommits
<1> QED  BY <1>1, <1>2 DEF SealPending, SealFails

LEMMA ReplayStep == ReplayInv /\ [Next]_vars => ReplayInv'
<1> SUFFICES ASSUME ReplayInv, [Next]_vars PROVE ReplayInv'
  OBVIOUS
<1>0. TypeOK /\ TypeOK'
  BY NextType DEF ReplayInv
<1> SUFFICES MemoryUnique' /\ Unique(disk'.blocks, disk'.nonces)
  BY <1>0 DEF ReplayInv
<1>1. ASSUME UNCHANGED <<blocks, nonces, transaction_index>>, disk' = disk \/ disk' = Memory'
      PROVE  MemoryUnique' /\ Unique(disk'.blocks, disk'.nonces)
  <2>1. MemoryUnique'
    BY <1>1 DEF ReplayInv, MemoryUnique
  <2> QED  BY <1>1, <2>1, SaveUnique
<1>2. ASSUME NEW t \in Txs, Submit(t) \/ GossipTransaction(t)
      PROVE  MemoryUnique' /\ Unique(disk'.blocks, disk'.nonces)
  BY <1>1, <1>2 DEF Submit, GossipTransaction, ledger
<1>3. CASE SealAfterSubmit \/ Tick
  BY <1>0, <1>3, SealUnique, SaveUnique DEF SealAfterSubmit, Tick
<1>4. ASSUME NEW name, NEW key, RegisterAccount(name, key)
      PROVE  MemoryUnique' /\ Unique(disk'.blocks, disk'.nonces)
  BY <1>1, <1>4 DEF RegisterAccount, Save
<1>5. ASSUME NEW s \in Snapshots, ReceiveBlock(s)
      PROVE  MemoryUnique' /\ Unique(disk'.blocks, disk'.nonces)
  <2> DEFINE b    == s.blocks[Len(s.blocks)]
             keys == MergeBlockAccounts(public_keys, s.accounts, b)
  <2>1. Len(s.blocks) = Len(blocks) + 1 /\ blocks \in Seq(Block)
    BY <1>0, <1>5 DEF ReceiveBlock, TypeOK, Memory, ChainFile
  <2>2. b \in Block
    BY <2>1, SnapshotType
  <2>3. Extends(b, keys) /\ CommitBlock(b, keys, mempool) /\ (disk' = disk \/ disk' = Memory')
    BY <1>5 DEF ReceiveBlock, Save
  <2> QED  BY <1>0, <2>2, <2>3, CommitUnique, SaveUnique
<1>6. ASSUME NEW s \in Snapshots, ReceiveChain(s)
      PROVE  MemoryUnique' /\ Unique(disk'.blocks, disk'.nonces)
  <2> DEFINE keys  == MergeAccounts(public_keys, s.accounts)
             auths == MergeAuthorities(authorities, keys, s.authorities)
             after == StateAfter(InitialState, s.blocks)
  <2>1. /\ ChainValid(auths, keys, s.blocks)
        /\ blocks' = s.blocks /\ nonces' = after.nonces /\ transaction_index' = Ids(s.blocks)
        /\ disk' = disk \/ disk' = Memory'
    BY <1>6 DEF ReceiveChain, Save
  <2>2. Unique(s.blocks, after.nonces)
    BY <2>1, SnapshotType, InitialStateType, AppliedUnique DEF ChainValid
  <2>3. MemoryUnique'
    BY <2>1, <2>2 DEF MemoryUnique
  <2> QED  BY <2>1, <2>3, SaveUnique
<1>7. CASE Crash
  BY <1>1, <1>7 DEF Crash, ledger
<1>8. CASE Shutdown
  <2>1. CASE UNCHANGED <<ledger, pool, disk, announced>>
    BY <1>1, <2>1 DEF ledger
  <2>2. CASE SealPending({FALSE})
    BY <1>0, <2>2, SealUnique, SaveUnique
  <2> QED  BY <1>8, <2>1, <2>2 DEF Shutdown
<1>9. CASE Start
  <2>1. /\ blocks' = disk.blocks /\ nonces' = disk.nonces
        /\ transaction_index' = Ids(disk.blocks) /\ disk' = Memory'
    BY <1>9 DEF Start, Save
  <2>2. MemoryUnique'
    BY <2>1 DEF ReplayInv, MemoryUnique
  <2> QED  BY <2>1, <2>2, SaveUnique
<1>10. CASE UNCHANGED vars
  BY <1>1, <1>10 DEF vars, ledger
<1> QED
  BY <1>2, <1>3, <1>4, <1>5, <1>6, <1>7, <1>8, <1>9, <1>10 DEF Next

LEMMA ReplayInit == Init => ReplayInv
<1> SUFFICES ASSUME Init PROVE ReplayInv
  OBVIOUS
<1>1. Slots(<<Genesis>>) = {}
  BY DEF Slots, Genesis
<1>2. blocks = <<Genesis>> /\ disk.blocks = <<Genesis>> /\ transaction_index = {}
  BY DEF Init, Memory
<1> QED  BY <1>1, <1>2, InitType DEF ReplayInv, MemoryUnique, Unique, Ids

\* The same payment is never applied twice: on every chain the node holds, own,
\* adopted or loaded, no id occurs twice and no sender reuses a nonce.
THEOREM NothingReplayed == Spec => []NoReplay
<1>1. Init => ReplayInv
  BY ReplayInit
<1>2. ReplayInv /\ [Next]_vars => ReplayInv'
  BY ReplayStep
<1>3. ReplayInv => NoReplay
  BY DEF ReplayInv, MemoryUnique, Unique, NoReplay
<1> QED  BY <1>1, <1>2, <1>3, PTL DEF Spec

-----------------------------------------------------------------------------
(***************************************************************************)
(* The invariant: of memory it says everything a replay would, and of the  *)
(* file that it was memory once, so that a start finds it as it was left.  *)
(***************************************************************************)
FileReplay ==
    /\ [balances |-> disk.balances, nonces |-> disk.nonces]
         = StateAfter(InitialState, disk.blocks)
    /\ ChainValid(disk.authorities, disk.public_keys, disk.blocks)

ChainInv == TypeOK /\ CachesAreReplay /\ FileReplay

LEMMA MemoryFields ==
    ASSUME TypeOK
    PROVE  /\ blocks \in Seq(Block) /\ authorities \subseteq Accounts
           /\ balances \in [Accounts -> 0 .. MaxAmount] /\ nonces \in [Accounts -> Nat]
           /\ public_keys \in KeyMap /\ State \in LedgerState
BY DEF TypeOK, Memory, ChainFile, State, LedgerState

LEMMA SaveReplay ==
    ASSUME ChainInv, CachesAreReplay', disk' = disk \/ disk' = Memory'
    PROVE  FileReplay'
<1>1. CASE disk' = disk
  BY <1>1 DEF ChainInv, FileReplay
<1>2. CASE disk' = Memory'
  <2>1. /\ disk'.blocks = blocks' /\ disk'.balances = balances' /\ disk'.nonces = nonces'
        /\ disk'.authorities = authorities' /\ disk'.public_keys = public_keys'
    BY <1>2 DEF Memory
  <2> QED  BY <2>1 DEF CachesAreReplay, FileReplay, State
<1> QED  BY <1>1, <1>2

LEMMA CommitReplay ==
    ASSUME ChainInv, NEW b \in Block, NEW keys, KeepsKeys(public_keys, keys), NEW S,
           Extends(b, keys), CommitBlock(b, keys, S), authorities' = authorities
    PROVE  CachesAreReplay'
<1> DEFINE after == StateAfter(State, <<b>>)
<1>1. /\ blocks' = Append(blocks, b) /\ public_keys' = keys
      /\ transaction_index' = transaction_index \cup Ids(<<b>>)
      /\ balances' = after.balances /\ nonces' = after.nonces
  BY DEF CommitBlock, Indexed
<1>2. blocks \in Seq(Block) /\ State = StateAfter(InitialState, blocks)
      /\ transaction_index = Ids(blocks) /\ ChainValid(authorities, public_keys, blocks)
  BY MemoryFields DEF ChainInv, CachesAreReplay
<1>3. State' = StateAfter(InitialState, blocks')
  <2>1. after = StateAfter(InitialState, Append(blocks, b))
    BY <1>2, ReplayAppend, InitialStateType
  <2>2. State' = after
    BY <1>1 DEF State, StateAfter
  <2> QED  BY <1>1, <2>1, <2>2
<1>4. transaction_index' = Ids(blocks')
  BY <1>1, <1>2, AppendIds
<1>5. ChainValid(authorities, keys, blocks)
  BY <1>2, ValidWithMore
<1>6. BlockValid(authorities, keys, Ids(blocks), StateAfter(InitialState, blocks), b)
  BY <1>2 DEF Extends
<1>7. ChainValid(authorities', public_keys', blocks')
  BY <1>1, <1>2, <1>5, <1>6, ValidAppend
<1> QED  BY <1>3, <1>4, <1>7 DEF CachesAreReplay

LEMMA SealReplay ==
    ASSUME ChainInv, NEW sendable, SealPending(sendable)
    PROVE  CachesAreReplay' /\ (disk' = disk \/ disk' = Memory')
<1>1. CASE UNCHANGED <<ledger, pool, disk, announced>>
  BY <1>1 DEF ledger, ChainInv, CachesAreReplay, State
<1>2. ASSUME NEW batch \in Drained(mempool), SealCommits(batch, sendable)
      PROVE  CachesAreReplay' /\ (disk' = disk \/ disk' = Memory')
  <2>1. batch \in Seq(Txs)
    BY DrainedType DEF ChainInv, TypeOK
  <2>2. SealedBlock(batch) \in Block
    BY <2>1, IdentityAssumption DEF SealedBlock, Block
  <2>3. disk' = disk \/ disk' = Memory'
    BY <1>2 DEF SealCommits, Save
  <2>4. KeepsKeys(public_keys, public_keys)
    BY DEF KeepsKeys
  <2> QED  BY <1>2, <2>2, <2>3, <2>4, CommitReplay DEF SealCommits
<1> QED  BY <1>1, <1>2 DEF SealPending, SealFails

\* Keys were learned, nothing else that a replay reads.
LEMMA LearnReplay ==
    ASSUME ChainInv, KeepsKeys(public_keys, public_keys'),
           UNCHANGED <<blocks, authorities, balances, nonces, transaction_index>>
    PROVE  CachesAreReplay'
<1>1. ChainValid(authorities, public_keys', blocks)
  BY MemoryFields, ValidWithMore DEF ChainInv, CachesAreReplay
<1> QED  BY <1>1 DEF ChainInv, CachesAreReplay, State

LEMMA ChainStep == ChainInv /\ [Next]_vars => ChainInv'
<1> SUFFICES ASSUME ChainInv, [Next]_vars PROVE ChainInv'
  OBVIOUS
<1>0. TypeOK /\ TypeOK'
  BY NextType DEF ChainInv
<1> SUFFICES CachesAreReplay' /\ FileReplay'
  BY <1>0 DEF ChainInv
<1>1. ASSUME UNCHANGED ledger, disk' = disk PROVE CachesAreReplay' /\ FileReplay'
  BY <1>1 DEF ledger, ChainInv, CachesAreReplay, FileReplay, State
<1>2. ASSUME NEW t \in Txs, Submit(t) PROVE CachesAreReplay' /\ FileReplay'
  BY <1>1, <1>2 DEF Submit
<1>3. ASSUME NEW t \in Txs, GossipTransaction(t) PROVE CachesAreReplay' /\ FileReplay'
  <2>1. KeepsKeys(public_keys, public_keys')
    BY <1>0, <1>3, MemoryFields DEF GossipTransaction, KeepsKeys, KeyMap
  <2>2. CachesAreReplay' /\ disk' = disk
    BY <1>3, <2>1, LearnReplay DEF GossipTransaction
  <2> QED  BY <2>2, SaveReplay
<1>4. CASE SealAfterSubmit \/ Tick
  BY <1>4, SealReplay, SaveReplay DEF SealAfterSubmit, Tick
<1>5. ASSUME NEW t \in Txs, RegisterAccount(t.sender, t.key)
      PROVE  CachesAreReplay' /\ FileReplay'
  <2>1. KeepsKeys(public_keys, public_keys')
    BY <1>0, <1>5, MemoryFields DEF RegisterAccount, KeepsKeys, KeyMap
  <2>2. CachesAreReplay' /\ (disk' = disk \/ disk' = Memory')
    BY <1>5, <2>1, LearnReplay DEF RegisterAccount, Save
  <2> QED  BY <2>2, SaveReplay
<1>6. ASSUME NEW s \in Snapshots, ReceiveBlock(s) PROVE CachesAreReplay' /\ FileReplay'
  <2> DEFINE b    == s.blocks[Len(s.blocks)]
             keys == MergeBlockAccounts(public_keys, s.accounts, b)
  <2>1. Len(s.blocks) = Len(blocks) + 1 /\ blocks \in Seq(Block)
    BY <1>0, <1>6, MemoryFields DEF ReceiveBlock
  <2>2. b \in Block
    BY <2>1, SnapshotType
  <2>3. /\ Extends(b, keys) /\ CommitBlock(b, keys, mempool) /\ authorities' = authorities
        /\ disk' = disk \/ disk' = Memory'
    BY <1>6 DEF ReceiveBlock, Save
  <2>4. KeepsKeys(public_keys, keys)
    BY DEF MergeBlockAccounts, KeepsKeys
  <2> HIDE DEF b, keys
  <2> QED  BY <2>2, <2>3, <2>4, CommitReplay, SaveReplay
<1>7. ASSUME NEW s \in Snapshots, ReceiveChain(s) PROVE CachesAreReplay' /\ FileReplay'
  <2> DEFINE keys  == MergeAccounts(public_keys, s.accounts)
             auths == MergeAuthorities(authorities, keys, s.authorities)
             after == StateAfter(InitialState, s.blocks)
  <2>1. /\ ChainValid(auths, keys, s.blocks)
        /\ blocks' = s.blocks /\ authorities' = auths /\ public_keys' = keys
        /\ balances' = after.balances /\ nonces' = after.nonces
        /\ transaction_index' = Ids(s.blocks)
        /\ disk' = disk \/ disk' = Memory'
    BY <1>7 DEF ReceiveChain, Save
  <2>2. State' = after
    BY <2>1 DEF State, StateAfter
  <2>3. CachesAreReplay'
    BY <2>1, <2>2 DEF CachesAreReplay
  <2> QED  BY <2>1, <2>3, SaveReplay
<1>8. CASE Crash
  BY <1>1, <1>8 DEF Crash
<1>9. CASE Shutdown
  <2>1. CASE UNCHANGED <<ledger, pool, disk, announced>>
    BY <1>1, <2>1
  <2>2. CASE SealPending({FALSE})
    BY <2>2, SealReplay, SaveReplay
  <2> QED  BY <1>9, <2>1, <2>2 DEF Shutdown
<1>10. CASE Start
  <2> DEFINE keys == StartKeys(disk.authorities, disk.public_keys)
  <2>1. /\ blocks' = disk.blocks /\ authorities' = disk.authorities
        /\ balances' = disk.balances /\ nonces' = disk.nonces /\ public_keys' = keys
        /\ transaction_index' = Ids(disk.blocks) /\ disk' = Memory'
        /\ ChainValid(disk.authorities, keys, disk.blocks)
    BY <1>10 DEF Start, Save
  <2>2. State' = StateAfter(InitialState, disk.blocks)
    BY <2>1 DEF State, ChainInv, FileReplay
  <2>3. CachesAreReplay'
    BY <2>1, <2>2 DEF CachesAreReplay
  <2> QED  BY <2>1, <2>3, SaveReplay
<1>11. CASE UNCHANGED vars
  BY <1>1, <1>11 DEF vars
<1> QED
  BY <1>2, <1>3, <1>4, <1>5, <1>6, <1>7, <1>8, <1>9, <1>10, <1>11 DEF Next

LEMMA ChainInit == Init => ChainInv
<1> SUFFICES ASSUME Init PROVE ChainInv
  OBVIOUS
<1> DEFINE bs == <<Genesis>>
<1>1. bs \in Seq(Block) /\ Slots(bs) = {} /\ DOMAIN bs \ {1} = {}
  BY GenesisType DEF Slots, Genesis
<1>2. /\ blocks = bs /\ disk = Memory /\ transaction_index = {}
      /\ balances = InitialBalances /\ nonces = [a \in Accounts |-> 0]
  BY DEF Init
<1> HIDE DEF bs
<1>3. Ids(bs) = {}
  BY <1>1 DEF Ids
<1>4. ASSUME NEW a \in Accounts
      PROVE  /\ BalanceAfter(InitialState, bs, {}, a) = InitialBalances[a]
             /\ NonceAfter(InitialState, bs, {}, a) = 0
  <2>1. SentBy(bs, {}, a) = {} /\ ReceivedBy(bs, {}, a) = {}
    BY DEF SentBy, ReceivedBy
  <2>2. AmountAt(bs, {}) = 0 /\ Cardinality({}) = 0
    BY AmountAtNone, FS_EmptySet
  <2>3. InitialBalances[a] \in Nat
    BY AllocationAssumption
  <2> QED  BY <2>1, <2>2, <2>3 DEF BalanceAfter, NonceAfter, InitialState
<1>5. InitialBalances \in [Accounts -> 0 .. MaxAmount]
  BY AllocationAssumption
<1>6. StateAfter(InitialState, bs) = InitialState
  BY <1>1, <1>4, <1>5 DEF StateAfter, InitialState
<1>7. WithinWidth(InitialState, bs, Slots(bs))
  BY <1>1, <1>4, <1>5 DEF WithinWidth
<1>8. \A auths, keys : ChainValid(auths, keys, bs)
  BY <1>1, <1>7 DEF ChainValid, TransactionsApply
<1>9. CachesAreReplay
  BY <1>2, <1>3, <1>6, <1>8 DEF CachesAreReplay, State, InitialState
<1>10. FileReplay
  BY <1>2, <1>6, <1>8 DEF FileReplay, Memory, InitialState
<1> QED  BY <1>9, <1>10, InitType DEF ChainInv

\* Balances, nonces and index, moved block by block, replaced or loaded, are at
\* any moment those of a replay of the whole chain, and the chain is valid.
THEOREM CachesStayReplay == Spec => []CachesAreReplay
<1>1. Init => ChainInv
  BY ChainInit
<1>2. ChainInv /\ [Next]_vars => ChainInv'
  BY ChainStep
<1>3. ChainInv => CachesAreReplay
  BY DEF ChainInv
<1> QED  BY <1>1, <1>2, <1>3, PTL DEF Spec

-----------------------------------------------------------------------------
(***************************************************************************)
(* The next start binds the node's own name to its own key, so the file is *)
(* only sure to pass if that name was never bound to another: either the   *)
(* node is an authority of the file it started from, or nobody lays claim  *)
(* to its name.                                                            *)
(***************************************************************************)
NameIsOurs ==
    \/ Self \in InitialAuthorities
    \/ /\ InitialKeys[Self] \in {NoKey, SelfKey}
       /\ \A s \in Snapshots : s.accounts[Self] \in {NoKey, SelfKey}
       /\ \A t \in Txs : t.sender = Self => t.key = SelfKey

\* The keys this node may go by: its own, or none before it is an authority.
OwnKeys == IF Self \in InitialAuthorities THEN {SelfKey} ELSE {NoKey, SelfKey}

\* In memory and on the file, its name is bound to no other key.
NameInv ==
    /\ TypeOK
    /\ public_keys[Self] \in OwnKeys
    /\ disk.public_keys[Self] \in OwnKeys

LEMMA NameKept ==
    ASSUME NameIsOurs, NameInv, public_keys'[Self] \in OwnKeys,
           disk' = disk \/ disk' = Memory'
    PROVE  disk'.public_keys[Self] \in OwnKeys
<1>1. disk' = Memory' => disk'.public_keys[Self] = public_keys'[Self]
  BY DEF Memory
<1> QED  BY <1>1 DEF NameInv

LEMMA SealSaves ==
    ASSUME NEW sendable, SealPending(sendable)
    PROVE  public_keys' = public_keys /\ (disk' = disk \/ disk' = Memory')
<1>1. CASE UNCHANGED <<ledger, pool, disk, announced>>
  BY <1>1 DEF ledger
<1>2. ASSUME NEW batch, SealCommits(batch, sendable)
      PROVE  public_keys' = public_keys /\ (disk' = disk \/ disk' = Memory')
  BY <1>2 DEF SealCommits, CommitBlock, Save
<1> QED  BY <1>1, <1>2 DEF SealPending, SealFails

LEMMA NameStep ==
    ASSUME NameIsOurs
    PROVE  NameInv /\ [Next]_vars => NameInv'
<1> SUFFICES ASSUME NameInv, [Next]_vars PROVE NameInv'
  OBVIOUS
<1>0. TypeOK /\ TypeOK' /\ public_keys \in KeyMap /\ Self \in Accounts
      /\ SelfKey # NoKey
  BY NextType, MemoryFields, IdentityAssumption, KeyAssumption DEF NameInv
<1> SUFFICES public_keys'[Self] \in OwnKeys /\ disk'.public_keys[Self] \in OwnKeys
  BY <1>0 DEF NameInv
<1>1. ASSUME public_keys' = public_keys, disk' = disk \/ disk' = Memory'
      PROVE  public_keys'[Self] \in OwnKeys /\ disk'.public_keys[Self] \in OwnKeys
  BY <1>1, NameKept DEF NameInv
<1>2. ASSUME NEW t \in Txs, Submit(t)
      PROVE  public_keys'[Self] \in OwnKeys /\ disk'.public_keys[Self] \in OwnKeys
  BY <1>1, <1>2 DEF Submit, ledger
<1>3. ASSUME NEW t \in Txs, GossipTransaction(t) \/ RegisterAccount(t.sender, t.key)
      PROVE  public_keys'[Self] \in OwnKeys /\ disk'.public_keys[Self] \in OwnKeys
  <2>1. /\ public_keys[t.sender] \in {NoKey, t.key}
        /\ public_keys' = [public_keys EXCEPT ![t.sender] = t.key]
        /\ disk' = disk \/ disk' = Memory'
    BY <1>3 DEF GossipTransaction, RegisterAccount, Save
  <2>2. public_keys'[Self] \in OwnKeys
    BY <1>0, <2>1 DEF NameInv, NameIsOurs, OwnKeys, KeyMap
  <2> QED  BY <2>1, <2>2, NameKept
<1>4. CASE SealAfterSubmit \/ Tick
  BY <1>1, <1>4, SealSaves DEF SealAfterSubmit, Tick
<1>5. ASSUME NEW s \in Snapshots, ReceiveBlock(s) \/ ReceiveChain(s)
      PROVE  public_keys'[Self] \in OwnKeys /\ disk'.public_keys[Self] \in OwnKeys
  <2>1. public_keys'[Self] \in {public_keys[Self], s.accounts[Self]}
        /\ (public_keys[Self] # NoKey => public_keys'[Self] = public_keys[Self])
        /\ (disk' = disk \/ disk' = Memory')
    BY <1>0, <1>5 DEF ReceiveBlock, ReceiveChain, CommitBlock, Save,
                      MergeBlockAccounts, MergeAccounts
  <2>2. public_keys'[Self] \in OwnKeys
    BY <1>0, <2>1 DEF NameInv, NameIsOurs, OwnKeys
  <2> QED  BY <2>1, <2>2, NameKept
<1>6. CASE Crash
  BY <1>1, <1>6 DEF Crash, ledger
<1>7. CASE Shutdown
  <2>1. CASE UNCHANGED <<ledger, pool, disk, announced>>
    BY <1>1, <2>1 DEF ledger
  <2>2. CASE SealPending({FALSE})
    BY <1>1, <2>2, SealSaves
  <2> QED  BY <1>7, <2>1, <2>2 DEF Shutdown
<1>8. CASE Start
  <2>1. public_keys' = StartKeys(disk.authorities, disk.public_keys) /\ disk' = Memory'
    BY <1>8 DEF Start, Save
  <2>2. disk.public_keys \in KeyMap
    BY <1>0 DEF TypeOK, ChainFile
  <2>3. public_keys'[Self] \in {SelfKey, disk.public_keys[Self]}
    BY <1>0, <2>1, <2>2 DEF StartKeys, KeyMap
  <2>4. public_keys'[Self] \in OwnKeys
    BY <2>3 DEF NameInv, OwnKeys
  <2> QED  BY <2>1, <2>4, NameKept
<1>9. CASE UNCHANGED vars
  BY <1>1, <1>9 DEF vars, ledger
<1> QED
  BY <1>2, <1>3, <1>4, <1>5, <1>6, <1>7, <1>8, <1>9 DEF Next

\* Whatever was saved last, the file passes the validation of the next start,
\* also after that start has written the node's own key into it: provided
\* nobody else goes by the node's name.
THEOREM FileAlwaysStarts ==
    ASSUME NameIsOurs
    PROVE  Spec => []FileStarts
<1>1. Init => ChainInv /\ NameInv
  <2> SUFFICES ASSUME Init PROVE NameInv
    BY ChainInit
  <2>1. /\ public_keys = StartKeys(InitialAuthorities, InitialKeys)
        /\ disk.public_keys = public_keys /\ InitialKeys \in KeyMap /\ Self \in Accounts
    BY IdentityAssumption DEF Init, Memory
  <2>2. public_keys[Self] \in OwnKeys
    BY <2>1 DEF StartKeys, KeyMap, OwnKeys, NameIsOurs
  <2> QED  BY <2>1, <2>2, InitType DEF NameInv
<1>2. ChainInv /\ [Next]_vars => ChainInv'
  BY ChainStep
<1>3. NameInv /\ [Next]_vars => NameInv'
  BY NameStep
<1>4. ChainInv /\ NameInv => FileStarts
  <2> SUFFICES ASSUME ChainInv, NameInv PROVE FileStarts
    OBVIOUS
  <2>1. disk.public_keys \in KeyMap /\ disk.blocks \in Seq(Block)
    BY DEF NameInv, TypeOK, ChainFile
  <2>2. KeepsKeys(disk.public_keys, StartKeys(disk.authorities, disk.public_keys))
    BY <2>1 DEF KeepsKeys, StartKeys, NameInv, OwnKeys, KeyMap
  <2> QED  BY <2>1, <2>2, ValidWithMore DEF ChainInv, FileReplay, FileStarts
<1> QED  BY <1>1, <1>2, <1>3, <1>4, PTL DEF Spec

-----------------------------------------------------------------------------
(***************************************************************************)
(* Value: what one account is credited another is debited, but for the     *)
(* mint.                                                                   *)
(***************************************************************************)
\* Replaying the chain, transfers move value and the mint makes it: the supply
\* is what there was at first and what the mint has issued since.
THEOREM ValueConserved == Spec => []Conservation
<1>1. Init => ChainInv
  BY ChainInit
<1>2. ChainInv /\ [Next]_vars => ChainInv'
  BY ChainStep
<1>3. ChainInv => Conservation
  <2> SUFFICES ASSUME ChainInv PROVE Conservation
    OBVIOUS
  <2> DEFINE now == [a \in Accounts |-> BalanceAfter(InitialState, blocks, Slots(blocks), a)]
  <2>1. blocks \in Seq(Block) /\ balances \in [Accounts -> 0 .. MaxAmount]
    BY MemoryFields DEF ChainInv
  <2>2. balances = now
    BY DEF ChainInv, CachesAreReplay, State, StateAfter
  <2>3. SumFunctionOnSet(now, Accounts)
          = SumFunction(InitialState.balances) + AmountAt(blocks, SentBy(blocks, Slots(blocks), Mint))
    BY <2>1, SupplyAfter, InitialStateType
  <2>4. Supply = SumFunctionOnSet(balances, Accounts)
    BY <2>1 DEF Supply, SumFunction
  <2>5. InitialState.balances = InitialBalances
    BY DEF InitialState
  <2> HIDE DEF now
  <2> QED  BY <2>2, <2>3, <2>4, <2>5 DEF Conservation
<1> QED  BY <1>1, <1>2, <1>3, PTL DEF Spec
=============================================================================
