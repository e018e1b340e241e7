------------------------------- MODULE Ledger -------------------------------
(***************************************************************************)
(* One running node: the Blockchain it shares behind a mutex, its chain    *)
(* file and the handlers that change them.  Every action below is what     *)
(* happens between taking the lock and releasing it, so the interleavings  *)
(* are those of the tasks of the node: the two APIs, the block-time loop,  *)
(* the swarm loop and the shutdown path.                                   *)
(***************************************************************************)
EXTENDS Blockchain

CONSTANTS
    Self, SelfKey,        \* NodeIdentity: the name and key this node seals with
    InitialAuthorities,   \* authorities and keys of the chain file the node
    InitialKeys,          \*   starts from, before it registers its own
    Snapshots,            \* the chains peers may hold and send
    MaxSealers            \* bound: submits about to seal at the same time

ASSUME IdentityAssumption ==
    /\ Self \in Accounts \ {Mint}
    /\ SelfKey \in Keys
    /\ InitialAuthorities \subseteq Accounts
    /\ InitialKeys \in KeyMap
ASSUME SnapshotAssumption ==
    Snapshots \subseteq
        [blocks : Seq(Block), accounts : KeyMap, authorities : SUBSET Accounts]
ASSUME SealerAssumption == MaxSealers \in Nat \ {0}

VARIABLES
    blocks, authorities, balances, nonces, public_keys,   \* persisted fields
    transaction_index,   \* ids on chain, rebuilt on load
    mempool, bytes,      \* pending transactions and their cached weight
    disk,                \* the chain file
    is_authority,        \* decided once, at start
    sealers,             \* submits that released the lock and will seal
    announced,           \* heights of the blocks we sealed and announced, in the
                         \* order of sealing
    phase                \* "running" or "stopped"

ledger == <<blocks, authorities, balances, nonces, public_keys, transaction_index>>
pool   == <<mempool, bytes>>
vars   == <<ledger, pool, disk, is_authority, sealers, announced, phase>>

State == [balances |-> balances, nonces |-> nonces]

Memory ==
    [blocks |-> blocks, authorities |-> authorities, balances |-> balances,
     nonces |-> nonces, public_keys |-> public_keys]

ChainFile ==
    [blocks : Seq(Block), authorities : SUBSET Accounts,
     balances : [Accounts -> 0 .. MaxAmount], nonces : [Accounts -> Nat],
     public_keys : KeyMap]

TypeOK ==
    /\ Memory \in ChainFile
    /\ disk \in ChainFile
    /\ transaction_index \subseteq {Id(t) : t \in Txs}
    /\ mempool \subseteq Txs
    /\ IsFiniteSet(mempool)
    /\ is_authority \in BOOLEAN
    /\ sealers \in 0 .. MaxSealers
    /\ announced \in Seq(Nat)
    /\ phase \in {"running", "stopped"}

\* register_authority at start, only for a name the chain already authorizes.
StartKeys(auths, keys) ==
    IF Self \in auths THEN [keys EXCEPT ![Self] = SelfKey] ELSE keys

Init ==
    /\ blocks = <<Genesis>>
    /\ authorities = InitialAuthorities
    /\ public_keys = StartKeys(InitialAuthorities, InitialKeys)
    /\ balances = InitialBalances
    /\ nonces = [a \in Accounts |-> 0]
    /\ transaction_index = {}
    /\ mempool = {} /\ bytes = 0
    /\ disk = Memory
    /\ is_authority = (Self \in InitialAuthorities)
    /\ sealers = 0
    /\ announced = <<>>
    /\ phase = "running"

-----------------------------------------------------------------------------
(***************************************************************************)
(* blockrock-core's Blockchain, with the lock held.                        *)
(***************************************************************************)

\* Bug: the keys learned with the block are merged after the file is written.
SaveOldKeys(saved) ==
    disk' = IF saved THEN [Memory' EXCEPT !.public_keys = public_keys] ELSE disk

\* save_to_file replaces the whole file or, when it fails, leaves the old one.
Save(saved) == disk' = IF saved THEN Memory' ELSE disk

\* Bug: the cached weight survives the drain.
ReconcileStaleWeight(keys, seen, st, pending) ==
    /\ mempool' = Requeued(keys, seen, st, pending)
    /\ bytes' = bytes + TotalWeight(mempool')

Reconcile(keys, seen, st, pending) ==
    /\ mempool' = Requeued(keys, seen, st, pending)
    /\ bytes' = TotalWeight(mempool')

\* Bug: the index is only rebuilt on load.
IndexedLater(index, b) == index

\* commit_block adds the transactions of the block to the index.
Indexed(index, b) == index \cup Ids(<<b>>)

CommitBlock(b, keys, pending) ==
    LET after == StateAfter(State, <<b>>)
    IN  /\ blocks' = Append(blocks, b)
        /\ transaction_index' = Indexed(transaction_index, b)
        /\ balances' = after.balances
        /\ nonces' = after.nonces
        /\ public_keys' = keys
        /\ Reconcile(keys, transaction_index', after, pending)

Extends(b, keys) == BlockValid(authorities, keys, transaction_index, State, b)

\* A transaction enters the pool, last check its weight.
Queue(t, keys) ==
    /\ ~ Refused(keys, transaction_index, State, mempool, t)
    /\ bytes + t.weight <= MaxMempoolBytes
    /\ mempool' = mempool \cup {t}
    /\ bytes' = bytes + t.weight

\* The block seal_mempool builds from a batch.
SealedBlock(batch) == [author |-> Self, key |-> SelfKey, txs |-> batch]

-----------------------------------------------------------------------------
(***************************************************************************)
(* ledger.rs: the way in for REST and gRPC, and the sealing they share     *)
(* with the block-time loop.                                               *)
(***************************************************************************)

\* is_worth_sealing, and this node may seal.
WorthSealing(weight) ==
    /\ weight >= SealThreshold
    /\ Self \in authorities
    /\ public_keys[Self] = SelfKey

\* submit, up to the release of the lock. A refusal changes nothing.
Submit(t) ==
    /\ phase = "running"
    /\ Queue(t, public_keys)
    /\ WorthSealing(bytes') => sealers < MaxSealers
    /\ sealers' = IF WorthSealing(bytes') THEN sealers + 1 ELSE sealers
    /\ UNCHANGED <<ledger, disk, is_authority, announced, phase>>

\* Bug: the block is announced whether or not it was written.
SealAnnouncesFirst(batch, sendable) ==
    /\ Extends(SealedBlock(batch), public_keys)
    /\ CommitBlock(SealedBlock(batch), public_keys, {})
    /\ UNCHANGED authorities
    /\ \E saved \in BOOLEAN, sent \in sendable :
        /\ Save(saved)
        /\ announced' = IF sent THEN Append(announced, Len(blocks)) ELSE announced

\* The batch is valid: commit, write the file, and only then announce. The
\* announcement is lost when the queue towards the swarm is full.
SealCommits(batch, sendable) ==
    /\ Extends(SealedBlock(batch), public_keys)
    /\ CommitBlock(SealedBlock(batch), public_keys, {})
    /\ UNCHANGED authorities
    /\ \E saved \in BOOLEAN, sent \in sendable :
        /\ Save(saved)
        /\ announced' = IF saved /\ sent THEN Append(announced, Len(blocks)) ELSE announced

\* Bug: the drained batch is not put back.
SealFailsEmpty(batch) ==
    /\ ~ Extends(SealedBlock(batch), public_keys)
    /\ mempool' = {} /\ bytes' = 0
    /\ UNCHANGED <<ledger, disk, announced>>

\* The batch is refused: the pool goes back to what it was before the drain.
SealFails(batch) ==
    /\ ~ Extends(SealedBlock(batch), public_keys)
    /\ UNCHANGED <<ledger, pool, disk, announced>>

\* seal_pending. `sendable` says which fates an announcement may have.
SealPending(sendable) ==
    \/ /\ mempool = {}
       /\ UNCHANGED <<ledger, pool, disk, announced>>
    \/ /\ mempool # {}
       /\ \E batch \in Drained(mempool) : SealCommits(batch, sendable) \/ SealFails(batch)

\* The rest of a submit that found the pool worth sealing. By the time it has
\* the lock again the pool may be empty, or hold something else.
SealAfterSubmit ==
    /\ phase = "running"
    /\ sealers > 0
    /\ SealPending(BOOLEAN)
    /\ sealers' = sealers - 1
    /\ UNCHANGED <<is_authority, phase>>

\* Bug: the loop waits for the threshold as well.
TickWhenWorth ==
    /\ phase = "running"
    /\ is_authority
    /\ WorthSealing(bytes)
    /\ SealPending(BOOLEAN)
    /\ UNCHANGED <<is_authority, sealers, phase>>

\* The block-time loop, which only a node that started as authority runs.
Tick ==
    /\ phase = "running"
    /\ is_authority
    /\ SealPending(BOOLEAN)
    /\ UNCHANGED <<is_authority, sealers, phase>>

-----------------------------------------------------------------------------
(***************************************************************************)
(* The other handlers: accounts, gossip and sync.                          *)
(***************************************************************************)

\* POST /accounts: the first registration of a name wins. A failed write is
\* reported, the key stays in memory.
RegisterAccount(name, key) ==
    /\ phase = "running"
    /\ name # Mint
    /\ public_keys[name] \in {NoKey, key}
    /\ public_keys' = [public_keys EXCEPT ![name] = key]
    /\ UNCHANGED <<blocks, authorities, balances, nonces, transaction_index>>
    /\ \E saved \in BOOLEAN : Save(saved)
    /\ UNCHANGED <<pool, is_authority, sealers, announced, phase>>

\* apply_transaction of the gossip protocol. The sender key that travels with
\* t is the one the peer verified t with. It is learned together with the
\* transaction or not at all, and never for the name of a validator.
GossipTransaction(t) ==
    /\ phase = "running"
    /\ public_keys[t.sender] = NoKey => t.sender \notin authorities
    /\ public_keys[t.sender] \in {NoKey, t.key}
    /\ public_keys' = [public_keys EXCEPT ![t.sender] = t.key]
    /\ Queue(t, public_keys')
    /\ UNCHANGED <<blocks, authorities, balances, nonces, transaction_index>>
    /\ UNCHANGED <<disk, is_authority, sealers, announced, phase>>

\* apply_announcement of the last block of a peer's chain: appended when it
\* extends our tip, otherwise nothing is kept of it.
ReceiveBlock(s) ==
    /\ phase = "running"
    /\ Len(s.blocks) = Len(blocks) + 1
    /\ SubSeq(s.blocks, 1, Len(blocks)) = blocks
    /\ LET b    == s.blocks[Len(s.blocks)]
           keys == MergeBlockAccounts(public_keys, s.accounts, b)
       IN  /\ Extends(b, keys)
           /\ CommitBlock(b, keys, mempool)
    /\ UNCHANGED authorities
    /\ \E saved \in BOOLEAN : Save(saved)
    /\ UNCHANGED <<is_authority, sealers, announced, phase>>

\* apply_snapshot: a longer valid chain with our genesis replaces ours, and
\* what the peer taught us to verify it stays.
ReceiveChain(s) ==
    LET keys  == MergeAccounts(public_keys, s.accounts)
        auths == MergeAuthorities(authorities, keys, s.authorities)
        after == StateAfter(InitialState, s.blocks)
    IN  /\ phase = "running"
        /\ Len(s.blocks) > Len(blocks)
        /\ s.blocks[1] = blocks[1]
        /\ ChainValid(auths, keys, s.blocks)
        /\ blocks' = s.blocks
        /\ authorities' = auths
        /\ public_keys' = keys
        /\ balances' = after.balances
        /\ nonces' = after.nonces
        /\ transaction_index' = Ids(s.blocks)
        /\ Reconcile(keys, transaction_index', after, mempool)
        /\ \E saved \in BOOLEAN : Save(saved)
        /\ UNCHANGED <<is_authority, sealers, announced, phase>>

-----------------------------------------------------------------------------
(***************************************************************************)
(* bin/node.rs: stopping and starting.                                     *)
(***************************************************************************)

Stop ==
    /\ phase' = "stopped"
    /\ sealers' = 0
    /\ UNCHANGED is_authority

\* The process dies: only the chain file is left.
Crash ==
    /\ phase = "running"
    /\ mempool' = {} /\ bytes' = 0
    /\ UNCHANGED <<ledger, disk, announced>>
    /\ Stop

\* Bug: the process exits without the final seal.
ShutdownAtOnce ==
    /\ phase = "running"
    /\ UNCHANGED <<ledger, pool, disk, announced>>
    /\ Stop

\* An orderly stop: once the servers are down, having finished or cut off the
\* submits on their way, an authority seals what is pending. Nobody is left to
\* announce the block to.
Shutdown ==
    /\ phase = "running"
    /\ \/ is_authority /\ SealPending({FALSE})
       \/ ~ is_authority /\ UNCHANGED <<ledger, pool, disk, announced>>
    /\ Stop

\* load_or_create, register_authority, validate and the first save. When
\* validation or the save fails the process exits, still stopped.
Start ==
    LET keys == StartKeys(disk.authorities, disk.public_keys)
    IN  /\ phase = "stopped"
        /\ ChainValid(disk.authorities, keys, disk.blocks)
        /\ phase' = "running"
        /\ is_authority' = (Self \in disk.authorities)
        /\ blocks' = disk.blocks
        /\ authorities' = disk.authorities
        /\ balances' = disk.balances
        /\ nonces' = disk.nonces
        /\ public_keys' = keys
        /\ transaction_index' = Ids(disk.blocks)
        /\ mempool' = {} /\ bytes' = 0
        /\ Save(TRUE)
        /\ UNCHANGED <<sealers, announced>>

Next ==
    \/ \E t \in Txs : Submit(t) \/ GossipTransaction(t)
    \/ SealAfterSubmit
    \/ Tick
    \/ \E t \in Txs : RegisterAccount(t.sender, t.key)
    \/ \E s \in Snapshots : ReceiveBlock(s) \/ ReceiveChain(s)
    \/ Crash
    \/ Shutdown
    \/ Start

Spec == Init /\ [][Next]_vars

\* The interval of the block-time loop keeps firing; a submit that owes a seal
\* is a task the runtime keeps polling.
FairSpec == Spec /\ WF_vars(Tick) /\ WF_vars(SealAfterSubmit)

-----------------------------------------------------------------------------
(***************************************************************************)
(* Safety.                                                                 *)
(***************************************************************************)

Supply == SumFunction(balances)

\* Balances, nonces and the transaction index are caches moved block by block
\* (commit_block) or replaced (try_adopt_chain): they always agree with a
\* replay of the chain from the allocation, and validate() never fails.
CachesAreReplay ==
    /\ State = StateAfter(InitialState, blocks)
    /\ transaction_index = Ids(blocks)
    /\ ChainValid(authorities, public_keys, blocks)

\* The chain file passes the validation the next start makes, with the keys
\* and authorities saved in it, whatever happened before the last save.
FileStarts ==
    ChainValid(disk.authorities, StartKeys(disk.authorities, disk.public_keys),
               disk.blocks)

\* Mempool::queue expects "chain nonce + number queued": right only if what
\* is queued from a sender is the run of nonces that starts at the chain's.
\* Blocks and chains of peers move that start under the pool's feet.
PoolContiguous ==
    \A a \in Accounts : IsRun(QueuedBy(mempool, a), nonces[a])

\* What the pool accepted can be sealed as one block, in the order drain puts
\* it, at any moment and with whatever peers did since it was accepted:
\* provided all the value there is fits in one balance.
PoolSealable ==
    /\ is_authority
    /\ phase = "running"
    /\ Supply <= MaxAmount
    => \A batch \in Drained(mempool) : Extends(SealedBlock(batch), public_keys)

\* What a sealing path relies on when it gets the lock: the block-time loop on
\* a fact decided at start, a submit on one it read before it let the lock go.
\* No chain adopted in between may take the right to seal away.
AuthorizedWhenSealing ==
    phase = "running" /\ (is_authority \/ sealers > 0) =>
        SealedBy(authorities, public_keys, SealedBlock(<<>>))

\* The cached weight of the pool is the weight of what it holds, through
\* drains, requeues and restored pools, and never above the ceiling.
PoolWeight == bytes = TotalWeight(mempool) /\ bytes <= MaxMempoolBytes

\* Nothing is spent twice: on the chain no id occurs twice and no sender but
\* the mint uses a nonce twice.
NoReplay ==
    \A p, q \in Slots(blocks) :
        LET t == TxAt(blocks, p)
            u == TxAt(blocks, q)
        IN  p # q => /\ Id(t) # Id(u)
                     /\ t.sender = u.sender /\ t.sender # Mint => t.nonce # u.nonce

\* Transfers move value and only the mint makes it.
Conservation ==
    Supply = SumFunction(InitialBalances)
               + AmountAt(blocks, SentBy(blocks, Slots(blocks), Mint))

\* No height is announced twice, not even when the node crashes and seals again
\* from an older file. (Blocks sealed at different times are different.)
NoEquivocation ==
    \A i, j \in DOMAIN announced : i < j => announced[i] < announced[j]

-----------------------------------------------------------------------------
(***************************************************************************)
(* Action properties.                                                      *)
(***************************************************************************)

Running == phase = "running" /\ phase' = "running"

\* While the node runs, no peer, gossip packet or registration rebinds a name
\* that has a key, unlearns it, removes an authority, or shortens the chain.
KeysNeverRebound ==
    [][Running =>
        /\ \A a \in Accounts : public_keys[a] # NoKey => public_keys'[a] = public_keys[a]
        /\ authorities \subseteq authorities'
        /\ Len(blocks) <= Len(blocks')]_vars

\* The account of t took part in a transaction that entered or left the chain.
Touched(t) ==
    \E id \in (transaction_index' \ transaction_index)
               \cup (transaction_index \ transaction_index') :
        t.sender \in {id[1], id[2]}

\* reconcile_mempool only lets go of an accepted transaction that was
\* confirmed, or whose sender's own history a peer's blocks changed. A failed
\* seal, or blocks about others, lose nothing.
DropsAreExplained ==
    [][Running =>
        \A t \in mempool \ mempool' : Id(t) \in transaction_index' \/ Touched(t)]_vars

\* Whatever an authority had accepted is on the chain file once the process
\* has stopped in order, unless that last write failed.
ShutdownSeals ==
    [][Shutdown /\ is_authority /\ Supply <= MaxAmount /\ disk' = Memory' =>
            \A t \in mempool : Id(t) \in Ids(disk'.blocks)]_vars

-----------------------------------------------------------------------------
(***************************************************************************)
(* Liveness.                                                               *)
(***************************************************************************)

\* Nothing stays pending for ever on a node that runs the block-time loop.
PoolDrains == \A t \in Txs : is_authority /\ t \in mempool ~> t \notin mempool
=============================================================================
