----------------------------- MODULE PoolProofs -----------------------------
(***************************************************************************)
(* The pool holds what can be sealed: its weight is counted right, every   *)
(* pending transaction is admissible and paid for, and the whole of it     *)
(* makes one valid block.  What it lets go of was confirmed or overtaken.  *)
(***************************************************************************)
EXTENDS LedgerProofs

-----------------------------------------------------------------------------
(***************************************************************************)
(* The cached weight.                                                      *)
(***************************************************************************)
WeightInv == TypeOK /\ PoolWeight

\* After a reconciliation of the pool, or of an emptied one.
LEMMA ReconcileWeight ==
    ASSUME WeightInv, NEW keys, NEW seen, NEW st, NEW S, S = mempool \/ S = {},
           Reconcile(keys, seen, st, S)
    PROVE  PoolWeight'
<1>1. mempool' \subseteq S /\ bytes' = TotalWeight(mempool')
  BY RequeuedSubset DEF Reconcile
<1>2. mempool' \in SUBSET mempool
  BY <1>1
<1>3. TotalWeight(mempool') <= TotalWeight(mempool)
  BY <1>2, TotalsLess DEF WeightInv, TypeOK
<1>4. TotalWeight(mempool') \in Nat /\ TotalWeight(mempool) \in Nat
  BY <1>2, TotalsType, FS_Subset DEF WeightInv, TypeOK
<1> QED  BY <1>1, <1>3, <1>4, LimitAssumption DEF WeightInv, PoolWeight

LEMMA EmptyWeight ==
    ASSUME mempool' = {}, bytes' = 0
    PROVE  PoolWeight'
BY TotalsNone, LimitAssumption DEF PoolWeight

LEMMA QueueWeight ==
    ASSUME WeightInv, NEW t \in Txs, NEW keys, Queue(t, keys)
    PROVE  PoolWeight'
<1>1. /\ mempool' = mempool \cup {t} /\ t \notin mempool
      /\ bytes' = bytes + t.weight /\ bytes + t.weight <= MaxMempoolBytes
  BY DEF Queue, Refused
<1>2. TotalWeight(mempool \cup {t}) = TotalWeight(mempool) + t.weight
  BY <1>1, TotalsAdd DEF WeightInv, TypeOK
<1> QED  BY <1>1, <1>2 DEF WeightInv, PoolWeight

LEMMA SealWeight ==
    ASSUME WeightInv, NEW sendable, SealPending(sendable)
    PROVE  PoolWeight'
<1>1. CASE UNCHANGED <<ledger, pool, disk, announced>>
  BY <1>1 DEF pool, WeightInv, PoolWeight
<1>2. ASSUME NEW batch, SealCommits(batch, sendable) PROVE PoolWeight'
  BY <1>2, ReconcileWeight DEF SealCommits, CommitBlock
<1> QED  BY <1>1, <1>2 DEF SealPending, SealFails

LEMMA WeightStep == WeightInv /\ [Next]_vars => WeightInv'
<1> SUFFICES ASSUME WeightInv, [Next]_vars PROVE WeightInv'
  OBVIOUS
<1>0. TypeOK'
  BY NextType DEF WeightInv
<1> SUFFICES PoolWeight'
  BY <1>0 DEF WeightInv
<1>1. CASE UNCHANGED pool
  BY <1>1 DEF pool, WeightInv, PoolWeight
<1>2. ASSUME NEW t \in Txs, Submit(t) \/ GossipTransaction(t) PROVE PoolWeight'
  BY <1>2, QueueWeight DEF Submit, GossipTransaction
<1>3. CASE SealAfterSubmit \/ Tick
  BY <1>3, SealWeight DEF SealAfterSubmit, Tick
<1>4. ASSUME NEW name, NEW key, RegisterAccount(name, key) PROVE PoolWeight'
  BY <1>1, <1>4 DEF RegisterAccount
<1>5. ASSUME NEW s \in Snapshots, ReceiveBlock(s) PROVE PoolWeight'
  BY <1>5, ReconcileWeight DEF ReceiveBlock, CommitBlock
<1>6. ASSUME NEW s \in Snapshots, ReceiveChain(s) PROVE PoolWeight'
  BY <1>6, ReconcileWeight DEF ReceiveChain
<1>7. CASE Crash \/ Start
  BY <1>7, EmptyWeight DEF Crash, Start
<1>8. CASE Shutdown
  <2>1. CASE UNCHANGED <<ledger, pool, disk, announced>>
    BY <1>1, <2>1
  <2> QED  BY <1>8, <2>1, SealWeight DEF Shutdown
<1>9. CASE UNCHANGED vars
  BY <1>1, <1>9 DEF vars
<1> QED  BY <1>2, <1>3, <1>4, <1>5, <1>6, <1>7, <1>8, <1>9 DEF Next

\* The weight the pool is limited by is never cached wrong, whatever was
\* queued, sealed, requeued or thrown away, and never above the limit.
THEOREM WeightIsCounted == Spec => []PoolWeight
<1>1. Init => WeightInv
  BY InitType, TotalsNone, LimitAssumption DEF Init, WeightInv, PoolWeight
<1>2. WeightInv /\ [Next]_vars => WeightInv'
  BY WeightStep
<1>3. WeightInv => PoolWeight
  BY DEF WeightInv
<1> QED  BY <1>1, <1>2, <1>3, PTL DEF Spec

-----------------------------------------------------------------------------
(***************************************************************************)
(* The right to seal, once had, is kept until the process ends.            *)
(***************************************************************************)
MaySeal == Self \in authorities /\ public_keys[Self] = SelfKey

SealerInv ==
    /\ TypeOK
    /\ phase = "running" /\ (is_authority \/ sealers > 0) => MaySeal
    /\ phase = "stopped" => sealers = 0

LEMMA SealerStep == SealerInv /\ [Next]_vars => SealerInv'
<1> SUFFICES ASSUME SealerInv, [Next]_vars PROVE SealerInv'
  OBVIOUS
<1>0. /\ TypeOK /\ TypeOK' /\ Self \in Accounts /\ SelfKey # NoKey
      /\ public_keys \in KeyMap /\ sealers \in Nat
  BY NextType, MemoryFields, IdentityAssumption, KeyAssumption DEF SealerInv, TypeOK
<1>1. ASSUME Running, Grows PROVE MaySeal => MaySeal'
  BY <1>0, <1>1 DEF MaySeal, Grows
<1>2. Running /\ Next => Grows
  <2>1. [Running => Grows]_vars
    BY <1>0, StepGrows
  <2>2. UNCHANGED vars => Grows
    BY <1>0, MemoryFields DEF vars, ledger, Grows
  <2> QED  BY <2>1, <2>2
<1>3. ASSUME Next, Running, is_authority' = is_authority, sealers' \in {sealers, sealers - 1}
      PROVE  SealerInv'
  BY <1>0, <1>1, <1>2, <1>3 DEF SealerInv, Running
<1>4. ASSUME NEW t \in Txs, Submit(t) PROVE SealerInv'
  <2>1. /\ Next /\ Running /\ is_authority' = is_authority
        /\ UNCHANGED <<authorities, public_keys>>
        /\ sealers' # sealers => MaySeal
    BY <1>4 DEF Submit, Running, ledger, WorthSealing, MaySeal, Next
  <2>2. CASE sealers' = sealers
    BY <1>3, <2>1, <2>2
  <2>3. CASE MaySeal
    BY <1>0, <2>1, <2>3 DEF SealerInv, MaySeal, Running
  <2> QED  BY <2>1, <2>2, <2>3
<1>5. ASSUME NEW t \in Txs, GossipTransaction(t) \/ RegisterAccount(t.sender, t.key)
      PROVE  SealerInv'
  BY <1>3, <1>5 DEF GossipTransaction, RegisterAccount, Running, Next
<1>6. CASE SealAfterSubmit \/ Tick
  BY <1>3, <1>6 DEF SealAfterSubmit, Tick, Running, Next
<1>7. ASSUME NEW s \in Snapshots, ReceiveBlock(s) \/ ReceiveChain(s) PROVE SealerInv'
  BY <1>3, <1>7 DEF ReceiveBlock, ReceiveChain, Running, Next
<1>8. CASE Crash \/ Shutdown
  BY <1>0, <1>8 DEF Crash, Shutdown, Stop, SealerInv
<1>9. CASE Start
  <2>1. /\ is_authority' = (Self \in authorities') /\ sealers' = sealers
        /\ public_keys' = StartKeys(authorities', disk.public_keys)
        /\ phase = "stopped" /\ phase' = "running"
    BY <1>9 DEF Start
  <2>2. disk.public_keys \in KeyMap
    BY <1>0 DEF TypeOK, ChainFile
  <2>3. is_authority' => MaySeal'
    BY <1>0, <2>1, <2>2 DEF MaySeal, StartKeys, KeyMap
  <2> QED  BY <1>0, <2>1, <2>3 DEF SealerInv
<1>10. CASE UNCHANGED vars
  BY <1>0, <1>10 DEF SealerInv, MaySeal, vars, ledger
<1> QED
  BY <1>4, <1>5, <1>6, <1>7, <1>8, <1>9, <1>10 DEF Next

LEMMA SealerInit == Init => SealerInv
<1> SUFFICES ASSUME Init PROVE SealerInv
  OBVIOUS
<1>1. /\ authorities = InitialAuthorities /\ is_authority = (Self \in InitialAuthorities)
      /\ public_keys = StartKeys(InitialAuthorities, InitialKeys) /\ sealers = 0
      /\ InitialKeys \in KeyMap /\ Self \in Accounts
  BY IdentityAssumption DEF Init
<1>2. is_authority => MaySeal
  BY <1>1 DEF MaySeal, StartKeys, KeyMap
<1> QED  BY <1>1, <1>2, InitType DEF SealerInv, Init

LEMMA SealerAuthorized == SealerInv => AuthorizedWhenSealing
BY IdentityAssumption, KeyAssumption
DEF SealerInv, AuthorizedWhenSealing, MaySeal, SealedBy, SealedBlock

\* The block-time loop and a submit that owes a seal rely on a right they read
\* before they had the lock: no block, chain or packet takes it away meanwhile.
THEOREM SealersStayAuthorized == Spec => []AuthorizedWhenSealing
<1>1. Init => SealerInv
  BY SealerInit
<1>2. SealerInv /\ [Next]_vars => SealerInv'
  BY SealerStep
<1> QED  BY <1>1, <1>2, SealerAuthorized, PTL DEF Spec

-----------------------------------------------------------------------------
(***************************************************************************)
(* Every pending transaction is admissible, and each sender can pay for    *)
(* all of its own.                                                         *)
(***************************************************************************)
Accepted ==
    \A t \in mempool :
        /\ t.sender # Mint /\ t.wellFormed
        /\ Signed(public_keys, t)
        /\ Id(t) \notin transaction_index

Funded == \A a \in Accounts : TotalAmount(QueuedBy(mempool, a)) <= balances[a]

AcceptedInv == PoolInv /\ Accepted /\ Funded

LEMMA QueueAccepted ==
    ASSUME AcceptedInv, NEW t \in Txs, Queue(t, public_keys'),
           KeepsKeys(public_keys, public_keys'),
           UNCHANGED <<transaction_index, balances, nonces>>
    PROVE  Accepted' /\ Funded'
<1>1. mempool' = mempool \cup {t} /\ t \notin mempool
  BY DEF Queue, Refused
<1>2. /\ mempool \subseteq Txs /\ IsFiniteSet(mempool)
      /\ balances \in [Accounts -> 0 .. MaxAmount]
  BY MemoryFields DEF AcceptedInv, PoolInv, TypeOK
<1>3. /\ t.sender # Mint /\ t.wellFormed /\ Signed(public_keys', t)
      /\ Id(t) \notin transaction_index /\ Affordable(State, mempool, t)
  BY DEF Queue, Refused
<1>4. Accepted'
  <2>1. \A u \in mempool : Signed(public_keys', u)
    BY <1>2, SignedKept DEF AcceptedInv, Accepted
  <2> QED  BY <1>1, <1>3, <2>1 DEF AcceptedInv, Accepted
<1>5. ASSUME NEW a \in Accounts
      PROVE  TotalAmount(QueuedBy(mempool', a)) <= balances[a]
  <2>1. State \in LedgerState /\ State.balances = balances
    BY MemoryFields DEF AcceptedInv, PoolInv, State
  <2>2. TotalAmount(QueuedBy(mempool, a)) <= State.balances[a]
    BY <2>1 DEF AcceptedInv, Funded
  <2>3. TotalAmount(QueuedBy(mempool \cup {t}, a)) <= State.balances[a]
    BY <1>2, <2>1, <2>2, QueuedFunded DEF Queue
  <2> QED  BY <1>1, <2>1, <2>3
<1> QED  BY <1>4, <1>5 DEF Funded

LEMMA EmptyAccepted ==
    ASSUME TypeOK', mempool' = {}
    PROVE  Accepted' /\ Funded'
<1>1. ASSUME NEW a \in Accounts
      PROVE  TotalAmount(QueuedBy(mempool', a)) <= balances'[a]
  <2>1. QueuedBy(mempool', a) = {}
    BY DEF QueuedBy
  <2>2. balances'[a] \in Nat
    BY AllocationAssumption DEF TypeOK, Memory, ChainFile
  <2> QED  BY <2>1, <2>2, TotalsNone
<1> QED  BY <1>1 DEF Accepted, Funded

LEMMA ReconcileAccepted ==
    ASSUME AcceptedInv, TypeOK', PoolContiguous',
           mempool' = Requeued(public_keys', transaction_index', State', mempool)
    PROVE  Accepted' /\ Funded'
<1>1. State' \in LedgerState /\ (State').balances = balances' /\ (State').nonces = nonces'
  BY DEF TypeOK, Memory, ChainFile, State, LedgerState
<1>2. mempool \subseteq Txs /\ IsFiniteSet(mempool) /\ mempool' \subseteq mempool
  BY RequeuedSubset DEF AcceptedInv, PoolInv, TypeOK
<1>3. \A a \in Accounts : \A t, u \in QueuedBy(mempool, a) : t.nonce = u.nonce => t = u
  BY DEF AcceptedInv, PoolInv, PoolContiguous, IsRun
<1>4. \A t \in mempool' :
        /\ Signed(public_keys', t) /\ Id(t) \notin transaction_index'
        /\ TotalAmount(Lead(State', mempool, t)) <= (State').balances[t.sender]
  BY <1>1, <1>2, <1>3, RequeuedFits
<1>5. Accepted'
  BY <1>2, <1>4 DEF AcceptedInv, Accepted
<1>6. ASSUME NEW a \in Accounts
      PROVE  TotalAmount(QueuedBy(mempool', a)) <= balances'[a]
  BY <1>1, <1>2, <1>3, RequeuedFunded
<1> QED  BY <1>5, <1>6 DEF Funded

LEMMA SealAccepted ==
    ASSUME AcceptedInv, TypeOK', NEW sendable, SealPending(sendable)
    PROVE  Accepted' /\ Funded'
<1>1. CASE UNCHANGED <<ledger, pool, disk, announced>>
  BY <1>1 DEF ledger, pool, AcceptedInv, Accepted, Funded
<1>2. ASSUME NEW batch, SealCommits(batch, sendable) PROVE Accepted' /\ Funded'
  <2>1. mempool' \subseteq {}
    BY <1>2, RequeuedSubset DEF SealCommits, CommitBlock, Reconcile
  <2> QED  BY <2>1, EmptyAccepted
<1> QED  BY <1>1, <1>2 DEF SealPending, SealFails

\* What a block or a chain of a peer leaves of the pool.
LEMMA ReceiveReconciles ==
    ASSUME NEW s, ReceiveBlock(s) \/ ReceiveChain(s)
    PROVE  /\ mempool' = Requeued(public_keys', transaction_index', State', mempool)
           /\ KeepsKeys(public_keys, public_keys')
<1>1. ASSUME ReceiveBlock(s)
      PROVE  /\ mempool' = Requeued(public_keys', transaction_index', State', mempool)
             /\ KeepsKeys(public_keys, public_keys')
  <2> DEFINE b     == s.blocks[Len(s.blocks)]
             after == StateAfter(State, <<b>>)
  <2>1. /\ balances' = after.balances /\ nonces' = after.nonces
        /\ public_keys' = MergeBlockAccounts(public_keys, s.accounts, b)
        /\ mempool' = Requeued(public_keys', transaction_index', after, mempool)
    BY <1>1 DEF ReceiveBlock, CommitBlock, Reconcile
  <2>2. after = State'
    BY <2>1 DEF State, StateAfter
  <2> QED  BY <2>1, <2>2 DEF MergeBlockAccounts, KeepsKeys
<1>2. ASSUME ReceiveChain(s)
      PROVE  /\ mempool' = Requeued(public_keys', transaction_index', State', mempool)
             /\ KeepsKeys(public_keys, public_keys')
  <2> DEFINE after == StateAfter(InitialState, s.blocks)
  <2>1. /\ balances' = after.balances /\ nonces' = after.nonces
        /\ public_keys' = MergeAccounts(public_keys, s.accounts)
        /\ mempool' = Requeued(public_keys', transaction_index', after, mempool)
    BY <1>2 DEF ReceiveChain, Reconcile
  <2>2. after = State'
    BY <2>1 DEF State, StateAfter
  <2> QED  BY <2>1, <2>2 DEF MergeAccounts, KeepsKeys
<1> QED  BY <1>1, <1>2

LEMMA AcceptedStep == AcceptedInv /\ [Next]_vars => AcceptedInv'
<1> SUFFICES ASSUME AcceptedInv, [Next]_vars PROVE AcceptedInv'
  OBVIOUS
<1>0. PoolInv' /\ TypeOK /\ TypeOK' /\ PoolContiguous'
  BY PoolStep DEF AcceptedInv, PoolInv
<1> SUFFICES Accepted' /\ Funded'
  BY <1>0 DEF AcceptedInv
<1>1. CASE UNCHANGED <<mempool, public_keys, transaction_index, balances>>
  BY <1>1 DEF AcceptedInv, Accepted, Funded
<1>2. ASSUME NEW t \in Txs, Submit(t) PROVE Accepted' /\ Funded'
  <2>1. Queue(t, public_keys') /\ KeepsKeys(public_keys, public_keys')
    BY <1>2 DEF Submit, ledger, KeepsKeys
  <2> QED  BY <1>2, <2>1, QueueAccepted DEF Submit, ledger
<1>3. ASSUME NEW t \in Txs, GossipTransaction(t) PROVE Accepted' /\ Funded'
  <2>1. KeepsKeys(public_keys, public_keys')
    BY <1>0, <1>3, MemoryFields DEF GossipTransaction, KeepsKeys, KeyMap
  <2> QED  BY <1>3, <2>1, QueueAccepted DEF GossipTransaction
<1>4. CASE SealAfterSubmit \/ Tick
  BY <1>0, <1>4, SealAccepted DEF SealAfterSubmit, Tick
<1>5. ASSUME NEW t \in Txs, RegisterAccount(t.sender, t.key) PROVE Accepted' /\ Funded'
  <2>1. KeepsKeys(public_keys, public_keys')
    BY <1>0, <1>5, MemoryFields DEF RegisterAccount, KeepsKeys, KeyMap
  <2>2. UNCHANGED <<mempool, transaction_index, balances>>
    BY <1>5 DEF RegisterAccount, pool
  <2>3. \A u \in mempool : Signed(public_keys', u)
    BY <1>0, <2>1, SignedKept DEF AcceptedInv, Accepted, TypeOK
  <2> QED  BY <2>2, <2>3 DEF AcceptedInv, Accepted, Funded
<1>6. ASSUME NEW s \in Snapshots, ReceiveBlock(s) \/ ReceiveChain(s)
      PROVE  Accepted' /\ Funded'
  BY <1>0, <1>6, ReceiveReconciles, ReconcileAccepted
<1>7. CASE Crash \/ Start
  BY <1>0, <1>7, EmptyAccepted DEF Crash, Start
<1>8. CASE Shutdown
  <2>1. CASE UNCHANGED <<ledger, pool, disk, announced>>
    BY <1>1, <2>1 DEF ledger, pool
  <2> QED  BY <1>0, <1>8, <2>1, SealAccepted DEF Shutdown
<1>9. CASE UNCHANGED vars
  BY <1>1, <1>9 DEF vars, ledger, pool
<1> QED  BY <1>2, <1>3, <1>4, <1>5, <1>6, <1>7, <1>8, <1>9 DEF Next

LEMMA AcceptedInit == Init => AcceptedInv
<1> SUFFICES ASSUME Init PROVE AcceptedInv
  OBVIOUS
<1>1. TypeOK /\ mempool = {}
  BY InitType DEF Init
<1>2. ASSUME NEW a \in Accounts
      PROVE  /\ QueuedBy(mempool, a) = {} /\ nonces[a] \in Nat
             /\ balances[a] \in Nat
  BY <1>1, MemoryFields, AllocationAssumption DEF QueuedBy
<1>3. Funded
  BY <1>2, TotalsNone DEF Funded
<1>4. PoolInv
  BY <1>1, <1>2, RunEmpty DEF PoolInv, PoolContiguous
<1> QED  BY <1>1, <1>3, <1>4 DEF AcceptedInv, Accepted

-----------------------------------------------------------------------------
(***************************************************************************)
(* The whole pool, in the order drain puts it, is one valid block.         *)
(***************************************************************************)
\* The block of a drained pool, position by position.
LEMMA DrainedBlock ==
    ASSUME NEW S, IsFiniteSet(S), S \subseteq Txs, NEW batch \in Drained(S)
    PROVE  LET one == <<SealedBlock(batch)>> IN
           /\ SealedBlock(batch) \in Block /\ one \in Seq(Block)
           /\ \A p \in Slots(one) : TxAt(one, p) \in S
           /\ \A t \in S : \E p \in Slots(one) : TxAt(one, p) = t
           /\ \A p, q \in Slots(one) : TxAt(one, p) = TxAt(one, q) => p = q
           /\ \A p, q \in Slots(one) :
                TxAt(one, p).sender = TxAt(one, q).sender =>
                    (Precedes(p, q) <=> TxAt(one, p).nonce < TxAt(one, q).nonce)
<1> DEFINE b == SealedBlock(batch)
           one == <<b>>
<1>1. b \in Block /\ b.txs = batch
  BY DrainedType, IdentityAssumption DEF SealedBlock, Block
<1>2. /\ one \in Seq(Block)
      /\ \A p \in Slots(one) : p = <<1, p[2]>> /\ p[2] \in 1 .. Len(batch)
      /\ \A i \in 1 .. Len(batch) : <<1, i>> \in Slots(one) /\ TxAt(one, <<1, i>>) = batch[i]
  <2>1. <<b>> \in Seq(Block)
    BY <1>1, OneBlock
  <2>2. \A p \in Slots(<<b>>) : p = <<1, p[2]>> /\ p[2] \in 1 .. Len(b.txs)
    BY <1>1, OneBlock
  <2>3. \A i \in 1 .. Len(b.txs) : <<1, i>> \in Slots(<<b>>) /\ TxAt(<<b>>, <<1, i>>) = b.txs[i]
    BY <1>1, OneBlock
  <2> HIDE DEF b
  <2> QED  BY <1>1, <2>1, <2>2, <2>3
<1>3. \A p \in Slots(one) : p[2] \in 1 .. Len(batch) /\ TxAt(one, p) = batch[p[2]]
  <2> HIDE DEF one
  <2> QED  BY <1>2
<1>4. \A p, q \in Slots(one) : Precedes(p, q) <=> p[2] < q[2]
  <2>1. \A p \in Slots(one) : p[1] = 1
    BY <1>2
  <2> HIDE DEF one
  <2> QED  BY <2>1 DEF Precedes
<1>5. /\ \A i \in 1 .. Len(batch) : batch[i] \in S
      /\ \A t \in S : \E i \in 1 .. Len(batch) : batch[i] = t
      /\ \A i, j \in 1 .. Len(batch) : batch[i] = batch[j] => i = j
      /\ \A i, j \in 1 .. Len(batch) :
            batch[i].sender = batch[j].sender =>
                (i < j <=> batch[i].nonce < batch[j].nonce)
  BY DrainedOrder
<1> HIDE DEF one
<1>6. \A p \in Slots(one) : TxAt(one, p) \in S
  BY <1>3, <1>5
<1>7. \A t \in S : \E p \in Slots(one) : TxAt(one, p) = t
  BY <1>2, <1>5
<1>8. \A p, q \in Slots(one) : TxAt(one, p) = TxAt(one, q) => p = q
  <2> SUFFICES ASSUME NEW p \in Slots(one), NEW q \in Slots(one), TxAt(one, p) = TxAt(one, q)
               PROVE  p = q
    OBVIOUS
  <2>1. p[2] = q[2]
    BY <1>3, <1>5
  <2> QED  BY <1>2, <2>1
<1>9. \A p, q \in Slots(one) :
        TxAt(one, p).sender = TxAt(one, q).sender =>
            (Precedes(p, q) <=> TxAt(one, p).nonce < TxAt(one, q).nonce)
  BY <1>3, <1>4, <1>5
<1>10. one = <<SealedBlock(batch)>>
  BY DEF one
<1> QED  BY <1>1, <1>2, <1>6, <1>7, <1>8, <1>9, <1>10

\* The nonce a pending transaction has is the one it is asked for in the block.
LEMMA BlockNonces ==
    ASSUME NEW S, IsFiniteSet(S), S \subseteq Txs, NEW batch \in Drained(S),
           NEW p \in Slots(<<SealedBlock(batch)>>), NEW a, NEW n \in Nat,
           a = TxAt(<<SealedBlock(batch)>>, p).sender, IsRun(QueuedBy(S, a), n)
    PROVE  LET one == <<SealedBlock(batch)>> IN
           TxAt(one, p).nonce = n + Cardinality(SentBy(one, SlotsBefore(one, p), a))
<1> DEFINE one == <<SealedBlock(batch)>>
           t == TxAt(one, p)
           X == SentBy(one, SlotsBefore(one, p), a)
           M == n .. t.nonce - 1
           g == [q \in X |-> TxAt(one, q).nonce]
           k == Cardinality(QueuedBy(S, a))
<1>0. p \in Slots(one) /\ a = t.sender
  OBVIOUS
<1>1. /\ one \in Seq(Block)
      /\ \A q \in Slots(one) : TxAt(one, q) \in S
      /\ \A u \in S : \E q \in Slots(one) : TxAt(one, q) = u
      /\ \A q, r \in Slots(one) : TxAt(one, q) = TxAt(one, r) => q = r
      /\ \A q, r \in Slots(one) :
           TxAt(one, q).sender = TxAt(one, r).sender =>
               (Precedes(q, r) <=> TxAt(one, q).nonce < TxAt(one, r).nonce)
  BY DrainedBlock
<1> HIDE DEF one
<1>2. /\ {u.nonce : u \in QueuedBy(S, a)} = n .. n + k - 1
      /\ \A u, v \in QueuedBy(S, a) : u.nonce = v.nonce => u = v
  BY DEF IsRun
<1>3. k \in Nat /\ t.nonce \in Nat /\ \A u \in S : u.nonce \in Nat
  BY <1>0, <1>1, QueuedType, FS_CardinalityType, TxFields
<1>4. t \in QueuedBy(S, a) /\ t.nonce \in n .. n + k - 1
  BY <1>0, <1>1, <1>2 DEF QueuedBy
<1>5. \A q \in X : /\ q \in Slots(one) /\ TxAt(one, q) \in QueuedBy(S, a)
                   /\ TxAt(one, q).nonce \in M
  <2> SUFFICES ASSUME NEW q \in X
               PROVE  /\ q \in Slots(one) /\ TxAt(one, q) \in QueuedBy(S, a)
                      /\ TxAt(one, q).nonce \in M
    OBVIOUS
  <2>1. q \in Slots(one) /\ Precedes(q, p) /\ TxAt(one, q).sender = a
    BY DEF SentBy, SlotsBefore
  <2>2. TxAt(one, q) \in QueuedBy(S, a)
    BY <1>1, <2>1 DEF QueuedBy
  <2>3. TxAt(one, q).nonce < t.nonce
    BY <1>0, <1>1, <2>1
  <2>4. TxAt(one, q).nonce \in n .. n + k - 1
    BY <1>2, <2>2
  <2> HIDE DEF t, k
  <2> QED  BY <1>3, <2>1, <2>2, <2>3, <2>4
<1>6. \A m \in M : \E q \in X : TxAt(one, q).nonce = m
  <2> SUFFICES ASSUME NEW m \in M PROVE \E q \in X : TxAt(one, q).nonce = m
    OBVIOUS
  <2>1. m \in n .. n + k - 1 /\ m < t.nonce
    <3> HIDE DEF t, k
    <3> QED  BY <1>3, <1>4
  <2>2. PICK u \in QueuedBy(S, a) : u.nonce = m
    BY <1>2, <2>1
  <2>3. u \in S /\ u.sender = a
    BY DEF QueuedBy
  <2>4. PICK q \in Slots(one) : TxAt(one, q) = u
    BY <1>1, <2>3
  <2>5. Precedes(q, p)
    BY <1>0, <1>1, <2>1, <2>2, <2>3, <2>4
  <2>6. q \in X
    BY <2>3, <2>4, <2>5 DEF SentBy, SlotsBefore
  <2> QED  BY <2>2, <2>4, <2>6
<1>7. g \in Bijection(X, M)
  <2>1. \A q, r \in X : TxAt(one, q).nonce = TxAt(one, r).nonce => q = r
    BY <1>1, <1>2, <1>5
  <2> HIDE DEF X, M
  <2> QED  BY <1>5, <1>6, <2>1 DEF Bijection, Injection, Surjection, IsInjective
<1>8. IsFiniteSet(X)
  <2>1. X \in SUBSET Slots(one)
    BY <1>5
  <2> QED  BY <1>1, <2>1, PositionsFinite
<1>9. Cardinality(M) = Cardinality(X)
  <2> HIDE DEF X, M, g
  <2> QED  BY <1>7, <1>8, FS_Bijection DEF ExistsBijection
<1>10. Cardinality(M) = t.nonce - n
  <2>1. n \in Int /\ t.nonce - 1 \in Int /\ n <= t.nonce
    <3> HIDE DEF t, k
    <3> QED  BY <1>3, <1>4
  <2>2. Cardinality(M) = IF n > t.nonce - 1 THEN 0 ELSE t.nonce - 1 - n + 1
    <3> HIDE DEF t
    <3> QED  BY <2>1, FS_Interval
  <2> HIDE DEF t, M
  <2> QED  BY <1>3, <2>1, <2>2
<1>11. t.nonce = n + Cardinality(X)
  <2> HIDE DEF t, M, X
  <2> QED  BY <1>3, <1>9, <1>10
<1> QED  BY <1>11 DEF one

\* What a sender spends in the block is part of what it has pending.
LEMMA BlockSpends ==
    ASSUME NEW S, IsFiniteSet(S), S \subseteq Txs, NEW batch \in Drained(S), NEW a,
           NEW P \in SUBSET Slots(<<SealedBlock(batch)>>)
    PROVE  LET one == <<SealedBlock(batch)>> IN
           /\ AmountAt(one, SentBy(one, P, a)) <= TotalAmount(QueuedBy(S, a))
           /\ \A p \in Slots(one) :
                P = SlotsBefore(one, p) /\ TxAt(one, p).sender = a =>
                    TxAt(one, p).amount + AmountAt(one, SentBy(one, P, a))
                        <= TotalAmount(QueuedBy(S, a))
<1> DEFINE one == <<SealedBlock(batch)>>
           X == SentBy(one, P, a)
           Q == QueuedBy(S, a)
           R == {TxAt(one, q) : q \in X}
<1>1. /\ one \in Seq(Block)
      /\ \A q \in Slots(one) : TxAt(one, q) \in S
      /\ \A q, r \in Slots(one) : TxAt(one, q) = TxAt(one, r) => q = r
  BY DrainedBlock
<1>2. P \in SUBSET Slots(one)
  OBVIOUS
<1> HIDE DEF one
<1>3. X \in SUBSET Slots(one) /\ X \subseteq P
  BY <1>2 DEF SentBy
<1>4. R \in SUBSET Q
  BY <1>1, <1>3 DEF SentBy, QueuedBy
<1>5. AmountAt(one, X) = TotalAmount(R)
  <2>1. \A q, r \in X : TxAt(one, q) = TxAt(one, r) => q = r
    BY <1>1, <1>3
  <2> HIDE DEF X
  <2> QED  BY <1>1, <1>3, <2>1, BlockAmount
<1>6. IsFiniteSet(Q) /\ Q \subseteq Txs /\ IsFiniteSet(R) /\ R \subseteq Txs
  BY <1>4, QueuedType, FS_Subset
<1>7. AmountAt(one, X) <= TotalAmount(Q)
  <2> HIDE DEF R, Q, X
  <2> QED  BY <1>4, <1>5, <1>6, TotalsLess
<1>8. ASSUME NEW p \in Slots(one), P = SlotsBefore(one, p), TxAt(one, p).sender = a
      PROVE  TxAt(one, p).amount + AmountAt(one, X) <= TotalAmount(Q)
  <2> DEFINE t == TxAt(one, p)
             T == R \cup {t}
  <2>1. t \in Q /\ t \in Txs
    BY <1>1, <1>8 DEF QueuedBy
  <2>2. p \notin P
    <3>1. p[1] \in Nat /\ p[2] \in Nat
      BY <1>1, SlotForm
    <3> QED  BY <1>8, <3>1 DEF SlotsBefore, Precedes
  <2>3. t \notin R
    BY <1>1, <1>3, <2>2
  <2>4. T \in SUBSET Q
    BY <1>4, <2>1
  <2> HIDE DEF t, R, Q, X
  <2>5. TotalAmount(T) = TotalAmount(R) + t.amount
    BY <1>6, <2>1, <2>3, TotalsAdd
  <2>6. TotalAmount(T) <= TotalAmount(Q)
    <3> HIDE DEF T
    <3> QED  BY <1>6, <2>4, TotalsLess
  <2>7. TotalAmount(R) \in Nat /\ t.amount \in Nat /\ TotalAmount(Q) \in Nat
    BY <1>6, <2>1, TotalsType, TxFields
  <2>8. t.amount + AmountAt(one, X) <= TotalAmount(Q)
    BY <1>5, <2>5, <2>6, <2>7
  <2> QED  BY <2>8 DEF t
<1> HIDE DEF X, Q
<1>9. /\ AmountAt(one, X) <= TotalAmount(Q)
      /\ \A p \in Slots(one) : P = SlotsBefore(one, p) /\ TxAt(one, p).sender = a =>
            TxAt(one, p).amount + AmountAt(one, X) <= TotalAmount(Q)
  BY <1>7, <1>8
<1> QED  BY <1>9 DEF one, X, Q

\* Part of the block leaves every account a u64: a sender's own money covers
\* what it sends, and nobody can have more than all there is.
LEMMA BlockWidth ==
    ASSUME AcceptedInv, Supply <= MaxAmount, NEW batch \in Drained(mempool),
           NEW P \in SUBSET Slots(<<SealedBlock(batch)>>)
    PROVE  WithinWidth(State, <<SealedBlock(batch)>>, P)
<1> DEFINE one == <<SealedBlock(batch)>>
           now == [a \in Accounts |-> BalanceAfter(State, one, P, a)]
<1>0. P \in SUBSET Slots(one) /\ batch \in Drained(mempool)
  OBVIOUS
<1>1. /\ mempool \subseteq Txs /\ IsFiniteSet(mempool) /\ State \in LedgerState
      /\ balances \in [Accounts -> 0 .. MaxAmount]
  BY MemoryFields DEF AcceptedInv, PoolInv, TypeOK
<1>2. one \in Seq(Block) /\ \A p \in Slots(one) : TxAt(one, p) \in mempool
  BY <1>1, DrainedBlock
<1>3. \A a \in Accounts : AmountAt(one, SentBy(one, P, a)) <= balances[a]
  <2> SUFFICES ASSUME NEW a \in Accounts
               PROVE  AmountAt(one, SentBy(one, P, a)) <= balances[a]
    OBVIOUS
  <2>1. AmountAt(one, SentBy(one, P, a)) <= TotalAmount(QueuedBy(mempool, a))
    BY <1>1, BlockSpends
  <2>2. TotalAmount(QueuedBy(mempool, a)) <= balances[a]
    BY DEF AcceptedInv, Funded
  <2>3. TotalAmount(QueuedBy(mempool, a)) \in Nat
    BY <1>1, QueuedType, TotalsType
  <2> HIDE DEF one
  <2>4. AmountAt(one, SentBy(one, P, a)) \in Nat /\ State.balances[a] \in Nat
    BY <1>0, <1>1, <1>2, BalanceType
  <2>5. balances[a] \in Nat
    BY <2>4 DEF State
  <2> QED  BY <2>1, <2>2, <2>3, <2>4, <2>5
<1> HIDE DEF one
<1>4. \A a \in Accounts : now[a] \in Nat
  <2> SUFFICES ASSUME NEW a \in Accounts PROVE BalanceAfter(State, one, P, a) \in Nat
    OBVIOUS
  <2>1. /\ AmountAt(one, SentBy(one, P, a)) \in Nat /\ State.balances[a] \in Nat
        /\ AmountAt(one, ReceivedBy(one, P, a)) \in Nat
    BY <1>0, <1>1, <1>2, BalanceType
  <2>2. State.balances[a] = balances[a] /\ AmountAt(one, SentBy(one, P, a)) <= balances[a]
    BY <1>3 DEF State
  <2> QED  BY <2>1, <2>2 DEF BalanceAfter
<1>5. SumFunctionOnSet(now, Accounts) = Supply
  <2>1. SumFunctionOnSet(now, Accounts)
          = SumFunction(State.balances) + AmountAt(one, SentBy(one, P, Mint))
    BY <1>0, <1>1, <1>2, SupplyAfter
  <2>2. SentBy(one, P, Mint) = {}
    BY <1>0, <1>2 DEF SentBy, AcceptedInv, Accepted
  <2>3. AmountAt(one, {}) = 0
    BY AmountAtNone
  <2>4. SumFunction(State.balances) = Supply
    BY DEF State, Supply
  <2>5. Supply \in Int
    <3>1. DOMAIN balances = Accounts /\ \A a \in Accounts : balances[a] \in Int
      BY <1>1, AllocationAssumption
    <3>2. SumFunctionOnSet(balances, Accounts) \in Int
      BY <3>1, SumType, AccountAssumption
    <3> QED  BY <3>1, <3>2 DEF Supply, SumFunction
  <2>6. AmountAt(one, SentBy(one, P, Mint)) = 0
    BY <2>2, <2>3
  <2> HIDE DEF now
  <2> QED  BY <2>1, <2>4, <2>5, <2>6
<1>6. \A a \in Accounts : now[a] <= SumFunctionOnSet(now, Accounts)
  <2> HIDE DEF now
  <2> QED  BY <1>4, AccountAssumption, SumMember
<1>7. SumFunctionOnSet(now, Accounts) \in Nat
  <2> HIDE DEF now
  <2> QED  BY <1>4, AccountAssumption, SumNat
<1>8. \A a \in Accounts : now[a] \in 0 .. MaxAmount
  <2> HIDE DEF now
  <2> QED  BY <1>4, <1>5, <1>6, <1>7, AllocationAssumption
<1>9. \A a \in Accounts : BalanceAfter(State, one, P, a) \in 0 .. MaxAmount
  BY <1>8
<1>10. WithinWidth(State, one, P)
  BY <1>9 DEF WithinWidth
<1> QED  BY <1>10 DEF one

LEMMA PoolApplies ==
    ASSUME AcceptedInv, Supply <= MaxAmount, NEW batch \in Drained(mempool)
    PROVE  TransactionsApply(public_keys, transaction_index, State, <<SealedBlock(batch)>>)
<1> DEFINE one == <<SealedBlock(batch)>>
<1>1. /\ mempool \subseteq Txs /\ IsFiniteSet(mempool) /\ State \in LedgerState
      /\ nonces \in [Accounts -> Nat] /\ balances \in [Accounts -> 0 .. MaxAmount]
  BY MemoryFields DEF AcceptedInv, PoolInv, TypeOK
<1>2. /\ one \in Seq(Block) /\ \A p \in Slots(one) : TxAt(one, p) \in mempool
      /\ \A p, q \in Slots(one) : TxAt(one, p) = TxAt(one, q) => p = q
  BY <1>1, DrainedBlock
<1>3. ASSUME NEW p \in Slots(one)
      PROVE  /\ Fresh(transaction_index, one, p)
             /\ Authorized(public_keys, State, one, p)
             /\ WithinWidth(State, one, SlotsBefore(one, p))
  <2> DEFINE t == TxAt(one, p)
             a == t.sender
             P == SlotsBefore(one, p)
  <2>1. P \in SUBSET Slots(one) /\ p \notin P
    <3>1. p[1] \in Nat /\ p[2] \in Nat
      BY <1>2, SlotForm
    <3> QED  BY <3>1 DEF SlotsBefore, Precedes
  <2>2. t \in mempool /\ t \in Txs /\ a \in Accounts
    BY <1>1, <1>2, TxFields
  <2>3. t.sender # Mint /\ t.wellFormed /\ Signed(public_keys, t) /\ Id(t) \notin transaction_index
    BY <2>2 DEF AcceptedInv, Accepted
  <2>4. Fresh(transaction_index, one, p)
    <3>1. ASSUME NEW q \in P, Id(TxAt(one, q)) = Id(t) PROVE FALSE
      <4>1. TxAt(one, q) \in mempool /\ TxAt(one, q).sender = a
            /\ TxAt(one, q).nonce = t.nonce
        BY <1>2, <2>1, <3>1 DEF Id
      <4>2. TxAt(one, q) \in QueuedBy(mempool, a) /\ t \in QueuedBy(mempool, a)
        BY <2>2, <4>1 DEF QueuedBy
      <4>3. TxAt(one, q) = t
        BY <2>2, <4>1, <4>2 DEF AcceptedInv, PoolInv, PoolContiguous, IsRun
      <4> QED  BY <1>2, <2>1, <4>3
    <3> QED  BY <2>3, <3>1 DEF Fresh
  <2>5. WithinWidth(State, one, P)
    BY <2>1, BlockWidth
  <2>6. t.nonce = nonces[a] + Cardinality(SentBy(one, P, a))
    <3>1. IsRun(QueuedBy(mempool, a), nonces[a]) /\ nonces[a] \in Nat
      BY <1>1, <2>2 DEF AcceptedInv, PoolInv, PoolContiguous
    <3> QED  BY <1>1, <3>1, BlockNonces
  <2>7. t.amount + AmountAt(one, SentBy(one, P, a)) <= TotalAmount(QueuedBy(mempool, a))
    BY <1>1, <2>1, BlockSpends
  <2>8. TotalAmount(QueuedBy(mempool, a)) <= balances[a]
        /\ TotalAmount(QueuedBy(mempool, a)) \in Nat
    BY <1>1, <2>2, QueuedType, TotalsType DEF AcceptedInv, Funded
  <2> HIDE DEF one, P, t, a
  <2>9. /\ AmountAt(one, SentBy(one, P, a)) \in Nat
        /\ AmountAt(one, ReceivedBy(one, P, a)) \in Nat
        /\ State.balances[a] \in Nat /\ t.amount \in Nat
        /\ State.balances[a] = balances[a] /\ State.nonces[a] = nonces[a]
    BY <1>1, <1>2, <2>1, <2>2, BalanceType, TxFields DEF State
  <2>10. t.amount <= BalanceAfter(State, one, P, a)
    <3>1. t.amount <= balances[a] - AmountAt(one, SentBy(one, P, a))
      BY <2>7, <2>8, <2>9
    <3> QED  BY <2>9, <3>1 DEF BalanceAfter
  <2>11. t.nonce = NonceAfter(State, one, P, a)
    BY <2>3, <2>6, <2>9 DEF NonceAfter, a
  <2>12. Authorized(public_keys, State, one, p)
    BY <2>3, <2>10, <2>11 DEF Authorized, t, a, P
  <2> QED  BY <2>4, <2>5, <2>12 DEF P
<1>4. WithinWidth(State, one, Slots(one))
  BY BlockWidth
<1> HIDE DEF one
<1>5. TransactionsApply(public_keys, transaction_index, State, one)
  BY <1>3, <1>4 DEF TransactionsApply
<1> QED  BY <1>5 DEF one

LEMMA PoolIsBlock ==
    ASSUME AcceptedInv, MaySeal, Supply <= MaxAmount, NEW batch \in Drained(mempool)
    PROVE  Extends(SealedBlock(batch), public_keys)
<1>1. SealedBy(authorities, public_keys, SealedBlock(batch))
  BY IdentityAssumption, KeyAssumption DEF MaySeal, SealedBy, SealedBlock
<1> QED  BY <1>1, PoolApplies DEF Extends, BlockValid

\* An authority can seal its whole pool at any moment: no order of submissions,
\* gossip, blocks and chains of peers leaves a batch that its own verification
\* refuses, as long as all the value there is fits in one balance.
THEOREM PoolAlwaysSealable == Spec => []PoolSealable
<1>1. Init => AcceptedInv /\ SealerInv
  BY AcceptedInit, SealerInit
<1>2. AcceptedInv /\ [Next]_vars => AcceptedInv'
  BY AcceptedStep
<1>3. SealerInv /\ [Next]_vars => SealerInv'
  BY SealerStep
<1>4. AcceptedInv /\ SealerInv => PoolSealable
  BY PoolIsBlock DEF SealerInv, PoolSealable
<1> QED  BY <1>1, <1>2, <1>3, <1>4, PTL DEF Spec

-----------------------------------------------------------------------------
(***************************************************************************)
(* Stopping in order.                                                      *)
(***************************************************************************)
LEMMA SealsAll ==
    ASSUME AcceptedInv, NEW batch \in Drained(mempool), NEW sendable,
           SealCommits(batch, sendable)
    PROVE  \A t \in mempool : Id(t) \in transaction_index' /\ Id(t) \in Ids(blocks')
<1> DEFINE b == SealedBlock(batch)
<1>1. mempool \subseteq Txs /\ IsFiniteSet(mempool) /\ blocks \in Seq(Block)
  BY MemoryFields DEF AcceptedInv, PoolInv, TypeOK
<1>2. b \in Block /\ \A t \in mempool : \E p \in Slots(<<b>>) : TxAt(<<b>>, p) = t
  BY <1>1, DrainedBlock
<1>3. blocks' = Append(blocks, b) /\ transaction_index' = transaction_index \cup Ids(<<b>>)
  BY DEF SealCommits, CommitBlock, Indexed
<1> HIDE DEF b
<1>4. \A t \in mempool : Id(t) \in Ids(<<b>>)
  BY <1>2 DEF Ids
<1>5. Ids(<<b>>) \subseteq Ids(blocks')
  BY <1>1, <1>2, <1>3, AppendIds
<1> QED  BY <1>3, <1>4, <1>5

\* The final seal of an orderly stop never fails on an authority: once the file
\* is written, everything that was pending is on it.
THEOREM ShutdownKeepsAll == Spec => ShutdownSeals
<1> DEFINE Kept == Shutdown /\ is_authority /\ Supply <= MaxAmount /\ disk' = Memory' =>
                        \A t \in mempool : Id(t) \in Ids(disk'.blocks)
<1>1. Init => AcceptedInv /\ SealerInv
  BY AcceptedInit, SealerInit
<1>2. AcceptedInv /\ [Next]_vars => AcceptedInv'
  BY AcceptedStep
<1>3. SealerInv /\ [Next]_vars => SealerInv'
  BY SealerStep
<1>4. AcceptedInv /\ SealerInv /\ [Next]_vars => [Kept]_vars
  <2> SUFFICES ASSUME AcceptedInv, SealerInv, Shutdown, is_authority,
                      Supply <= MaxAmount, disk' = Memory', NEW t \in mempool
               PROVE  Id(t) \in Ids(disk'.blocks)
    OBVIOUS
  <2>1. MaySeal /\ SealPending({FALSE})
    BY DEF Shutdown, SealerInv
  <2>2. mempool # {}
    OBVIOUS
  <2>3. PICK batch \in Drained(mempool) : SealCommits(batch, {FALSE}) \/ SealFails(batch)
    BY <2>1, <2>2 DEF SealPending
  <2>4. SealCommits(batch, {FALSE})
    BY <2>1, <2>3, PoolIsBlock DEF SealFails
  <2>5. disk'.blocks = blocks'
    BY DEF Memory
  <2> QED  BY <2>4, <2>5, SealsAll
<1>5. [][Kept]_vars => ShutdownSeals
  BY PTL DEF ShutdownSeals
<1> QED  BY <1>1, <1>2, <1>3, <1>4, <1>5, PTL DEF Spec

-----------------------------------------------------------------------------
(***************************************************************************)
(* What is let go of.  Two chains that hold the same transactions of an    *)
(* account, in whatever blocks and order, leave it with the same balance   *)
(* and nonce, so only a change of its own history can push it out.         *)
(***************************************************************************)
DistinctIds(bs, P) == \A p, q \in P : Id(TxAt(bs, p)) = Id(TxAt(bs, q)) => p = q

LEMMA SameIds ==
    ASSUME NEW bs \in Seq(Block), NEW cs \in Seq(Block),
           NEW P \in SUBSET Slots(bs), NEW Q \in SUBSET Slots(cs),
           DistinctIds(bs, P), DistinctIds(cs, Q),
           \A p \in P : \E q \in Q : Id(TxAt(cs, q)) = Id(TxAt(bs, p)),
           \A q \in Q : \E p \in P : Id(TxAt(bs, p)) = Id(TxAt(cs, q))
    PROVE  /\ AmountAt(bs, P) = AmountAt(cs, Q)
           /\ Cardinality(P) = Cardinality(Q)
<1> DEFINE h == [p \in P |-> CHOOSE q \in Q : Id(TxAt(cs, q)) = Id(TxAt(bs, p))]
           f == [p \in P |-> TxAt(bs, p).amount]
           g == [q \in Q |-> TxAt(cs, q).amount]
<1>1. \A p \in P : h[p] \in Q /\ Id(TxAt(cs, h[p])) = Id(TxAt(bs, p))
  <2> SUFFICES ASSUME NEW p \in P
               PROVE  h[p] \in Q /\ Id(TxAt(cs, h[p])) = Id(TxAt(bs, p))
    OBVIOUS
  <2>1. \E q \in Q : Id(TxAt(cs, q)) = Id(TxAt(bs, p))
    OBVIOUS
  <2> QED  BY <2>1
<1>2. \A q \in Q : \E p \in P : Id(TxAt(bs, p)) = Id(TxAt(cs, q))
  OBVIOUS
<1>3. h = [p \in P |-> h[p]]
  OBVIOUS
<1> HIDE DEF h
<1>4. h \in Bijection(P, Q)
  <2>1. \A p, q \in P : h[p] = h[q] => p = q
    BY <1>1 DEF DistinctIds
  <2>2. \A q \in Q : \E p \in P : h[p] = q
    BY <1>1, <1>2 DEF DistinctIds
  <2>3. h \in [P -> Q]
    BY <1>1, <1>3
  <2> QED  BY <2>1, <2>2, <2>3 DEF Bijection, Injection, Surjection, IsInjective
<1>5. IsFiniteSet(P) /\ \A p \in P : TxAt(bs, p).amount \in Nat
  BY PositionsFinite
<1>6. Cardinality(P) = Cardinality(Q)
  BY <1>4, <1>5, FS_Bijection DEF ExistsBijection
<1>7. \A p \in P : f[p] \in Int /\ g[h[p]] = f[p]
  BY <1>1, <1>5 DEF Id
<1> HIDE DEF f, g
<1>8. SumFunctionOnSet(g, Q) = SumFunctionOnSet(f, P)
  BY <1>4, <1>5, <1>7, SumRenamed
<1> QED  BY <1>6, <1>8, AmountAtSum DEF f, g

LEMMA SameHistory ==
    ASSUME NEW bs \in Seq(Block), NEW cs \in Seq(Block), NEW st \in LedgerState,
           DistinctIds(bs, Slots(bs)), DistinctIds(cs, Slots(cs)), NEW a \in Accounts,
           \A id \in (Ids(bs) \ Ids(cs)) \cup (Ids(cs) \ Ids(bs)) : a \notin {id[1], id[2]}
    PROVE  /\ StateAfter(st, bs).balances[a] = StateAfter(st, cs).balances[a]
           /\ StateAfter(st, bs).nonces[a] = StateAfter(st, cs).nonces[a]
<1> DEFINE P == SentBy(bs, Slots(bs), a)
           Q == SentBy(cs, Slots(cs), a)
           R == ReceivedBy(bs, Slots(bs), a)
           T == ReceivedBy(cs, Slots(cs), a)
<1>1. /\ P \in SUBSET Slots(bs) /\ R \in SUBSET Slots(bs)
      /\ Q \in SUBSET Slots(cs) /\ T \in SUBSET Slots(cs)
  BY SenderPositions
<1>2. /\ DistinctIds(bs, P) /\ DistinctIds(bs, R)
      /\ DistinctIds(cs, Q) /\ DistinctIds(cs, T)
  <2> HIDE DEF P, Q, R, T
  <2> QED  BY <1>1 DEF DistinctIds
<1>3. /\ \A p \in Slots(bs) : TxAt(bs, p).sender = Id(TxAt(bs, p))[1]
                              /\ TxAt(bs, p).receiver = Id(TxAt(bs, p))[2]
      /\ \A p \in Slots(cs) : TxAt(cs, p).sender = Id(TxAt(cs, p))[1]
                              /\ TxAt(cs, p).receiver = Id(TxAt(cs, p))[2]
  BY DEF Id
<1>4. /\ \A p \in Slots(bs) : Id(TxAt(bs, p)) \in Ids(bs)
      /\ \A p \in Slots(cs) : Id(TxAt(cs, p)) \in Ids(cs)
      /\ \A id \in Ids(bs) : \E p \in Slots(bs) : Id(TxAt(bs, p)) = id
      /\ \A id \in Ids(cs) : \E p \in Slots(cs) : Id(TxAt(cs, p)) = id
  BY DEF Ids
<1>5. \A id : a = id[1] \/ a = id[2] => (id \in Ids(bs) <=> id \in Ids(cs))
  OBVIOUS
<1>6. \A p \in P : \E q \in Q : Id(TxAt(cs, q)) = Id(TxAt(bs, p))
  BY <1>3, <1>4, <1>5 DEF SentBy
<1>7. \A q \in Q : \E p \in P : Id(TxAt(bs, p)) = Id(TxAt(cs, q))
  BY <1>3, <1>4, <1>5 DEF SentBy
<1>8. \A p \in R : \E q \in T : Id(TxAt(cs, q)) = Id(TxAt(bs, p))
  BY <1>3, <1>4, <1>5 DEF ReceivedBy
<1>9. \A q \in T : \E p \in R : Id(TxAt(bs, p)) = Id(TxAt(cs, q))
  BY <1>3, <1>4, <1>5 DEF ReceivedBy
<1> HIDE DEF P, Q, R, T
<1>10. AmountAt(bs, P) = AmountAt(cs, Q) /\ Cardinality(P) = Cardinality(Q)
  BY <1>1, <1>2, <1>6, <1>7, SameIds
<1>11. AmountAt(bs, R) = AmountAt(cs, T)
  BY <1>1, <1>2, <1>8, <1>9, SameIds
<1>12. /\ BalanceAfter(st, bs, Slots(bs), a) = BalanceAfter(st, cs, Slots(cs), a)
       /\ NonceAfter(st, bs, Slots(bs), a) = NonceAfter(st, cs, Slots(cs), a)
  BY <1>10, <1>11 DEF BalanceAfter, NonceAfter, P, Q, R, T
<1> QED  BY <1>12 DEF StateAfter

LEMMA ReconcileKeeps ==
    ASSUME AcceptedInv, ChainInv, ReplayInv, ChainInv', ReplayInv',
           KeepsKeys(public_keys, public_keys'), NEW t \in mempool, ~ Touched(t)
    PROVE  t \in Requeued(public_keys', transaction_index', State', mempool)
<1> DEFINE a == t.sender
           n == nonces[a]
           Q == QueuedBy(mempool, a)
           k == Cardinality(Q)
<1>1. /\ mempool \subseteq Txs /\ IsFiniteSet(mempool) /\ t \in Txs /\ a \in Accounts
      /\ blocks \in Seq(Block) /\ blocks' \in Seq(Block)
      /\ n \in Nat /\ balances[a] \in Nat
  <2>1. TypeOK /\ TypeOK'
    BY DEF ChainInv
  <2>2. mempool \subseteq Txs /\ IsFiniteSet(mempool)
    BY <2>1 DEF TypeOK
  <2>3. blocks \in Seq(Block) /\ blocks' \in Seq(Block)
    BY <2>1 DEF TypeOK, Memory, ChainFile
  <2>4. t \in Txs /\ a \in Accounts
    BY <2>2, TxFields
  <2> QED  BY <2>1, <2>2, <2>3, <2>4, MemoryFields, AllocationAssumption
<1>2. (State').balances[a] = balances[a] /\ (State').nonces[a] = n
  <2>1. DistinctIds(blocks, Slots(blocks))
    BY DEF ReplayInv, MemoryUnique, Unique, DistinctIds
  <2>2. DistinctIds(blocks', Slots(blocks'))
    BY DEF ReplayInv, MemoryUnique, Unique, DistinctIds
  <2>3. /\ State = StateAfter(InitialState, blocks) /\ transaction_index = Ids(blocks)
        /\ State' = StateAfter(InitialState, blocks') /\ transaction_index' = Ids(blocks')
    BY DEF ChainInv, CachesAreReplay
  <2>4. \A id \in (Ids(blocks) \ Ids(blocks')) \cup (Ids(blocks') \ Ids(blocks)) :
          a \notin {id[1], id[2]}
    BY <2>3 DEF Touched
  <2>5. /\ StateAfter(InitialState, blocks).balances[a]
             = StateAfter(InitialState, blocks').balances[a]
        /\ StateAfter(InitialState, blocks).nonces[a]
             = StateAfter(InitialState, blocks').nonces[a]
    BY <1>1, <2>1, <2>2, <2>4, InitialStateType, SameHistory
  <2>6. State.balances[a] = balances[a] /\ State.nonces[a] = n
    BY DEF State
  <2> QED  BY <2>3, <2>5, <2>6
<1>3. /\ t \in Q /\ k \in Nat /\ {u.nonce : u \in Q} = n .. n + k - 1
      /\ IsFiniteSet(Q) /\ Q \subseteq Txs /\ Q \subseteq mempool
  <2>1. IsFiniteSet(Q) /\ Q \subseteq Txs /\ Q \subseteq mempool
    BY <1>1, QueuedType
  <2>2. t \in Q
    BY DEF QueuedBy
  <2> QED  BY <1>1, <2>1, <2>2, FS_CardinalityType DEF AcceptedInv, PoolInv, PoolContiguous, IsRun
<1>4. t.nonce \in n .. n + k - 1
  BY <1>3
<1>5. n <= t.nonce
  BY <1>1, <1>3, <1>4
<1>6. ASSUME NEW m \in n .. t.nonce
      PROVE  \E u \in Q : /\ u.nonce = m /\ Signed(public_keys', u)
                          /\ Id(u) \notin transaction_index'
                          /\ TotalAmount(Lead(State', mempool, u)) <= (State').balances[u.sender]
  <2>1. m \in n .. n + k - 1
    <3> HIDE DEF n, k
    <3> QED  BY <1>1, <1>3, <1>4
  <2>2. PICK u \in Q : u.nonce = m
    BY <1>3, <2>1
  <2>3. u \in mempool /\ u \in Txs /\ u.sender = a
    BY <1>3 DEF QueuedBy
  <2>4. Signed(public_keys', u) /\ Id(u) \notin transaction_index
    BY <2>3, SignedKept DEF AcceptedInv, Accepted
  <2>5. Id(u)[1] = a
    BY <2>3 DEF Id
  <2>6. Id(u) \notin transaction_index'
    BY <2>4, <2>5 DEF Touched
  <2>7. TotalAmount(Lead(State', mempool, u)) <= balances[a]
    <3> DEFINE L == Lead(State', mempool, u)
    <3>1. L \in SUBSET Q
      BY <2>3 DEF Lead
    <3>2. IsFiniteSet(L) /\ L \subseteq Txs
      BY <1>3, <3>1, FS_Subset
    <3> HIDE DEF L, Q
    <3>3. TotalAmount(L) <= TotalAmount(Q)
      BY <1>3, <3>1, TotalsLess
    <3>4. TotalAmount(L) \in Nat /\ TotalAmount(Q) \in Nat
      BY <1>3, <3>2, TotalsType
    <3>5. TotalAmount(Q) <= balances[a]
      BY <1>1 DEF AcceptedInv, Funded, Q
    <3>6. TotalAmount(L) <= balances[a]
      BY <1>1, <3>3, <3>4, <3>5
    <3> QED  BY <3>6 DEF L
  <2> QED  BY <1>2, <2>2, <2>3, <2>4, <2>6, <2>7
<1> QED  BY <1>2, <1>5, <1>6 DEF Requeued

LEMMA DropsStep ==
    ASSUME AcceptedInv, ChainInv, ReplayInv, ChainInv', ReplayInv', Next, Running,
           NEW t \in mempool \ mempool'
    PROVE  Id(t) \in transaction_index' \/ Touched(t)
<1>1. ASSUME NEW u \in Txs, Submit(u) \/ GossipTransaction(u) PROVE FALSE
  BY <1>1 DEF Submit, GossipTransaction, Queue
<1>2. CASE SealAfterSubmit \/ Tick
  <2>1. SealPending(BOOLEAN)
    BY <1>2 DEF SealAfterSubmit, Tick
  <2>2. PICK batch \in Drained(mempool) : SealCommits(batch, BOOLEAN)
    BY <2>1 DEF SealPending, SealFails, pool
  <2> QED  BY <2>2, SealsAll
<1>3. ASSUME NEW name, NEW key, RegisterAccount(name, key) PROVE FALSE
  BY <1>3 DEF RegisterAccount, pool
<1>4. ASSUME NEW s \in Snapshots, ReceiveBlock(s) \/ ReceiveChain(s)
      PROVE  Touched(t)
  <2>1. /\ mempool' = Requeued(public_keys', transaction_index', State', mempool)
        /\ KeepsKeys(public_keys, public_keys')
    BY <1>4, ReceiveReconciles
  <2> QED  BY <2>1, ReconcileKeeps
<1>5. ~ Crash /\ ~ Shutdown /\ ~ Start
  BY DEF Crash, Shutdown, Start, Stop, Running
<1> QED  BY <1>1, <1>2, <1>3, <1>4, <1>5 DEF Next

\* An accepted transaction leaves the pool of a running node for two reasons
\* only: it is on the chain, or the chain's record of its sender has changed.
\* Reorganizations about others and failed seals never lose one.
THEOREM DropsExplained == Spec => DropsAreExplained
<1> DEFINE Explained == Running =>
                \A t \in mempool \ mempool' : Id(t) \in transaction_index' \/ Touched(t)
           Inv == AcceptedInv /\ ChainInv /\ ReplayInv
<1>1. Init => Inv
  BY AcceptedInit, ChainInit, ReplayInit
<1>2. Inv /\ [Next]_vars => Inv'
  BY AcceptedStep, ChainStep, ReplayStep
<1>3. Inv /\ Inv' /\ [Next]_vars => [Explained]_vars
  BY DropsStep
<1>4. [][Explained]_vars => DropsAreExplained
  BY PTL DEF DropsAreExplained
<1> QED  BY <1>1, <1>2, <1>3, <1>4, PTL DEF Spec
=============================================================================
