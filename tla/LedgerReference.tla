--------------------------- MODULE LedgerReference ---------------------------
(***************************************************************************)
(* The loops of blockchain.rs as loops.  Blockchain states what a block or *)
(* a requeue amounts to, position by position; here the same functions     *)
(* carry a running state from step to step and stop at the first error, as *)
(* the code does.  The machine grows arbitrary chains, valid or not, and   *)
(* legal pools, and the invariants say that both readings agree on them.   *)
(***************************************************************************)
EXTENDS Blockchain

CONSTANTS
    Authors,       \* the authorized validators
    Writers,       \* authors of the blocks grown, authorized or not
    AuthorKeys,    \* keys registered: seals and signatures are checked against it
    MaxTxs,        \* bound: transactions on the chain
    MaxBlocks,     \* bound: blocks after the genesis
    MaxPending     \* bound: transactions in the pool

ASSUME AuthorAssumption == Writers \subseteq Accounts /\ AuthorKeys \in KeyMap

VARIABLES
    chain,   \* a sequence of blocks, not necessarily valid
    base,    \* how many of its blocks the pool was admitted against
    queue    \* a pool legal after those blocks

refVars == <<chain, base, queue>>

-----------------------------------------------------------------------------
\* apply_transaction on a running state r; once r has failed it stays so.
ApplyTransaction(keys, r, t) ==
    LET minted   == t.sender = Mint
        expected == r.nonces[t.sender]
        balance  == r.balances[t.sender]
        debited  == IF minted THEN r.balances
                    ELSE [r.balances EXCEPT ![t.sender] = balance - t.amount]
        credited == debited[t.receiver] + t.amount
    IN  IF /\ r.ok
           /\ t.wellFormed
           /\ Id(t) \notin r.seen
           /\ ~ minted => Signed(keys, t) /\ t.nonce = expected /\ balance >= t.amount
           /\ credited <= MaxAmount
        THEN [ok       |-> TRUE,
              seen     |-> r.seen \cup {Id(t)},
              balances |-> [debited EXCEPT ![t.receiver] = credited],
              nonces   |-> IF minted THEN r.nonces
                           ELSE [r.nonces EXCEPT ![t.sender] = expected + 1]]
        ELSE [r EXCEPT !.ok = FALSE]

\* verify_block, and replay over blocks 1..n.
VerifyBlock(auths, keys, r, b, isGenesis) ==
    LET start == [r EXCEPT !.ok = r.ok /\ (isGenesis \/ SealedBy(auths, keys, b))]
        run[i \in 0 .. Len(b.txs)] ==
            IF i = 0 THEN start ELSE ApplyTransaction(keys, run[i - 1], b.txs[i])
    IN  run[Len(b.txs)]

Replay(auths, keys, bs) ==
    LET start == [ok |-> TRUE, seen |-> {}, balances |-> InitialBalances,
                  nonces |-> [a \in Accounts |-> 0]]
        run[n \in 0 .. Len(bs)] ==
            IF n = 0 THEN start ELSE VerifyBlock(auths, keys, run[n - 1], bs[n], n = 1)
    IN  run[Len(bs)]

\* Mempool::queue on the pool kept so far; a refused transaction is dropped.
QueueAgain(keys, seen, st, kept, t) ==
    IF Refused(keys, seen, st, kept, t) \/ TotalWeight(kept) + t.weight > MaxMempoolBytes
    THEN kept ELSE kept \cup {t}

\* reconcile_mempool: drain, then queue each one again in that order.
ReconcileMempool(keys, seen, st, pending) ==
    LET batch == CHOOSE batch \in Drained(pending) : TRUE
        kept[i \in 0 .. Len(batch)] ==
            IF i = 0 THEN {} ELSE QueueAgain(keys, seen, st, kept[i - 1], batch[i])
    IN  kept[Len(batch)]

-----------------------------------------------------------------------------
StateOf(bs) == StateAfter(InitialState, bs)

Valid(bs) == ChainValid(Authors, AuthorKeys, bs)

RefInit == chain = <<Genesis>> /\ base = 1 /\ queue = {}

\* A block of any author is opened, with one transaction.
OpenBlock(a, t) ==
    /\ Len(chain) <= MaxBlocks
    /\ chain' = Append(chain, [author |-> a, key |-> AuthorKeys[a], txs |-> <<t>>])
    /\ UNCHANGED <<base, queue>>

\* The last block gets one transaction more. The pool is older than it.
ExtendBlock(t) ==
    /\ Len(chain) > base
    /\ Cardinality(Slots(chain)) < MaxTxs
    /\ chain' = [chain EXCEPT ![Len(chain)].txs = Append(@, t)]
    /\ UNCHANGED <<base, queue>>

\* A transaction is admitted to the pool, against a valid chain.
Admit(t) ==
    /\ base = Len(chain)
    /\ Valid(chain)
    /\ Cardinality(queue) < MaxPending
    /\ ~ Refused(AuthorKeys, Ids(chain), StateOf(chain), queue, t)
    /\ TotalWeight(queue) + t.weight <= MaxMempoolBytes
    /\ queue' = queue \cup {t}
    /\ UNCHANGED <<chain, base>>

\* The pool starts from the longer chain instead.
Rebase ==
    /\ queue = {}
    /\ base < Len(chain)
    /\ base' = Len(chain)
    /\ UNCHANGED <<chain, queue>>

RefNext ==
    \/ \E t \in Txs : ExtendBlock(t) \/ Admit(t)
    \/ \E a \in Writers, t \in Txs :
        Cardinality(Slots(chain)) < MaxTxs /\ OpenBlock(a, t)
    \/ Rebase

RefSpec == RefInit /\ [][RefNext]_refVars

-----------------------------------------------------------------------------
\* replay accepts exactly the chains ChainValid does, and ends in the state
\* StateAfter gives: running balances and nonces may be read off positions.
ReplayAgrees ==
    LET r == Replay(Authors, AuthorKeys, chain)
    IN  /\ r.ok <=> Valid(chain)
        /\ r.ok => [balances |-> r.balances, nonces |-> r.nonces] = StateOf(chain)

\* A block checked against the state of its prefix (try_append_block) passes
\* exactly when the replay of the longer chain does.
AppendAgrees ==
    Len(chain) > 1 =>
        LET prefix == SubSeq(chain, 1, Len(chain) - 1)
        IN  Valid(prefix) =>
              (BlockValid(Authors, AuthorKeys, Ids(prefix), StateOf(prefix), chain[Len(chain)])
                 <=> Replay(Authors, AuthorKeys, chain).ok)

\* Requeueing one by one keeps what Requeued says, against the chain the pool
\* was built on, one that grew past it, and the allocation a fork restarts at.
RequeueAgrees ==
    Valid(chain) =>
        \A c \in {chain, <<Genesis>>} :
            ReconcileMempool(AuthorKeys, Ids(c), StateOf(c), queue)
              = Requeued(AuthorKeys, Ids(c), StateOf(c), queue)
=============================================================================
