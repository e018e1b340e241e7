----------------------------- MODULE Blockchain -----------------------------
(***************************************************************************)
(* The rules of blockrock-core: what makes a transaction admissible, a     *)
(* block valid and a pool consistent with a chain.  No state is declared   *)
(* here: Ledger and the network modules apply these operators to theirs.   *)
(*                                                                         *)
(* Hashes are abstracted by what they commit to.  A transaction id is the  *)
(* signed content, and the hash of a block is the chain that ends with it, *)
(* so "previous_hash is our tip's hash" reads "all but the last block is   *)
(* our chain".  A signature is the key that made it.                       *)
(***************************************************************************)
EXTENDS Integers, Sequences, FiniteSets, Functions

CONSTANTS
    Accounts,          \* names of accounts, validators and the mint
    Mint,              \* MINT_ACCOUNT, "System"
    Keys,              \* public keys; a signing key is named by its public half
    NoKey,             \* no key registered, or no seal on the block
    Rank,              \* the lexical order of the account names
    Txs,               \* every transaction somebody may have signed
    MaxAmount,         \* u64::MAX
    MaxMempoolBytes,   \* MAX_MEMPOOL_BYTES
    SealThreshold,     \* SEAL_THRESHOLD_BYTES
    InitialBalances,   \* the allocation the chain starts from
    Creator            \* authority named by the genesis block

TxRecord ==
    [sender : Accounts, receiver : Accounts, amount : Nat, nonce : Nat,
     weight : Nat, key : Keys, wellFormed : BOOLEAN]

ASSUME KeyAssumption == NoKey \notin Keys
ASSUME TxAssumption == Txs \subseteq TxRecord
ASSUME AllocationAssumption ==
    /\ MaxAmount \in Nat
    /\ InitialBalances \in [Accounts -> 0 .. MaxAmount]
ASSUME AccountAssumption ==
    /\ Mint \in Accounts /\ Creator \in Accounts
    /\ IsFiniteSet(Accounts)
    /\ \A a \in Accounts : Rank[a] \in Nat
    /\ \A a, b \in Accounts : Rank[a] = Rank[b] => a = b
ASSUME LimitAssumption == MaxMempoolBytes \in Nat

\* wellFormed is has_valid_id() and payload_within_limit(); the weight stands
\* for the payload, the only field of the id not spelled out.
Id(t) == <<t.sender, t.receiver, t.amount, t.nonce, t.weight>>

Block == [author : Accounts, key : Keys \cup {NoKey}, txs : Seq(Txs)]

Genesis == [author |-> Creator, key |-> NoKey, txs |-> <<>>]

KeyMap == [Accounts -> Keys \cup {NoKey}]

LedgerState == [balances : [Accounts -> 0 .. MaxAmount], nonces : [Accounts -> Nat]]

InitialState ==
    [balances |-> InitialBalances, nonces |-> [a \in Accounts |-> 0]]

-----------------------------------------------------------------------------
(***************************************************************************)
(* Positions.  verify_block walks the transactions of one block, replay    *)
(* those of a whole chain, carrying a running state.  Here the running     *)
(* state at a position is a function of the positions before it.           *)
(***************************************************************************)

\* Positions of the transactions in the sequence of blocks bs.
Slots(bs) == UNION {{n} \X DOMAIN bs[n].txs : n \in DOMAIN bs}

TxAt(bs, p) == bs[p[1]].txs[p[2]]

Precedes(p, q) == p[1] < q[1] \/ (p[1] = q[1] /\ p[2] < q[2])

SlotsBefore(bs, p) == {q \in Slots(bs) : Precedes(q, p)}

\* Positions of P whose transaction a sent, and so was checked and debited for.
SentBy(bs, P, a) == {p \in P : TxAt(bs, p).sender = a}

Ids(bs) == {Id(TxAt(bs, p)) : p \in Slots(bs)}

\* Positions of P whose transaction paid a.
ReceivedBy(bs, P, a) == {p \in P : TxAt(bs, p).receiver = a}

\* All that was moved at the positions P.
AmountAt(bs, P) == SumFunction([p \in P |-> TxAt(bs, p).amount])

\* Bug: the mint pays for what it issues.
BalanceAfterMintDebited(st, bs, P, a) ==
    st.balances[a] + AmountAt(bs, ReceivedBy(bs, P, a)) - AmountAt(bs, SentBy(bs, P, a))

\* The balance of a once the transactions at P have been applied to st. The
\* mint account is never debited.
BalanceAfter(st, bs, P, a) ==
    st.balances[a] + AmountAt(bs, ReceivedBy(bs, P, a))
        - (IF a = Mint THEN 0 ELSE AmountAt(bs, SentBy(bs, P, a)))

\* The nonce apply_transaction expects from a once those at P are applied.
NonceAfter(st, bs, P, a) ==
    IF a = Mint THEN st.nonces[a] ELSE st.nonces[a] + Cardinality(SentBy(bs, P, a))

StateAfter(st, bs) ==
    [balances |-> [a \in Accounts |-> BalanceAfter(st, bs, Slots(bs), a)],
     nonces   |-> [a \in Accounts |-> NonceAfter(st, bs, Slots(bs), a)]]

Signed(keys, t) == keys[t.sender] # NoKey /\ keys[t.sender] = t.key

\* Bug: a nonce that was already consumed passes.
AuthorizedOldNonce(keys, st, bs, p) ==
    LET t == TxAt(bs, p)
        P == SlotsBefore(bs, p)
    IN  t.sender # Mint =>
            /\ Signed(keys, t)
            /\ t.nonce <= NonceAfter(st, bs, P, t.sender)
            /\ t.amount <= BalanceAfter(st, bs, P, t.sender)

\* apply_transaction: nonce, signature and funds of everyone but the mint.
Authorized(keys, st, bs, p) ==
    LET t == TxAt(bs, p)
        P == SlotsBefore(bs, p)
    IN  t.sender # Mint =>
            /\ Signed(keys, t)
            /\ t.nonce = NonceAfter(st, bs, P, t.sender)
            /\ t.amount <= BalanceAfter(st, bs, P, t.sender)

\* Bug: duplicates are looked for in the block only.
FreshInBlock(seen, bs, p) ==
    LET t == TxAt(bs, p)
    IN  t.wellFormed /\ \A q \in SlotsBefore(bs, p) : Id(TxAt(bs, q)) # Id(t)

\* apply_transaction: the id is right and was never seen, on the chain the
\* state st comes from (seen) or earlier in bs.
Fresh(seen, bs, p) ==
    LET t == TxAt(bs, p)
    IN  /\ t.wellFormed
        /\ Id(t) \notin seen
        /\ \A q \in SlotsBefore(bs, p) : Id(TxAt(bs, q)) # Id(t)

\* Bug: the credit is an unchecked addition.
WidthUnchecked(st, bs, P) == TRUE

\* apply_transaction: no credit overflows. Only the receiver's balance grows,
\* so asking for a u64 of every account is asking for it of the receiver.
WithinWidth(st, bs, P) ==
    \A a \in Accounts : BalanceAfter(st, bs, P, a) \in 0 .. MaxAmount

TransactionsApply(keys, seen, st, bs) ==
    /\ \A p \in Slots(bs) :
        /\ Fresh(seen, bs, p)
        /\ Authorized(keys, st, bs, p)
        /\ WithinWidth(st, bs, SlotsBefore(bs, p))
    /\ WithinWidth(st, bs, Slots(bs))

\* verify_block: who may seal, and with which key.
SealedBy(auths, keys, b) ==
    /\ b.author \in auths
    /\ keys[b.author] # NoKey
    /\ b.key = keys[b.author]

BlockValid(auths, keys, seen, st, b) ==
    SealedBy(auths, keys, b) /\ TransactionsApply(keys, seen, st, <<b>>)

\* replay: block 0 has no seal, all the others do.
ChainValid(auths, keys, chain) ==
    /\ \A n \in DOMAIN chain \ {1} : SealedBy(auths, keys, chain[n])
    /\ TransactionsApply(keys, {}, InitialState, chain)

-----------------------------------------------------------------------------
(***************************************************************************)
(* The mempool: a set of transactions, keyed by id in the code.            *)
(***************************************************************************)

QueuedBy(pool, a) == {t \in pool : t.sender = a}

\* The nonces of S, all different, are n, n+1, ... with none missing.
IsRun(S, n) ==
    /\ {t.nonce : t \in S} = n .. n + Cardinality(S) - 1
    /\ \A t, u \in S : t.nonce = u.nonce => t = u

TotalAmount(pool) == SumFunction([t \in pool |-> t.amount])

TotalWeight(pool) == SumFunction([t \in pool |-> t.weight])

ExpectedNonce(st, pool, a) == st.nonces[a] + Cardinality(QueuedBy(pool, a))

\* balance.saturating_sub(already_spent) >= amount
Affordable(st, pool, t) ==
    LET spent     == TotalAmount(QueuedBy(pool, t.sender))
        balance   == st.balances[t.sender]
        available == IF spent <= balance THEN balance - spent ELSE 0
    IN  t.amount <= available

\* queue_transaction refuses for every reason but a full pool. `seen` holds
\* the ids of the transactions on chain.
Refused(keys, seen, st, pool, t) ==
    \/ t.sender = Mint
    \/ ~ t.wellFormed
    \/ Id(t) \in seen
    \/ \E u \in pool : Id(u) = Id(t)
    \/ ~ Signed(keys, t)
    \/ t.nonce # ExpectedNonce(st, pool, t.sender)
    \/ ~ Affordable(st, pool, t)

\* The transactions of t's sender from the nonce the chain expects up to t.
Lead(st, pool, t) ==
    {u \in QueuedBy(pool, t.sender) : u.nonce \in st.nonces[t.sender] .. t.nonce}

\* Bug: only what was confirmed or overtaken is let go.
RequeuedWithGaps(keys, seen, st, pool) ==
    {t \in pool : Id(t) \notin seen /\ st.nonces[t.sender] <= t.nonce}

\* Bug: funds are not looked at again.
RequeuedUnfunded(keys, seen, st, pool) ==
    {t \in pool :
        /\ st.nonces[t.sender] <= t.nonce
        /\ \A n \in st.nonces[t.sender] .. t.nonce :
            \E u \in QueuedBy(pool, t.sender) : u.nonce = n /\ Id(u) \notin seen}

\* Bug: a new block empties the pool.
RequeuedNothing(keys, seen, st, pool) == {}

\* reconcile_mempool drains in (sender, nonce) order and queues again. A
\* transaction gets back in exactly when its whole lead does: one that is
\* confirmed is behind the expected nonce, and one that fails leaves a gap.
Requeued(keys, seen, st, pool) ==
    LET Fits(u) == /\ Signed(keys, u)
                   /\ Id(u) \notin seen
                   /\ TotalAmount(Lead(st, pool, u)) <= st.balances[u.sender]
    IN  {t \in pool :
            /\ st.nonces[t.sender] <= t.nonce
            /\ \A n \in st.nonces[t.sender] .. t.nonce :
                \E u \in QueuedBy(pool, t.sender) : u.nonce = n /\ Fits(u)}

\* drain: the pool sorted by sender name, then by nonce.
Drained(pool) ==
    {batch \in [1 .. Cardinality(pool) -> pool] :
        \A i, j \in DOMAIN batch : i < j =>
            \/ Rank[batch[i].sender] < Rank[batch[j].sender]
            \/ /\ batch[i].sender = batch[j].sender
               /\ batch[i].nonce < batch[j].nonce}

-----------------------------------------------------------------------------
(***************************************************************************)
(* What a peer teaches us along with its blocks.                           *)
(***************************************************************************)

\* Bug: the peer's binding wins.
MergeAccountsTheirs(keys, theirs) ==
    [a \in Accounts |-> IF theirs[a] = NoKey THEN keys[a] ELSE theirs[a]]

\* merge_accounts: a name we know is never rebound.
MergeAccounts(keys, theirs) ==
    [a \in Accounts |-> IF keys[a] = NoKey THEN theirs[a] ELSE keys[a]]

\* merge_block_accounts: only the senders of this block.
MergeBlockAccounts(keys, theirs, b) ==
    [a \in Accounts |->
        IF keys[a] = NoKey /\ \E i \in DOMAIN b.txs : b.txs[i].sender = a
        THEN theirs[a] ELSE keys[a]]

\* Bug: the peer's set replaces ours.
MergeAuthoritiesTheirs(auths, keys, theirs) == {a \in theirs : keys[a] # NoKey}

\* merge_authorities: a name is learned only once its key is known.
MergeAuthorities(auths, keys, theirs) ==
    auths \cup {a \in theirs : keys[a] # NoKey}

=============================================================================
