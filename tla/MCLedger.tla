------------------------------ MODULE MCLedger ------------------------------
(***************************************************************************)
(* Instances of Ledger: two clients, this validator and one peer validator.*)
(***************************************************************************)
EXTENDS Ledger, TLC

CONSTANTS System, alice, bob, node1, node2, kAlice, kBob, kNode1, kNode2, kRival

MCAccounts == {System, alice, bob, node1, node2}
MCKeys == {kAlice, kBob, kNode1, kNode2, kRival}
MCRank == alice :> 1 @@ bob :> 2 @@ node1 :> 3 @@ node2 :> 4 @@ System :> 5

MCInitialBalances ==
    [a \in MCAccounts |-> CASE a = alice -> 3 [] a = bob -> 1 [] a = System -> 2 [] OTHER -> 0]

Tx(from, to, amount, nonce, weight, key) ==
    [sender |-> from, receiver |-> to, amount |-> amount, nonce |-> nonce,
     weight |-> weight, key |-> key, wellFormed |-> TRUE]

\* alice can pay bob once, and again only if her first nonce went to something
\* else or bob paid her back, which he can do only after her first payment.
Pay1  == Tx(alice, bob, 2, 0, 1, kAlice)
Pay2  == Tx(alice, bob, 2, 1, 1, kAlice)
Other == Tx(alice, alice, 0, 0, 2, kAlice)
Back  == Tx(bob, alice, 3, 0, 1, kBob)

\* The same account registered elsewhere with another key, and a transaction
\* whose id does not match its content.
Rival   == Tx(alice, alice, 0, 0, 2, kRival)
Damaged == [Tx(bob, alice, 1, 0, 1, kBob) EXCEPT !.wellFormed = FALSE]

\* The mint gives bob coins: with MaxAmount 4 another credit overflows. They are
\* also enough for a chain of two blocks that alice has no part in, and that
\* takes her nonce back to 0.
Coin  == Tx(System, bob, 2, 0, 1, kNode2)
Tip   == Tx(System, bob, 1, 1, 1, kNode2)

TransferTxs == {Pay1, Pay2, Other, Back}
LocalTxs    == TransferTxs \cup {Rival, Damaged}
MintTxs     == {Other, Pay2, Coin, Tip}

NoKeys == [a \in MCAccounts |-> NoKey]
AuthorityKeys == [NoKeys EXCEPT ![node1] = kNode1, ![node2] = kNode2]
PeerKeys == [AuthorityKeys EXCEPT ![alice] = kAlice, ![bob] = kBob]

Batches(txs) == {<<t>> : t \in txs} \cup {b \in txs \X txs : b[1] # b[2]}

BlocksOf(txs) ==
    {[author |-> a, key |-> AuthorityKeys[a], txs |-> b] :
        a \in {node1, node2}, b \in Batches(txs)}

\* The chains of up to four blocks a peer that runs the same code can hold.
RECURSIVE Grow(_, _, _)
Grow(chains, txs, n) ==
    IF n = 0 THEN chains
    ELSE chains \cup
         Grow({c \in {Append(d, b) : d \in chains, b \in BlocksOf(txs)} :
                ChainValid({node1, node2}, PeerKeys, c)}, txs, n - 1)

PeerChains(txs, n) == Grow({<<Genesis>>}, txs, n)

SnapshotsOf(chains) ==
    {[blocks |-> c, accounts |-> PeerKeys, authorities |-> {node1, node2}] : c \in chains}

TransferSnapshots == SnapshotsOf(PeerChains(TransferTxs, 3))

MintSnapshots     == SnapshotsOf(PeerChains(MintTxs, 2))
ShortSnapshots    == SnapshotsOf(PeerChains(TransferTxs, 2))

\* A peer that has not heard of node2 holds only blocks of node1.
OldKeys == [PeerKeys EXCEPT ![node2] = NoKey]
FollowerSnapshots ==
    ShortSnapshots \cup
    {[blocks |-> s.blocks, accounts |-> OldKeys, authorities |-> {node1}] :
        s \in {r \in ShortSnapshots :
                \A n \in DOMAIN r.blocks : r.blocks[n].author = node1}}
=============================================================================
