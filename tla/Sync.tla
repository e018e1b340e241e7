-------------------------------- MODULE Sync --------------------------------
(***************************************************************************)
(* Several nodes and the protocol /blockrock/sync/1.0.0 between them:      *)
(* chain requests, announcements of blocks and relays, over connections    *)
(* that come and go and messages that may be late, overtaken or lost.      *)
(* Balances, nonces and the index of a node are those of a replay of its   *)
(* chain, which is what Ledger shows of its caches.  Writes of the chain   *)
(* file succeed here: a restart finds the chain the node had.              *)
(***************************************************************************)
EXTENDS Blockchain

CONSTANTS
    Nodes,                 \* each named as the identity it seals with
    SealKey,               \* the key of each identity
    Founder,               \* the name in the genesis of each node's file
    InitialAuthorities,    \* authorities and keys of that file
    InitialKeys,
    Clients,               \* transactions submitted at each node
    Links,                 \* pairs of nodes that may connect
    Bounds                 \* bound: how many messages are lost on links that stay
                           \* up, how many times a link drops or a node restarts,
                           \* and how many transactions there are: triples

ASSUME NodeAssumption ==
    /\ Nodes \subseteq Accounts \ {Mint}
    /\ SealKey \in [Nodes -> Keys]
    /\ Founder \in [Nodes -> Accounts]
    /\ InitialAuthorities \in [Nodes -> SUBSET Accounts]
    /\ InitialKeys \in [Nodes -> KeyMap]
    /\ Clients \in [Nodes -> SUBSET Txs]
    /\ Links \subseteq SUBSET Nodes
    /\ Bounds \subseteq Nat \X Nat \X Nat

VARIABLES
    blocks, authorities, public_keys, mempool,   \* of each node, in memory
    connected,   \* links that are up
    network,     \* messages under way
    lost, drops  \* how many faults of each kind there were

node  == <<blocks, authorities, public_keys, mempool>>
fault == <<lost, drops>>
vars  == <<node, connected, network, fault>>

GenesisOf(n) == [Genesis EXCEPT !.author = Founder[n]]

GetChain(n, m) == [type |-> "GetChain", from |-> n, to |-> m]

ChainMessage(n, m, snapshot) ==
    [type |-> "Chain", from |-> n, to |-> m, snapshot |-> snapshot]

\* announcement_of: a block, named by the chain it ends, and the keys of its
\* senders, never a set of authorities.
NewBlock(n, m, chain, keys) ==
    LET b == chain[Len(chain)]
        senders == {b.txs[i].sender : i \in DOMAIN b.txs}
    IN  [type |-> "NewBlock", from |-> n, to |-> m, chain |-> chain,
         accounts |-> [a \in Accounts |-> IF a \in senders THEN keys[a] ELSE NoKey]]

SnapshotOf(n) ==
    [blocks |-> blocks[n], accounts |-> public_keys[n], authorities |-> authorities[n]]

State(n) == StateAfter(InitialState, blocks[n])

\* Every transaction that is pending or confirmed somewhere.
Work ==
    UNION {mempool[n] \cup UNION {Range(blocks[n][i].txs) : i \in DOMAIN blocks[n]} :
              n \in Nodes}

Within(l, d, ts) == <<l, d, Cardinality(ts)>> \in Bounds

Peers(n) == {m \in Nodes \ {n} : {n, m} \in connected}

\* The identity of a node is registered when the chain lists its name.
StartKeys(n, auths, keys) ==
    IF n \in auths THEN [keys EXCEPT ![n] = SealKey[n]] ELSE keys

\* Every process has started from its file and met its neighbours, which had
\* no more than its genesis either.
Init ==
    /\ blocks = [n \in Nodes |-> <<GenesisOf(n)>>]
    /\ authorities = InitialAuthorities
    /\ public_keys = [n \in Nodes |-> StartKeys(n, InitialAuthorities[n], InitialKeys[n])]
    /\ mempool = [n \in Nodes |-> {}]
    /\ connected = Links
    /\ network = {}
    /\ lost = 0 /\ drops = 0

-----------------------------------------------------------------------------
\* The chain of n becomes `chain`, with what it learned to verify it.
Replace(n, chain, keys, auths) ==
    /\ blocks' = [blocks EXCEPT ![n] = chain]
    /\ public_keys' = [public_keys EXCEPT ![n] = keys]
    /\ authorities' = [authorities EXCEPT ![n] = auths]
    /\ mempool' = [mempool EXCEPT ![n] =
                     Requeued(keys, Ids(chain), StateAfter(InitialState, chain), @)]

\* A block is sent on to every connected peer but the one it came from.
Relay(n, source, chain, keys) ==
    {NewBlock(n, m, chain, keys) : m \in Peers(n) \ {source}}

\* submit, up to the seal.
Submit(n, t) ==
    /\ Within(lost, drops, Work \cup {t})
    /\ ~ Refused(public_keys[n], Ids(blocks[n]), State(n), mempool[n], t)
    /\ mempool' = [mempool EXCEPT ![n] = @ \cup {t}]
    /\ UNCHANGED <<blocks, authorities, public_keys, connected, network, fault>>

\* seal_pending and the loop that passes the announcement on. It is lost when
\* the queue between the two is full.
Seal(n) ==
    \E batch \in Drained(mempool[n]) :
        LET b     == [author |-> n, key |-> SealKey[n], txs |-> batch]
            chain == Append(blocks[n], b)
            news  == Relay(n, n, chain, public_keys[n])
        IN  /\ batch # <<>>
            /\ BlockValid(authorities[n], public_keys[n], Ids(blocks[n]), State(n), b)
            /\ Replace(n, chain, public_keys[n], authorities[n])
            /\ \/ network' = network \cup news /\ UNCHANGED lost
               \/ Within(lost + 1, drops, Work) /\ lost' = lost + 1 /\ UNCHANGED network
            /\ UNCHANGED <<connected, drops>>

-----------------------------------------------------------------------------
(***************************************************************************)
(* handle_sync_event, one action per message and outcome.                  *)
(***************************************************************************)
Consume(m, answers) == network' = (network \ {m}) \cup answers

AnswerGetChain(m) ==
    /\ m.type = "GetChain"
    /\ Consume(m, {ChainMessage(m.to, m.from, SnapshotOf(m.to))})
    /\ UNCHANGED <<node, connected, fault>>

\* The block at its height is ours.
IsKnown(n, chain) ==
    Len(chain) <= Len(blocks[n]) /\ SubSeq(blocks[n], 1, Len(chain)) = chain

\* Bug: a known block is passed on like a new one.
IgnoreKnownAndRelay(m) ==
    /\ m.type = "NewBlock"
    /\ IsKnown(m.to, m.chain)
    /\ Consume(m, Relay(m.to, m.from, m.chain, public_keys[m.to]))
    /\ UNCHANGED <<node, connected, fault>>

\* BlockOutcome::Known: the echo ends here.
IgnoreKnown(m) ==
    /\ m.type = "NewBlock"
    /\ IsKnown(m.to, m.chain)
    /\ Consume(m, {})
    /\ UNCHANGED <<node, connected, fault>>

\* Bug: the node waits for the next announcement instead of asking.
StayBehind(m) ==
    /\ m.type = "NewBlock"
    /\ Len(m.chain) # Len(blocks[m.to]) + 1
    /\ ~ IsKnown(m.to, m.chain)
    /\ Consume(m, {})
    /\ UNCHANGED <<node, connected, fault>>

\* BlockOutcome::OutOfOrder: a block at another height, and not one of ours.
AskForChain(m) ==
    /\ m.type = "NewBlock"
    /\ Len(m.chain) # Len(blocks[m.to]) + 1
    /\ ~ IsKnown(m.to, m.chain)
    /\ Consume(m, {GetChain(m.to, m.from)})
    /\ UNCHANGED <<node, connected, fault>>

\* A block at our height is appended, if it extends our tip and is valid with
\* the keys that came with it; nothing is kept of it otherwise.
Appendable(n, chain, keys) ==
    /\ Len(chain) = Len(blocks[n]) + 1
    /\ SubSeq(chain, 1, Len(blocks[n])) = blocks[n]
    /\ BlockValid(authorities[n], keys, Ids(blocks[n]), State(n), chain[Len(chain)])

AppendBlock(m) ==
    /\ m.type = "NewBlock"
    /\ LET n    == m.to
           keys == MergeBlockAccounts(public_keys[n], m.accounts, m.chain[Len(m.chain)])
       IN  /\ Consume(m, Relay(n, m.from, m.chain, keys))
           /\ Appendable(n, m.chain, keys)
           /\ Replace(n, m.chain, keys, authorities[n])
    /\ UNCHANGED <<connected, fault>>

RejectBlock(m) ==
    /\ m.type = "NewBlock"
    /\ Consume(m, {})
    /\ Len(m.chain) = Len(blocks[m.to]) + 1
    /\ ~ Appendable(m.to, m.chain,
           MergeBlockAccounts(public_keys[m.to], m.accounts, m.chain[Len(m.chain)]))
    /\ UNCHANGED <<node, connected, fault>>

\* Bug: any valid chain of the network is good.
AdoptableAnyLength(n, s, keys, auths) ==
    /\ s.blocks[1] = blocks[n][1]
    /\ ChainValid(auths, keys, s.blocks)

\* apply_snapshot: longer, same genesis, valid with what it teaches.
Adoptable(n, s, keys, auths) ==
    /\ Len(s.blocks) > Len(blocks[n])
    /\ s.blocks[1] = blocks[n][1]
    /\ ChainValid(auths, keys, s.blocks)

AdoptChain(m) ==
    /\ m.type = "Chain"
    /\ LET n     == m.to
           s     == m.snapshot
           keys  == MergeAccounts(public_keys[n], s.accounts)
           auths == MergeAuthorities(authorities[n], keys, s.authorities)
       IN  /\ Consume(m, Relay(n, m.from, s.blocks, keys))
           /\ Adoptable(n, s, keys, auths)
           /\ Replace(n, s.blocks, keys, auths)
    /\ UNCHANGED <<connected, fault>>

KeepChain(m) ==
    /\ m.type = "Chain"
    /\ Consume(m, {})
    /\ LET n     == m.to
           s     == m.snapshot
           keys  == MergeAccounts(public_keys[n], s.accounts)
           auths == MergeAuthorities(authorities[n], keys, s.authorities)
       IN  ~ Adoptable(n, s, keys, auths)
    /\ UNCHANGED <<node, connected, fault>>

Deliver(m) ==
    \/ AnswerGetChain(m)
    \/ IgnoreKnown(m) \/ AskForChain(m) \/ AppendBlock(m) \/ RejectBlock(m)
    \/ AdoptChain(m) \/ KeepChain(m)

-----------------------------------------------------------------------------
(***************************************************************************)
(* The network and the processes.                                          *)
(***************************************************************************)

\* Bug: a connection is no occasion to ask.
ConnectSilently(n, m) ==
    /\ n # m /\ {n, m} \in Links \ connected
    /\ connected' = connected \cup {{n, m}}
    /\ UNCHANGED <<node, network, fault>>

\* Both ends ask for the other's chain.
Connect(n, m) ==
    /\ n # m /\ {n, m} \in Links \ connected
    /\ connected' = connected \cup {{n, m}}
    /\ network' = network \cup {GetChain(n, m), GetChain(m, n)}
    /\ UNCHANGED <<node, fault>>

\* OutboundFailure and InboundFailure: logged, and nothing else.
Lose(m) ==
    /\ Within(lost + 1, drops, Work) /\ lost' = lost + 1
    /\ Consume(m, {})
    /\ UNCHANGED <<node, connected, drops>>

\* The links go down, and what was under way on them is gone.
Cut(links) ==
    /\ Within(lost, drops + 1, Work) /\ drops' = drops + 1
    /\ connected' = connected \ links
    /\ network' = {m \in network : {m.from, m.to} \notin links}
    /\ UNCHANGED lost

Disconnect(link) == Cut({link}) /\ UNCHANGED node

\* A process dies and starts again from its file. The pool is gone.
Restart(n) ==
    /\ Cut({l \in connected : n \in l})
    /\ public_keys' = [public_keys EXCEPT ![n] = StartKeys(n, authorities[n], @)]
    /\ mempool' = [mempool EXCEPT ![n] = {}]
    /\ UNCHANGED <<blocks, authorities>>

Handle == \E m \in network : Deliver(m)

Next ==
    \/ \E n \in Nodes : \E t \in Clients[n] : Submit(n, t)
    \/ \E n \in Nodes : Seal(n)
    \/ Handle
    \/ \E n, m \in Nodes : Connect(n, m)
    \/ \E m \in network : Lose(m)
    \/ \E link \in connected : Disconnect(link)
    \/ \E n \in Nodes : Restart(n)

Spec == Init /\ [][Next]_vars

\* The swarm loop takes every event, and an authority's block-time loop keeps
\* sealing what is pending. A link that went down may stay down for ever: a node
\* dials a peer when mDNS first reports it, and a close does not undo that.
FairSpec ==
    /\ Spec
    /\ WF_vars(Handle)
    /\ \A n \in Nodes : WF_vars(Seal(n))

-----------------------------------------------------------------------------
(***************************************************************************)
(* Properties.                                                             *)
(***************************************************************************)

\* Relays on a cyclic network end: the traffic of any finite work dies out.
EchoEnds == <>[](network = {})

\* All blocks are one author's.
OneAuthor ==
    \E a \in Nodes : \A n \in Nodes : \A i \in 2 .. Len(blocks[n]) : blocks[n][i].author = a

\* As long as one node alone has sealed, whatever links drop and nodes restart,
\* but with no message lost on a link that stays up, nodes that stay connected
\* end up with the same chain.
Converges ==
    [](lost = 0 /\ OneAuthor) =>
        <>[](\A link \in connected : \A n, m \in link : blocks[n] = blocks[m])

\* Two validators may seal on the same parent. Their branches are not merged,
\* but with no message lost none of two connected nodes stays more than one
\* block behind the other.
NeverFarApart ==
    [](lost = 0) =>
        <>[](\A link \in connected : \A n, m \in link : Len(blocks[n]) <= Len(blocks[m]) + 1)
=============================================================================
