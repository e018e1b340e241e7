---------------------------- MODULE SealerProofs ----------------------------
(***************************************************************************)
(* The network with one sealer implements the replicated log, for any      *)
(* number of nodes, any links, and any number of losses and restarts.      *)
(***************************************************************************)
EXTENDS OneSealer, FiniteSetTheorems, TLAPS

\* What a chain of the network may be: a piece of the leader's, from the start.
Piece(log, chain) ==
    Len(chain) \in 1 .. Len(log) /\ chain = SubSeq(log, 1, Len(chain))

NodesOK ==
    /\ blocks \in [Nodes -> Seq(Block)]
    /\ authorities = [n \in Nodes |-> {Leader}]
    /\ mempool \in [Nodes -> SUBSET Txs]
    /\ \A n \in Nodes : IsFiniteSet(mempool[n])

ChainsOK == \A n \in Nodes : Piece(blocks[Leader], blocks[n])

MessageOK(log, m) ==
    /\ m.from \in Nodes /\ m.to \in Nodes
    /\ m.type = "NewBlock" => Piece(log, m.chain)
    /\ m.type = "Chain" =>
         Piece(log, m.snapshot.blocks) /\ m.snapshot.authorities = {Leader}

MessagesOK == \A m \in network : MessageOK(blocks[Leader], m)

LogInv == NodesOK /\ ChainsOK /\ MessagesOK

LEMMA GenesisBlock == \A n \in Nodes : GenesisOf(n) \in Block /\ GenesisOf(n) = GenesisOf(Leader)
<1> SUFFICES ASSUME NEW n \in Nodes
             PROVE  GenesisOf(n) \in Block /\ GenesisOf(n) = GenesisOf(Leader)
  OBVIOUS
<1>1. Founder[n] \in Accounts /\ Founder[n] = Founder[Leader]
  BY NodeAssumption, OneSealerAssumption
<1>2. GenesisOf(n) = [author |-> Founder[n], key |-> NoKey, txs |-> <<>>]
  BY DEF GenesisOf, Genesis
<1>3. GenesisOf(Leader) = [author |-> Founder[Leader], key |-> NoKey, txs |-> <<>>]
  BY DEF GenesisOf, Genesis
<1>4. GenesisOf(n) \in Block
  BY <1>1, <1>2 DEF Block
<1> QED  BY <1>1, <1>2, <1>3, <1>4

LEMMA InitLog == Init => LogInv /\ Log!LogInit
<1> SUFFICES ASSUME Init PROVE LogInv /\ Log!LogInit
  OBVIOUS
<1>1. blocks = [n \in Nodes |-> <<GenesisOf(Leader)>>]
  BY GenesisBlock DEF Init
<1>2. GenesisOf(Leader) \in Block /\ Leader \in Nodes
  BY GenesisBlock, OneSealerAssumption
<1> HIDE DEF GenesisOf
<1>3. NodesOK
  BY <1>1, <1>2, NodeAssumption, OneSealerAssumption, FS_EmptySet DEF Init, NodesOK
<1>4. ChainsOK
  BY <1>1, <1>2 DEF ChainsOK, Piece
<1>5. MessagesOK
  BY DEF Init, MessagesOK
<1> QED  BY <1>1, <1>3, <1>4, <1>5 DEF LogInv, Log!LogInit

\* Pieces stay pieces while the leader's chain grows.
LEMMA PieceGrows ==
    ASSUME NEW log \in Seq(Block), NEW b, NEW chain, Piece(log, chain)
    PROVE  Piece(Append(log, b), chain)
<1>1. Len(Append(log, b)) = Len(log) + 1
  OBVIOUS
<1> QED  BY <1>1 DEF Piece

LEMMA LeaderType == LogInv => Leader \in Nodes /\ blocks[Leader] \in Seq(Block)
BY OneSealerAssumption DEF LogInv, NodesOK

\* A step of the nodes that leaves the leader's chain alone keeps all messages
\* right, and the new ones are right if they carry pieces of it.
LEMMA MessagesKept ==
    ASSUME LogInv, blocks'[Leader] = blocks[Leader],
           \A m \in network' : m \in network \/ MessageOK(blocks[Leader], m)
    PROVE  MessagesOK'
BY DEF LogInv, MessagesOK, MessageOK, Piece

\* A node that takes a longer piece learns more of the log.
LEMMA TakePiece ==
    ASSUME LogInv, NEW n \in Nodes, NEW chain, NEW keys,
           Piece(blocks[Leader], chain), Len(chain) > Len(blocks[n]),
           Replace(n, chain, keys, {Leader})
    PROVE  /\ NodesOK' /\ ChainsOK' /\ blocks'[Leader] = blocks[Leader]
           /\ Log!LogNext
<1>0. Leader \in Nodes /\ blocks[Leader] \in Seq(Block) /\ Len(blocks[Leader]) \in Nat
  BY LeaderType
<1>1. n # Leader /\ Len(chain) \in 1 .. Len(blocks[Leader])
  BY <1>0 DEF Piece
<1>2. /\ blocks' = [blocks EXCEPT ![n] = chain]
      /\ authorities' = [authorities EXCEPT ![n] = {Leader}]
      /\ \E T : T \subseteq mempool[n] /\ mempool' = [mempool EXCEPT ![n] = T]
  BY DEF Replace, Requeued
<1>3. chain \in Seq(Block)
  BY <1>0, <1>1 DEF Piece
<1>4. blocks'[Leader] = blocks[Leader]
  BY <1>0, <1>1, <1>2 DEF LogInv, NodesOK
<1>5. NodesOK'
  <2>1. blocks' \in [Nodes -> Seq(Block)] /\ authorities' = [i \in Nodes |-> {Leader}]
    BY <1>2, <1>3 DEF LogInv, NodesOK
  <2>2. PICK T : T \subseteq mempool[n] /\ mempool' = [mempool EXCEPT ![n] = T]
    BY <1>2
  <2>3. IsFiniteSet(T) /\ T \subseteq Txs
    BY <2>2, FS_Subset DEF LogInv, NodesOK
  <2> QED  BY <2>1, <2>2, <2>3 DEF LogInv, NodesOK
<1>6. ChainsOK'
  BY <1>2, <1>4 DEF LogInv, NodesOK, ChainsOK, Piece
<1>7. Log!Learn(n, Len(chain))
  BY <1>2 DEF Piece, Log!Learn
<1>8. Len(chain) \in DOMAIN blocks[Leader]
  BY <1>0, <1>1
<1> QED  BY <1>1, <1>4, <1>5, <1>6, <1>7, <1>8 DEF Log!LogNext

\* The relays of a node carry what it has just taken.
LEMMA RelayOK ==
    ASSUME NEW n \in Nodes, NEW source, NEW chain, NEW keys,
           NEW log, Piece(log, chain)
    PROVE  \A m \in Relay(n, source, chain, keys) : MessageOK(log, m)
<1> SUFFICES ASSUME NEW peer \in Peers(n) \ {source}
             PROVE  MessageOK(log, NewBlock(n, peer, chain, keys))
  BY DEF Relay
<1>1. peer \in Nodes
  BY DEF Peers
<1> QED  BY <1>1 DEF NewBlock, MessageOK

-----------------------------------------------------------------------------
\* Only the sealer appends: a valid block, to its own chain.
LEMMA Sealed ==
    ASSUME LogInv, NEW n \in Nodes, Seal(n)
    PROVE  /\ n = Leader
           /\ \E b \in Block :
                /\ BlockValid({Leader}, public_keys[n], Ids(blocks[n]), State(n), b)
                /\ Replace(n, Append(blocks[n], b), public_keys[n], {Leader})
                /\ \/ network' = network
                   \/ network' = network \cup Relay(n, n, Append(blocks[n], b), public_keys[n])
<1> DEFINE b(batch) == [author |-> n, key |-> SealKey[n], txs |-> batch]
           grown(batch) == Append(blocks[n], b(batch))
<1>0. authorities[n] = {Leader}
  BY DEF LogInv, NodesOK
<1>1. PICK batch \in Drained(mempool[n]) :
        /\ BlockValid({Leader}, public_keys[n], Ids(blocks[n]), State(n), b(batch))
        /\ Replace(n, grown(batch), public_keys[n], {Leader})
        /\ network' = network \/ network' = network \cup Relay(n, n, grown(batch), public_keys[n])
  BY <1>0 DEF Seal
<1>2. n = Leader
  BY <1>1 DEF BlockValid, SealedBy
<1>3. b(batch) \in Block
  <2>1. mempool[n] \subseteq Txs /\ Cardinality(mempool[n]) \in Nat
    BY FS_CardinalityType DEF LogInv, NodesOK
  <2>2. batch \in Seq(Txs)
    BY <2>1 DEF Drained
  <2>3. n \in Accounts /\ SealKey[n] \in Keys
    BY NodeAssumption
  <2> QED  BY <2>2, <2>3 DEF Block
<1> HIDE DEF b
<1> QED  BY <1>1, <1>2, <1>3

LEMMA SealStep ==
    ASSUME LogInv, NEW n \in Nodes, Seal(n)
    PROVE  LogInv' /\ Log!LogNext
<1>0. Leader \in Nodes /\ blocks[Leader] \in Seq(Block) /\ Len(blocks[Leader]) \in Nat
  BY LeaderType
<1>2. n = Leader
  BY Sealed
<1>1. PICK b \in Block :
        /\ Replace(n, Append(blocks[n], b), public_keys[n], {Leader})
        /\ \/ network' = network
           \/ network' = network \cup Relay(n, n, Append(blocks[n], b), public_keys[n])
  BY Sealed
<1> DEFINE chain == Append(blocks[n], b)
<1>4. /\ chain \in Seq(Block) /\ Len(chain) = Len(blocks[Leader]) + 1
      /\ SubSeq(chain, 1, Len(blocks[Leader])) = blocks[Leader]
      /\ chain[Len(chain)] = b
  BY <1>0, <1>2
<1>5. /\ blocks' = [blocks EXCEPT ![Leader] = chain]
      /\ authorities' = [authorities EXCEPT ![Leader] = {Leader}]
      /\ \E T : T \subseteq mempool[n] /\ mempool' = [mempool EXCEPT ![n] = T]
  BY <1>1, <1>2 DEF Replace, Requeued
<1>6. blocks'[Leader] = chain
  BY <1>0, <1>5 DEF LogInv, NodesOK
<1>7. NodesOK'
  <2>1. blocks' \in [Nodes -> Seq(Block)] /\ authorities' = [i \in Nodes |-> {Leader}]
    BY <1>0, <1>4, <1>5 DEF LogInv, NodesOK
  <2>2. PICK T : T \subseteq mempool[n] /\ mempool' = [mempool EXCEPT ![n] = T]
    BY <1>5
  <2>3. IsFiniteSet(T) /\ T \subseteq Txs
    BY <2>2, FS_Subset DEF LogInv, NodesOK
  <2> QED  BY <2>1, <2>2, <2>3 DEF LogInv, NodesOK
<1> DEFINE log == blocks[Leader]
<1>8. \A c : Piece(log, c) => Piece(chain, c)
  BY <1>0, <1>2, PieceGrows
<1>9. Piece(chain, chain)
  BY <1>0, <1>4 DEF Piece
<1>10. ChainsOK'
  <2> SUFFICES ASSUME NEW i \in Nodes PROVE Piece(chain, blocks'[i])
    BY <1>6 DEF ChainsOK
  <2>1. CASE i = Leader
    BY <1>6, <1>9, <2>1
  <2>2. CASE i # Leader
    <3>1. blocks'[i] = blocks[i]
      BY <1>5, <2>2 DEF LogInv, NodesOK
    <3>2. Piece(log, blocks[i])
      BY DEF LogInv, ChainsOK
    <3> QED  BY <1>8, <3>1, <3>2
  <2> QED  BY <2>1, <2>2
<1>11. MessagesOK'
  <2> SUFFICES ASSUME NEW m \in network' PROVE MessageOK(chain, m)
    BY <1>6 DEF MessagesOK
  <2>1. CASE m \in network
    BY <1>8, <2>1 DEF LogInv, MessagesOK, MessageOK
  <2>2. CASE m \in Relay(n, n, chain, public_keys[n])
    BY <1>9, <2>2, RelayOK
  <2> QED  BY <1>1, <2>1, <2>2
<1>12. Log!Write
  BY <1>4, <1>5, <1>6 DEF Log!Write
<1> QED  BY <1>7, <1>10, <1>11, <1>12 DEF LogInv, Log!LogNext

LEMMA DeliverStep ==
    ASSUME LogInv, NEW m \in network, Deliver(m)
    PROVE  LogInv' /\ (Log!LogNext \/ UNCHANGED blocks)
<1>0. /\ Leader \in Nodes /\ MessageOK(blocks[Leader], m) /\ m.to \in Nodes /\ m.from \in Nodes
      /\ blocks \in [Nodes -> Seq(Block)] /\ authorities = [n \in Nodes |-> {Leader}]
  BY LeaderType DEF LogInv, MessagesOK, MessageOK, NodesOK
<1>1. ASSUME UNCHANGED node,
             \A a \in network' : a \in network \/ MessageOK(blocks[Leader], a)
      PROVE  LogInv' /\ UNCHANGED blocks
  <2>1. NodesOK' /\ ChainsOK' /\ blocks'[Leader] = blocks[Leader]
    BY <1>1 DEF node, LogInv, NodesOK, ChainsOK, Piece
  <2>2. MessagesOK'
    BY <1>1, <2>1, MessagesKept
  <2> QED  BY <1>1, <2>1, <2>2 DEF LogInv, node
<1>2. CASE AnswerGetChain(m)
  <2> DEFINE answer == ChainMessage(m.to, m.from, SnapshotOf(m.to))
  <2>1. UNCHANGED node /\ network' = (network \ {m}) \cup {answer}
    BY <1>2 DEF AnswerGetChain, Consume
  <2>2. MessageOK(blocks[Leader], answer)
    BY <1>0 DEF ChainMessage, SnapshotOf, MessageOK, LogInv, ChainsOK
  <2> QED  BY <1>1, <2>1, <2>2
<1>3. CASE IgnoreKnown(m) \/ RejectBlock(m) \/ KeepChain(m)
  BY <1>1, <1>3 DEF IgnoreKnown, RejectBlock, KeepChain, Consume
<1>4. CASE AskForChain(m)
  <2>1. MessageOK(blocks[Leader], GetChain(m.to, m.from))
    BY <1>0 DEF GetChain, MessageOK
  <2> QED  BY <1>1, <1>4, <2>1 DEF AskForChain, Consume
<1>5. CASE AppendBlock(m)
  <2>1. PICK keys :
          /\ Len(m.chain) = Len(blocks[m.to]) + 1
          /\ Replace(m.to, m.chain, keys, authorities[m.to])
          /\ network' = (network \ {m}) \cup Relay(m.to, m.from, m.chain, keys)
    BY <1>5 DEF AppendBlock, Appendable, Consume
  <2>2. Piece(blocks[Leader], m.chain)
    BY <1>0, <1>5 DEF AppendBlock, MessageOK
  <2>3. Len(m.chain) > Len(blocks[m.to])
    BY <1>0, <2>1
  <2>4. NodesOK' /\ ChainsOK' /\ blocks'[Leader] = blocks[Leader] /\ Log!LogNext
    BY <1>0, <2>1, <2>2, <2>3, TakePiece
  <2>5. MessagesOK'
    BY <1>0, <2>1, <2>2, <2>4, RelayOK, MessagesKept
  <2> QED  BY <2>4, <2>5 DEF LogInv
<1>6. CASE AdoptChain(m)
  <2> DEFINE s == m.snapshot
  <2>1. PICK keys :
          /\ Len(s.blocks) > Len(blocks[m.to])
          /\ Replace(m.to, s.blocks, keys,
                     MergeAuthorities(authorities[m.to], keys, s.authorities))
          /\ network' = (network \ {m}) \cup Relay(m.to, m.from, s.blocks, keys)
    BY <1>6 DEF AdoptChain, Adoptable, Consume
  <2>2. Piece(blocks[Leader], s.blocks) /\ s.authorities = {Leader}
    BY <1>0, <1>6 DEF AdoptChain, MessageOK
  <2>3. MergeAuthorities(authorities[m.to], keys, s.authorities) = {Leader}
    BY <1>0, <2>2 DEF MergeAuthorities
  <2>4. NodesOK' /\ ChainsOK' /\ blocks'[Leader] = blocks[Leader] /\ Log!LogNext
    BY <1>0, <2>1, <2>2, <2>3, TakePiece
  <2>5. MessagesOK'
    BY <1>0, <2>1, <2>2, <2>4, RelayOK, MessagesKept
  <2> QED  BY <2>4, <2>5 DEF LogInv
<1> QED  BY <1>2, <1>3, <1>4, <1>5, <1>6 DEF Deliver

LEMMA LogStep == LogInv /\ [Next]_vars => LogInv' /\ [Log!LogNext]_blocks
<1> SUFFICES ASSUME LogInv, [Next]_vars PROVE LogInv' /\ [Log!LogNext]_blocks
  OBVIOUS
<1>1. ASSUME UNCHANGED blocks, NodesOK',
             \A m \in network' : m \in network \/ MessageOK(blocks[Leader], m)
      PROVE  LogInv' /\ [Log!LogNext]_blocks
  <2>1. ChainsOK'
    BY <1>1 DEF LogInv, ChainsOK, Piece
  <2>2. MessagesOK'
    BY <1>1, MessagesKept
  <2> QED  BY <1>1, <2>1, <2>2 DEF LogInv
<1>2. ASSUME UNCHANGED node PROVE NodesOK'
  BY <1>2 DEF node, LogInv, NodesOK
<1>3. ASSUME NEW n \in Nodes, NEW t \in Clients[n], Submit(n, t)
      PROVE  LogInv' /\ [Log!LogNext]_blocks
  <2>1. t \in Txs
    BY NodeAssumption
  <2>2. /\ mempool' = [mempool EXCEPT ![n] = mempool[n] \cup {t}]
        /\ UNCHANGED <<blocks, authorities, network>>
    BY <1>3 DEF Submit
  <2>3. IsFiniteSet(mempool[n] \cup {t})
    BY FS_AddElement DEF LogInv, NodesOK
  <2>4. NodesOK'
    BY <2>1, <2>2, <2>3 DEF LogInv, NodesOK
  <2> QED  BY <1>1, <2>2, <2>4
<1>4. ASSUME NEW n \in Nodes, Seal(n) PROVE LogInv' /\ [Log!LogNext]_blocks
  BY <1>4, SealStep
<1>5. ASSUME NEW m \in network, Deliver(m) PROVE LogInv' /\ [Log!LogNext]_blocks
  BY <1>5, DeliverStep
<1>6. ASSUME NEW n \in Nodes, NEW m \in Nodes, Connect(n, m)
      PROVE  LogInv' /\ [Log!LogNext]_blocks
  <2>1. MessageOK(blocks[Leader], GetChain(n, m)) /\ MessageOK(blocks[Leader], GetChain(m, n))
    BY DEF GetChain, MessageOK
  <2>2. UNCHANGED node /\ network' = network \cup {GetChain(n, m), GetChain(m, n)}
    BY <1>6 DEF Connect
  <2> QED  BY <1>1, <1>2, <2>1, <2>2 DEF node
<1>7. ASSUME NEW m \in network, Lose(m) PROVE LogInv' /\ [Log!LogNext]_blocks
  BY <1>1, <1>2, <1>7 DEF Lose, Consume, node
<1>8. ASSUME NEW link \in connected, Disconnect(link) PROVE LogInv' /\ [Log!LogNext]_blocks
  BY <1>1, <1>2, <1>8 DEF Disconnect, Cut, node
<1>9. ASSUME NEW n \in Nodes, Restart(n) PROVE LogInv' /\ [Log!LogNext]_blocks
  <2>1. UNCHANGED <<blocks, authorities>> /\ mempool' = [mempool EXCEPT ![n] = {}]
    BY <1>9 DEF Restart
  <2>2. NodesOK'
    BY <2>1, FS_EmptySet DEF LogInv, NodesOK
  <2>3. \A m \in network' : m \in network
    BY <1>9 DEF Restart, Cut
  <2> QED  BY <1>1, <2>1, <2>2, <2>3
<1>10. CASE UNCHANGED vars
  BY <1>1, <1>2, <1>10 DEF vars, node
<1> QED
  BY <1>3, <1>4, <1>5, <1>6, <1>7, <1>8, <1>9, <1>10 DEF Next, Handle

\* Every node always holds a growing prefix of the one chain the sealer writes,
\* for any number of nodes and links, any transactions, losses and restarts.
THEOREM NetworkIsOneLog == Spec => IsOneLog
<1>1. Init => LogInv /\ Log!LogInit
  BY InitLog
<1>2. LogInv /\ [Next]_vars => LogInv' /\ [Log!LogNext]_blocks
  BY LogStep
<1> QED  BY <1>1, <1>2, PTL DEF Spec, IsOneLog, Log!LogSpec
=============================================================================
