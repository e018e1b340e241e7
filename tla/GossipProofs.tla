---------------------------- MODULE GossipProofs ----------------------------
(***************************************************************************)
(* The network with both protocols and one sealer still implements the     *)
(* replicated log: whatever the gossip of transactions loses, delays or    *)
(* repeats, it changes no chain.  Its requests bring transactions into     *)
(* pools and its receipts bring chain requests into the network; the       *)
(* steps of Sync among its own keep LogInv by the lemmas of SealerProofs.  *)
(***************************************************************************)
EXTENDS Gossip, SealerProofs, BlockchainProofs

\* A request or response between two nodes about a transaction somebody signed.
PacketOK(r) ==
    /\ {"type", "asker", "peer", "tx", "awaited"} \subseteq DOMAIN r
    /\ r.type = "Request" => {"genesis", "key"} \subseteq DOMAIN r
    /\ r.type = "Response" => "answer" \in DOMAIN r
    /\ r.asker \in Nodes /\ r.peer \in Nodes /\ r.tx \in Txs /\ r.awaited \in BOOLEAN
    /\ r = [field \in DOMAIN r |-> r[field]]

PacketsOK == \A r \in gossip : PacketOK(r)

\* A receipt, a delay or a question names the nodes it is about.
DeadlinesOK ==
    /\ known \cup retry_after \subseteq Nodes \X Nodes \X Txs
    /\ chain_sync_after \subseteq Nodes \X Nodes

GossipInv == LogInv /\ PacketsOK /\ DeadlinesOK

\* A message once the nodes N have looked.
Checked(N, q) == [q EXCEPT !.awaited = @ /\ StillOpen(N, <<q.asker, q.peer, q.tx>>)]

\* Whatever n has pending from the same sender before t, m has acknowledged.
InLine(n, m, t) ==
    /\ t \in mempool'[n]
    /\ \A u \in QueuedBy(mempool'[n], t.sender) : u.nonce < t.nonce => <<n, m, u>> \in known'

LEMMA OfferedInLine ==
    ASSUME NodesOK', NEW n \in Nodes, NEW m, NEW msgs, NEW deferred,
           NEW t \in Offered(n, m, msgs, known', deferred)
    PROVE  InLine(n, m, t)
<1> DEFINE flying == InFlight(n, m, msgs)
           open   == {u \in mempool'[n] : /\ <<n, m, u>> \notin known'
                                          /\ \A r \in flying : r.tx.sender # u.sender}
<1>1. t \in FirstOfEach(open)
  BY DEF Offered, WithinSlots
<1>2. t \in open /\ \A u \in QueuedBy(open, t.sender) : t.nonce <= u.nonce
  BY <1>1 DEF FirstOfEach
<1>3. t \in mempool'[n] /\ \A r \in flying : r.tx.sender # t.sender
  BY <1>2
<1>4. ASSUME NEW u \in QueuedBy(mempool'[n], t.sender), u.nonce < t.nonce
      PROVE  <<n, m, u>> \in known'
  <2>1. u \in mempool'[n] /\ u.sender = t.sender
    BY DEF QueuedBy
  <2>2. u.nonce \in Nat /\ t.nonce \in Nat
    BY <1>3, <2>1, TxFields DEF NodesOK
  <2>3. u \notin QueuedBy(open, t.sender)
    BY <1>2, <1>4, <2>2
  <2>4. u \notin open
    BY <2>1, <2>3 DEF QueuedBy
  <2> QED  BY <1>3, <2>1, <2>4
<1> QED  BY <1>3, <1>4 DEF InLine

\* After drive, what is under way was under way, and perhaps is no longer
\* awaited, or is a request for the next transaction in line.
LEMMA DriveMessages ==
    ASSUME NodesOK', NEW N \in SUBSET Nodes,
           NEW msgs, NEW receipts, NEW deferred, NEW asked,
           Drive(N, msgs, receipts, deferred, asked), NEW r \in gossip'
    PROVE  \/ \E q \in msgs : r = Checked(N, q) /\ (r.type = "Response" => r.awaited)
           \/ \E n \in N, m \in Nodes : \E t : InLine(n, m, t) /\ r = Request(n, m, t)
<1> DEFINE checked == {[q EXCEPT !.awaited = @ /\ StillOpen(N, <<q.asker, q.peer, q.tx>>)] :
                          q \in msgs}
           kept == Heeded(checked)
           sent(n, m) == {Request(n, m, t) : t \in Offered(n, m, kept, known', retry_after')}
<1>1. gossip' = kept \cup UNION {sent(e[1], e[2]) : e \in Talking(N)}
  BY DEF Drive
<1>2. \A q \in kept : q \in checked /\ (q.type = "Response" => q.awaited)
  BY DEF Heeded
<1>3. CASE r \in kept
  BY <1>2, <1>3 DEF Checked
<1>4. CASE r \notin kept
  <2> HIDE DEF kept, sent
  <2>1. PICK e \in Talking(N) : r \in sent(e[1], e[2])
    BY <1>1, <1>4
  <2>2. e[1] \in N /\ e[2] \in Nodes
    BY DEF Talking
  <2>3. PICK t \in Offered(e[1], e[2], kept, known', retry_after') : r = Request(e[1], e[2], t)
    BY <2>1 DEF sent
  <2>4. InLine(e[1], e[2], t)
    BY <2>2, OfferedInLine
  <2> QED  BY <2>2, <2>3, <2>4
<1> QED  BY <1>3, <1>4

\* Of the answers, drive keeps those that are awaited, as they are.
LEMMA DriveAnswers ==
    ASSUME NodesOK', NEW N \in SUBSET Nodes, NEW msgs, \A q \in msgs : PacketOK(q),
           NEW receipts, NEW deferred, NEW asked,
           Drive(N, msgs, receipts, deferred, asked),
           NEW r \in gossip', r.type = "Response"
    PROVE  r \in msgs /\ r.awaited
<1>1. CASE \E n \in N, m \in Nodes : \E t : InLine(n, m, t) /\ r = Request(n, m, t)
  BY <1>1 DEF Request
<1>2. CASE \E q \in msgs : r = Checked(N, q) /\ (r.type = "Response" => r.awaited)
  <2>1. PICK q \in msgs : r = Checked(N, q) /\ r.awaited
    BY <1>2
  <2>2. /\ "awaited" \in DOMAIN q /\ q.awaited \in BOOLEAN
        /\ q = [field \in DOMAIN q |-> q[field]]
    BY DEF PacketOK
  <2>3. r = [q EXCEPT !.awaited = q.awaited /\ StillOpen(N, <<q.asker, q.peer, q.tx>>)]
    BY <2>1 DEF Checked
  <2>4. q.awaited = TRUE /\ r = [q EXCEPT !.awaited = TRUE]
    BY <2>1, <2>2, <2>3
  <2>5. r = q
    BY <2>2, <2>4
  <2> QED  BY <2>1, <2>5
<1> QED  BY <1>1, <1>2, DriveMessages

\* drive sends only what is pending, and only to the nodes it may talk to.
LEMMA DriveOK ==
    ASSUME NodesOK', NEW N \in SUBSET Nodes,
           NEW msgs, \A r \in msgs : PacketOK(r),
           NEW receipts \in SUBSET (Nodes \X Nodes \X Txs),
           NEW deferred \in SUBSET (Nodes \X Nodes \X Txs),
           NEW asked \in SUBSET (Nodes \X Nodes),
           Drive(N, msgs, receipts, deferred, asked)
    PROVE  PacketsOK' /\ DeadlinesOK'
<1>1. known' \subseteq receipts /\ retry_after' \subseteq deferred /\ chain_sync_after' \subseteq asked
  BY DEF Drive
<1>2. DeadlinesOK'
  BY <1>1 DEF DeadlinesOK
<1>3. \A q \in msgs : PacketOK(Checked(N, q))
  BY DEF PacketOK, Checked
<1>4. ASSUME NEW n \in N, NEW m \in Nodes, NEW t, InLine(n, m, t)
      PROVE  PacketOK(Request(n, m, t))
  <2>1. t \in Txs
    BY <1>4 DEF NodesOK, InLine
  <2>2. DOMAIN Request(n, m, t) = {"type", "asker", "peer", "tx", "awaited", "genesis", "key"}
    BY DEF Request
  <2>3. /\ Request(n, m, t).asker = n /\ Request(n, m, t).peer = m /\ Request(n, m, t).tx = t
        /\ Request(n, m, t).type = "Request" /\ Request(n, m, t).awaited = TRUE
    BY DEF Request
  <2> DEFINE r == Request(n, m, t)
  <2>4. r = [field \in DOMAIN r |-> r[field]]
    BY DEF Request
  <2> QED  BY <2>1, <2>2, <2>3, <2>4 DEF PacketOK
<1>5. ASSUME NEW r \in gossip' PROVE PacketOK(r)
  <2>1. CASE \E q \in msgs : r = Checked(N, q)
    BY <1>3, <2>1
  <2>2. CASE \E n \in N, m \in Nodes : \E t : InLine(n, m, t) /\ r = Request(n, m, t)
    BY <1>4, <2>2
  <2> QED  BY <2>1, <2>2, DriveMessages
<1> QED  BY <1>2, <1>5 DEF PacketsOK

LEMMA AnswerOK ==
    ASSUME NEW r, PacketOK(r), NEW answer
    PROVE  PacketOK(Response(r, answer))
<1>1. DOMAIN Response(r, answer) = {"type", "asker", "peer", "tx", "awaited", "answer"}
  BY DEF Response
<1>2. /\ Response(r, answer).asker = r.asker /\ Response(r, answer).peer = r.peer
      /\ Response(r, answer).tx = r.tx /\ Response(r, answer).awaited = r.awaited
      /\ Response(r, answer).type = "Response"
  BY DEF Response
<1> DEFINE q == Response(r, answer)
<1>3. q = [field \in DOMAIN q |-> q[field]]
  BY DEF Response
<1> QED  BY <1>1, <1>2, <1>3 DEF PacketOK

\* A step of the nodes and the links that leaves every chain alone.
LEMMA ChainsUntouched ==
    ASSUME LogInv, UNCHANGED blocks, NodesOK',
           \A m \in network' : m \in network \/ MessageOK(blocks[Leader], m)
    PROVE  LogInv' /\ [Log!LogNext]_blocks
<1>1. ChainsOK'
  BY DEF LogInv, ChainsOK, Piece
<1>2. MessagesOK'
  BY MessagesKept
<1> QED  BY <1>1, <1>2 DEF LogInv

LEMMA NodesUntouched == LogInv /\ UNCHANGED node => NodesOK'
BY DEF node, LogInv, NodesOK

\* drive after any step that keeps the log: what is under way stays in order.
LEMMA DriveKeeps ==
    ASSUME GossipInv, LogInv', NEW N \in SUBSET Nodes, NEW msgs \in SUBSET gossip,
           Drive(N, msgs, known, retry_after, chain_sync_after)
    PROVE  GossipInv'
<1>1. NodesOK'
  BY DEF LogInv
<1>2. \A r \in msgs : PacketOK(r)
  BY DEF GossipInv, PacketsOK
<1>3. PacketsOK' /\ DeadlinesOK'
  BY <1>1, <1>2, DriveOK DEF GossipInv, DeadlinesOK
<1> QED  BY <1>3 DEF GossipInv

LEMMA RequestStep ==
    ASSUME GossipInv, NEW r \in gossip, ReceiveRequest(r)
    PROVE  GossipInv' /\ [Log!LogNext]_blocks
<1>0. PacketOK(r) /\ r.peer \in Nodes /\ r.asker \in Nodes /\ r.tx \in Txs /\ LogInv
  BY DEF GossipInv, PacketsOK, PacketOK
<1> DEFINE n == r.peer
           answer == Answer(n, r)
<1>1. mempool' = [mempool EXCEPT ![n] = mempool[n] \cup {r.tx}] \/ mempool' = mempool
  BY DEF ReceiveRequest
<1>2. NodesOK'
  <2>1. UNCHANGED <<blocks, authorities>>
    BY DEF ReceiveRequest
  <2>2. IsFiniteSet(mempool[n] \cup {r.tx})
    <3>1. IsFiniteSet(mempool[n])
      BY <1>0 DEF LogInv, NodesOK
    <3> QED  BY <3>1, FS_AddElement
  <2>3. /\ mempool' \in [Nodes -> SUBSET Txs]
        /\ \A m \in Nodes : IsFiniteSet(mempool'[m])
    <3>1. mempool \in [Nodes -> SUBSET Txs] /\ \A m \in Nodes : IsFiniteSet(mempool[m])
      BY <1>0 DEF LogInv, NodesOK
    <3>2. CASE mempool' = mempool
      BY <3>1, <3>2
    <3>3. CASE mempool' = [mempool EXCEPT ![n] = mempool[n] \cup {r.tx}]
      <4>1. mempool[n] \cup {r.tx} \in SUBSET Txs
        BY <1>0, <3>1
      <4> HIDE DEF n
      <4> QED  BY <1>0, <2>2, <3>1, <3>3, <4>1 DEF n
    <3> QED  BY <1>1, <3>2, <3>3
  <2> QED  BY <1>0, <2>1, <2>3 DEF LogInv, NodesOK
<1>3. LogInv' /\ [Log!LogNext]_blocks
  BY <1>0, <1>2, ChainsUntouched DEF ReceiveRequest
<1>4. Drive({n}, (gossip \ {r}) \cup {Response(r, answer)}, known, retry_after, chain_sync_after)
  BY DEF ReceiveRequest
<1>5. \A q \in (gossip \ {r}) \cup {Response(r, answer)} : PacketOK(q)
  BY <1>0, AnswerOK DEF GossipInv, PacketsOK
<1>6. PacketsOK' /\ DeadlinesOK'
  <2> HIDE DEF answer
  <2> QED  BY <1>0, <1>2, <1>4, <1>5, DriveOK DEF GossipInv, DeadlinesOK
<1> QED  BY <1>3, <1>6 DEF GossipInv

LEMMA ResponseStep ==
    ASSUME GossipInv, NEW r \in gossip, ReceiveResponse(r)
    PROVE  GossipInv' /\ [Log!LogNext]_blocks
<1>0. r.peer \in Nodes /\ r.asker \in Nodes /\ r.tx \in Txs /\ LogInv
  BY DEF GossipInv, PacketsOK, PacketOK
<1> DEFINE n == r.asker
           m == r.peer
           receipt == IF Acknowledges(r) THEN {<<n, m, r.tx>>} ELSE {}
           later   == IF r.awaited /\ ~ Acknowledges(r) THEN {<<n, m, r.tx>>} ELSE {}
           asked   == IF AsksAfter(r) THEN {<<n, m>>} ELSE {}
<1>1. /\ UNCHANGED node
      /\ network' = network \cup {GetChain(e[1], e[2]) : e \in asked}
      /\ Drive({n}, gossip \ {r}, known \cup receipt, retry_after \cup later,
               chain_sync_after \cup asked)
  BY DEF ReceiveResponse
<1>2. MessageOK(blocks[Leader], GetChain(n, m))
  BY <1>0 DEF GetChain, MessageOK
<1>3. \A e \in asked : e = <<n, m>>
  OBVIOUS
<1>4. \A a \in network' : a \in network \/ MessageOK(blocks[Leader], a)
  BY <1>1, <1>2, <1>3
<1>5. NodesOK'
  BY <1>0, <1>1, NodesUntouched
<1>6. UNCHANGED blocks
  BY <1>1 DEF node
<1>7. LogInv' /\ [Log!LogNext]_blocks
  BY <1>0, <1>4, <1>5, <1>6, ChainsUntouched
<1>8. /\ known \cup receipt \in SUBSET (Nodes \X Nodes \X Txs)
      /\ retry_after \cup later \in SUBSET (Nodes \X Nodes \X Txs)
      /\ chain_sync_after \cup asked \in SUBSET (Nodes \X Nodes)
  BY <1>0 DEF GossipInv, DeadlinesOK
<1>9. \A q \in gossip \ {r} : PacketOK(q)
  BY DEF GossipInv, PacketsOK
<1>10. PacketsOK' /\ DeadlinesOK'
  <2> HIDE DEF receipt, later, asked
  <2> QED  BY <1>0, <1>1, <1>5, <1>8, <1>9, DriveOK
<1> QED  BY <1>7, <1>10 DEF GossipInv

LEMMA FailStep ==
    ASSUME GossipInv, NEW r \in gossip, Fail(r)
    PROVE  GossipInv' /\ [Log!LogNext]_blocks
<1>0. PacketOK(r) /\ r.peer \in Nodes /\ r.asker \in Nodes /\ r.tx \in Txs /\ LogInv
  BY DEF GossipInv, PacketsOK, PacketOK
<1>1. UNCHANGED node /\ UNCHANGED network
  BY DEF Fail
<1>2. NodesOK'
  BY <1>0, <1>1, NodesUntouched
<1>3. LogInv' /\ [Log!LogNext]_blocks
  BY <1>0, <1>1, <1>2, ChainsUntouched DEF node
<1>4. PICK late \in {{}, {[r EXCEPT !.awaited = FALSE]}} :
         Drive({r.asker}, (gossip \ {r}) \cup late, known,
               retry_after \cup {<<r.asker, r.peer, r.tx>>}, chain_sync_after)
  BY DEF Fail
<1>5. \A q \in (gossip \ {r}) \cup late : PacketOK(q)
  <2>1. \A q \in gossip : PacketOK(q)
    BY DEF GossipInv, PacketsOK
  <2>2. PacketOK([r EXCEPT !.awaited = FALSE])
    BY <1>0 DEF PacketOK
  <2> QED  BY <2>1, <2>2
<1>6. /\ known \in SUBSET (Nodes \X Nodes \X Txs)
      /\ retry_after \cup {<<r.asker, r.peer, r.tx>>} \in SUBSET (Nodes \X Nodes \X Txs)
      /\ chain_sync_after \in SUBSET (Nodes \X Nodes)
  BY <1>0 DEF GossipInv, DeadlinesOK
<1>7. PacketsOK' /\ DeadlinesOK'
  BY <1>0, <1>2, <1>4, <1>5, <1>6, DriveOK
<1> QED  BY <1>3, <1>7 DEF GossipInv

\* The steps in which only a deadline or the timer strikes.
LEMMA QuietStep ==
    ASSUME GossipInv, UNCHANGED vars
    PROVE  LogInv' /\ [Log!LogNext]_blocks
BY LogStep DEF GossipInv

\* A step of Sync, followed by drive for some nodes.
LEMMA SyncStep ==
    ASSUME GossipInv, Next, NEW N \in SUBSET Nodes, NEW msgs \in SUBSET gossip,
           Drive(N, msgs, known, retry_after, chain_sync_after)
    PROVE  GossipInv' /\ [Log!LogNext]_blocks
<1>1. LogInv' /\ [Log!LogNext]_blocks
  BY LogStep DEF GossipInv
<1> QED  BY <1>1, DriveKeeps

LEMMA GossipStep == GossipInv /\ [GossipNext]_gossipVars => GossipInv' /\ [Log!LogNext]_blocks
<1> SUFFICES ASSUME GossipInv, [GossipNext]_gossipVars
             PROVE  GossipInv' /\ [Log!LogNext]_blocks
  OBVIOUS
<1>1. ASSUME NEW n \in Nodes, NEW t \in Clients[n], SubmitHere(n, t)
      PROVE  GossipInv' /\ [Log!LogNext]_blocks
  <2>1. LogInv' /\ [Log!LogNext]_blocks
    BY <1>1, LogStep DEF GossipInv, SubmitHere, Next
  <2>2. PacketsOK' /\ DeadlinesOK'
    BY <1>1 DEF SubmitHere, deadlines, GossipInv, PacketsOK, DeadlinesOK
  <2> QED  BY <2>1, <2>2 DEF GossipInv
<1>2. ASSUME NEW n \in Nodes, SealHere(n) PROVE GossipInv' /\ [Log!LogNext]_blocks
  BY <1>2, SyncStep DEF SealHere, DriveOnly, Next
<1>3. ASSUME NEW m \in network, ReceiveSync(m) PROVE GossipInv' /\ [Log!LogNext]_blocks
  <2>1. m.to \in Nodes
    BY DEF GossipInv, LogInv, MessagesOK, MessageOK
  <2> QED  BY <1>3, <2>1, SyncStep DEF ReceiveSync, DriveOnly, Next, Handle
<1>4. ASSUME NEW r \in gossip, ReceiveRequest(r) PROVE GossipInv' /\ [Log!LogNext]_blocks
  BY <1>4, RequestStep
<1>5. ASSUME NEW r \in gossip, ReceiveResponse(r) PROVE GossipInv' /\ [Log!LogNext]_blocks
  BY <1>5, ResponseStep
<1>6. ASSUME NEW r \in gossip, Fail(r) PROVE GossipInv' /\ [Log!LogNext]_blocks
  BY <1>6, FailStep
<1>7. ASSUME NEW k \in known \cup retry_after, Expire(k)
      PROVE  GossipInv' /\ [Log!LogNext]_blocks
  <2>1. LogInv' /\ [Log!LogNext]_blocks
    BY <1>7, QuietStep DEF Expire
  <2>2. k[1] \in Nodes
    BY DEF GossipInv, DeadlinesOK
  <2>3. Drive({k[1]}, gossip, known \ {k}, retry_after \ {k}, chain_sync_after)
    BY <1>7 DEF Expire
  <2>4. NodesOK' /\ \A r \in gossip : PacketOK(r)
    BY <2>1 DEF LogInv, GossipInv, PacketsOK
  <2>5. PacketsOK' /\ DeadlinesOK'
    BY <2>2, <2>3, <2>4, DriveOK DEF GossipInv, DeadlinesOK
  <2> QED  BY <2>1, <2>5 DEF GossipInv
<1>8. ASSUME NEW a \in chain_sync_after, MayAskAgain(a)
      PROVE  GossipInv' /\ [Log!LogNext]_blocks
  <2>1. LogInv' /\ [Log!LogNext]_blocks
    BY <1>8, QuietStep DEF MayAskAgain
  <2>2. PacketsOK' /\ DeadlinesOK'
    BY <1>8 DEF MayAskAgain, GossipInv, PacketsOK, DeadlinesOK
  <2> QED  BY <2>1, <2>2 DEF GossipInv
<1>9. ASSUME NEW n \in Nodes, Tick(n) PROVE GossipInv' /\ [Log!LogNext]_blocks
  <2>1. LogInv' /\ [Log!LogNext]_blocks
    BY <1>9, QuietStep DEF Tick
  <2> QED  BY <1>9, <2>1, DriveKeeps DEF Tick, DriveOnly
<1>10. ASSUME NEW n \in Nodes, NEW m \in Nodes, Established(n, m)
       PROVE  GossipInv' /\ [Log!LogNext]_blocks
  BY <1>10, SyncStep DEF Established, DriveOnly, Next
<1>11. ASSUME NEW m \in network, SyncFailure(m) PROVE GossipInv' /\ [Log!LogNext]_blocks
  <2>1. m.to \in Nodes /\ m.from \in Nodes
    BY DEF GossipInv, LogInv, MessagesOK, MessageOK
  <2> QED  BY <1>11, <2>1, SyncStep DEF SyncFailure, DriveOnly, Next
<1>12. ASSUME NEW link \in connected, Closed(link) PROVE GossipInv' /\ [Log!LogNext]_blocks
  BY <1>12, SyncStep DEF Closed, DriveAfterCut, Next
<1>13. ASSUME NEW n \in Nodes, RestartHere(n) PROVE GossipInv' /\ [Log!LogNext]_blocks
  BY <1>13, SyncStep DEF RestartHere, DriveAfterCut, Next
<1>14. CASE UNCHANGED gossipVars
  <2>1. LogInv' /\ [Log!LogNext]_blocks
    BY <1>14, QuietStep DEF gossipVars
  <2>2. PacketsOK' /\ DeadlinesOK'
    BY <1>14 DEF gossipVars, deadlines, GossipInv, PacketsOK, DeadlinesOK
  <2> QED  BY <2>1, <2>2 DEF GossipInv
<1> QED
  BY <1>1, <1>2, <1>3, <1>4, <1>5, <1>6, <1>7, <1>8, <1>9, <1>10, <1>11, <1>12, <1>13, <1>14
  DEF GossipNext

LEMMA GossipBegins == GossipInit => GossipInv /\ Log!LogInit
<1> SUFFICES ASSUME GossipInit PROVE GossipInv /\ Log!LogInit
  OBVIOUS
<1>1. LogInv /\ Log!LogInit
  BY InitLog DEF GossipInit
<1>2. PacketsOK /\ DeadlinesOK
  BY DEF GossipInit, PacketsOK, DeadlinesOK
<1> QED  BY <1>1, <1>2 DEF GossipInv

\* With transactions gossiped between the nodes, every node still holds a
\* growing prefix of the one chain the sealer writes: no request, receipt,
\* late answer or expired deadline changes a chain, and the chain requests that
\* receipts cause bring only pieces of it.
THEOREM GossipKeepsOneLog == GossipSpec => IsOneLog
<1>1. GossipInit => GossipInv /\ Log!LogInit
  BY GossipBegins
<1>2. GossipInv /\ [GossipNext]_gossipVars => GossipInv' /\ [Log!LogNext]_blocks
  BY GossipStep
<1> QED  BY <1>1, <1>2, PTL DEF GossipSpec, IsOneLog, Log!LogSpec

-----------------------------------------------------------------------------
(***************************************************************************)
(* What a peer has acknowledged.  A pool gives a transaction up only to    *)
(* the chain: every chain here is a piece of one valid log, so a longer    *)
(* piece has confirmed a sender's transactions in their order, and what it *)
(* leaves still fits.  That takes clients that sign one transaction for a  *)
(* nonce; with two, the chain may take the one the pool does not have.     *)
(***************************************************************************)

\* n has t in its pool or on its chain.
Held(n, t) == t \in mempool[n] \/ Id(t) \in Ids(blocks[n])

KeysOK ==
    /\ public_keys = [n \in Nodes |-> [a \in Accounts |-> public_keys[n][a]]]
    /\ public_keys[Leader][Leader] = SealKey[Leader]

\* Every piece of the log is a chain the sealer verifies.
LogValid ==
    \A k \in 1 .. Len(blocks[Leader]) :
        ChainValid({Leader}, public_keys[Leader], SubSeq(blocks[Leader], 1, k))

PoolsOK == \A n \in Nodes : Admitted(public_keys[n], State(n), mempool[n])

PoolInv == LogInv /\ KeysOK /\ LogValid /\ PoolsOK

\* Both chains are of the log: the longer holds what the shorter does.
LEMMA PieceProlongs ==
    ASSUME NEW log \in Seq(Block), NEW bs, NEW cs, Piece(log, bs), Piece(log, cs),
           Len(bs) <= Len(cs)
    PROVE  Prolongs(cs, bs)
<1>1. \A i \in DOMAIN bs : i \in DOMAIN cs /\ cs[i] = bs[i]
  BY DEF Piece
<1> QED  BY <1>1 DEF Prolongs, Slots, TxAt

LEMMA AppendProlongs ==
    ASSUME NEW bs \in Seq(Block), NEW b \in Block
    PROVE  Prolongs(Append(bs, b), bs)
<1>1. \A i \in DOMAIN bs : i \in DOMAIN Append(bs, b) /\ Append(bs, b)[i] = bs[i]
  OBVIOUS
<1> QED  BY <1>1 DEF Prolongs, Slots, TxAt

LEMMA PieceValid ==
    ASSUME LogInv, LogValid, NEW chain, Piece(blocks[Leader], chain)
    PROVE  /\ chain \in Seq(Block)
           /\ ChainValid({Leader}, public_keys[Leader], chain)
           /\ TransactionsApply(public_keys[Leader], {}, InitialState, chain)
           /\ StateAfter(InitialState, chain) \in LedgerState
<1>1. chain \in Seq(Block)
  BY LeaderType DEF Piece
<1>2. ChainValid({Leader}, public_keys[Leader], chain)
  BY DEF Piece, LogValid
<1>3. TransactionsApply(public_keys[Leader], {}, InitialState, chain)
  BY <1>2 DEF ChainValid
<1> QED  BY <1>1, <1>2, <1>3, StateAfterType, InitialStateType

LEMMA NodeFacts ==
    ASSUME PoolInv, NEW n \in Nodes
    PROVE  /\ Leader \in Nodes /\ blocks[n] \in Seq(Block) /\ State(n) \in LedgerState
           /\ Piece(blocks[Leader], blocks[n])
           /\ TransactionsApply(public_keys[Leader], {}, InitialState, blocks[n])
           /\ mempool[n] \in SUBSET Txs /\ IsFiniteSet(mempool[n])
           /\ Admitted(public_keys[n], State(n), mempool[n])
<1>1. Piece(blocks[Leader], blocks[n]) /\ Leader \in Nodes
  BY LeaderType DEF PoolInv, LogInv, ChainsOK
<1>2. /\ blocks[n] \in Seq(Block)
      /\ TransactionsApply(public_keys[Leader], {}, InitialState, blocks[n])
      /\ StateAfter(InitialState, blocks[n]) \in LedgerState
  BY <1>1, PieceValid DEF PoolInv
<1> QED  BY <1>1, <1>2 DEF State, PoolInv, LogInv, NodesOK, PoolsOK

-----------------------------------------------------------------------------
(***************************************************************************)
(* What a step may do to the ledgers.                                      *)
(***************************************************************************)

\* n takes t into its pool, perhaps with its sender's key.
Admits(n, t) ==
    /\ UNCHANGED blocks
    /\ mempool' = [mempool EXCEPT ![n] = mempool[n] \cup {t}]
    /\ \E keys :
        /\ KeepsKeys(public_keys[n], keys) /\ keys = [a \in Accounts |-> keys[a]]
        /\ public_keys' = [public_keys EXCEPT ![n] = keys]
        /\ ~ Refused(keys, Ids(blocks[n]), State(n), mempool[n], t)

\* The chain of n grows, by a block of its own or from the log.
Grows(n) ==
    \E chain, keys :
        /\ KeepsKeys(public_keys[n], keys) /\ keys = [a \in Accounts |-> keys[a]]
        /\ Replace(n, chain, keys, {Leader})
        /\ \/ /\ n = Leader /\ keys = public_keys[n]
              /\ \E b \in Block :
                    /\ chain = Append(blocks[n], b)
                    /\ BlockValid({Leader}, keys, Ids(blocks[n]), State(n), b)
           \/ Piece(blocks[Leader], chain) /\ Len(chain) > Len(blocks[n])

\* n starts again, without its pool.
Forgets(n) ==
    /\ UNCHANGED blocks
    /\ mempool' = [mempool EXCEPT ![n] = {}]
    /\ public_keys' = [public_keys EXCEPT ![n] = StartKeys(n, {Leader}, public_keys[n])]

\* More keys at the nodes, and the log as it was.
LEMMA MoreKeys ==
    ASSUME PoolInv, blocks'[Leader] = blocks[Leader], NEW n \in Nodes, NEW keys,
           KeepsKeys(public_keys[n], keys), keys = [a \in Accounts |-> keys[a]],
           public_keys' = [public_keys EXCEPT ![n] = keys]
    PROVE  /\ KeysOK' /\ LogValid'
           /\ public_keys'[n] = keys
           /\ \A m \in Nodes \ {n} : public_keys'[m] = public_keys[m]
<1>0. Leader \in Nodes /\ Leader \in Accounts /\ SealKey[Leader] # NoKey /\ blocks[Leader] \in Seq(Block)
  BY LeaderType, NodeAssumption, KeyAssumption DEF PoolInv
<1>1. /\ public_keys'[n] = keys
      /\ \A m \in Nodes \ {n} : public_keys'[m] = public_keys[m]
  BY DEF PoolInv, KeysOK
<1>2. KeepsKeys(public_keys[Leader], public_keys'[Leader])
  BY <1>0, <1>1 DEF KeepsKeys
<1>3. KeysOK'
  <2>1. public_keys' = [m \in Nodes |-> public_keys'[m]]
    BY DEF PoolInv, KeysOK
  <2>2. ASSUME NEW m \in Nodes
        PROVE  public_keys'[m] = [a \in Accounts |-> public_keys'[m][a]]
    <3>1. CASE m = n
      BY <1>1, <3>1
    <3>2. CASE m # n
      <4>1. public_keys[m] = [a \in Accounts |-> public_keys[m][a]]
        BY DEF PoolInv, KeysOK
      <4> QED  BY <1>1, <3>2, <4>1
    <3> QED  BY <3>1, <3>2
  <2>3. public_keys'[Leader][Leader] = SealKey[Leader]
    BY <1>0, <1>2 DEF PoolInv, KeysOK, KeepsKeys
  <2> QED  BY <2>1, <2>2, <2>3 DEF KeysOK
<1>4. LogValid'
  <2> SUFFICES ASSUME NEW k \in 1 .. Len(blocks[Leader])
               PROVE  ChainValid({Leader}, public_keys'[Leader], SubSeq(blocks[Leader], 1, k))
    BY DEF LogValid
  <2>1. SubSeq(blocks[Leader], 1, k) \in Seq(Block)
    BY <1>0
  <2>2. ChainValid({Leader}, public_keys[Leader], SubSeq(blocks[Leader], 1, k))
    BY DEF PoolInv, LogValid
  <2> QED  BY <1>2, <2>1, <2>2, ValidWithMore
<1> QED  BY <1>1, <1>3, <1>4

LEMMA AdmitsKeeps ==
    ASSUME PoolInv, LogInv', NEW n \in Nodes, NEW t \in Txs, Admits(n, t)
    PROVE  /\ PoolInv' /\ t \in mempool'[n]
           /\ \A m \in Nodes : \A u \in Txs : Held(m, u) => Held(m, u)'
<1>1. PICK keys :
        /\ KeepsKeys(public_keys[n], keys) /\ keys = [a \in Accounts |-> keys[a]]
        /\ public_keys' = [public_keys EXCEPT ![n] = keys]
        /\ ~ Refused(keys, Ids(blocks[n]), State(n), mempool[n], t)
  BY DEF Admits
<1>2. UNCHANGED blocks /\ mempool' = [mempool EXCEPT ![n] = mempool[n] \cup {t}]
  BY DEF Admits
<1>3. /\ KeysOK' /\ LogValid' /\ public_keys'[n] = keys
      /\ \A m \in Nodes \ {n} : public_keys'[m] = public_keys[m]
  BY <1>1, <1>2, MoreKeys
<1>4. /\ mempool'[n] = mempool[n] \cup {t}
      /\ \A m \in Nodes \ {n} : mempool'[m] = mempool[m]
  BY <1>2 DEF PoolInv, LogInv, NodesOK
<1>5. \A m \in Nodes : State(m)' = State(m)
  BY <1>2 DEF State
<1>6. Admitted(keys, State(n), mempool[n] \cup {t})
  BY <1>1, NodeFacts, AdmittedMore
<1>7. PoolsOK'
  <2> SUFFICES ASSUME NEW m \in Nodes
               PROVE  Admitted(public_keys'[m], State(m)', mempool'[m])
    BY DEF PoolsOK, Admitted
  <2>1. CASE m = n
    BY <1>3, <1>4, <1>5, <1>6, <2>1
  <2>2. CASE m # n
    <3>1. Admitted(public_keys[m], State(m), mempool[m])
      BY DEF PoolInv, PoolsOK
    <3> QED  BY <1>3, <1>4, <1>5, <2>2, <3>1
  <2> QED  BY <2>1, <2>2
<1>8. \A m \in Nodes : \A u \in Txs : Held(m, u) => Held(m, u)'
  BY <1>2, <1>4 DEF Held
<1> QED  BY <1>3, <1>4, <1>7, <1>8 DEF PoolInv

LEMMA GrowsKeeps ==
    ASSUME HonestClients, PoolInv, LogInv', NEW n \in Nodes, Grows(n)
    PROVE  /\ PoolInv'
           /\ \A m \in Nodes : \A u \in Txs : Held(m, u) => Held(m, u)'
<1>1. PICK chain, keys :
        /\ KeepsKeys(public_keys[n], keys) /\ keys = [a \in Accounts |-> keys[a]]
        /\ Replace(n, chain, keys, {Leader})
        /\ \/ /\ n = Leader /\ keys = public_keys[n]
              /\ \E b \in Block :
                    /\ chain = Append(blocks[n], b)
                    /\ BlockValid({Leader}, keys, Ids(blocks[n]), State(n), b)
           \/ Piece(blocks[Leader], chain) /\ Len(chain) > Len(blocks[n])
  BY DEF Grows
<1> DEFINE log == blocks[Leader]
           pool == Requeued(keys, Ids(chain), StateAfter(InitialState, chain), mempool[n])
<1>2. /\ Leader \in Nodes /\ log \in Seq(Block) /\ Len(log) \in Nat
      /\ Piece(log, blocks[n]) /\ blocks[n] \in Seq(Block)
  BY NodeFacts, LeaderType DEF PoolInv
<1>3. /\ blocks'[n] = chain /\ public_keys'[n] = keys /\ mempool'[n] = pool
      /\ \A m \in Nodes \ {n} : /\ blocks'[m] = blocks[m] /\ mempool'[m] = mempool[m]
                                /\ public_keys'[m] = public_keys[m]
  BY <1>1 DEF Replace, PoolInv, LogInv, NodesOK, KeysOK
<1>4. /\ chain \in Seq(Block) /\ Prolongs(chain, blocks[n])
      /\ ChainValid({Leader}, public_keys[Leader], chain)
      /\ KeysOK' /\ LogValid'
  <2>1. CASE n = Leader /\ keys = public_keys[n] /\ \E b \in Block :
               /\ chain = Append(blocks[n], b)
               /\ BlockValid({Leader}, keys, Ids(blocks[n]), State(n), b)
    <3>1. PICK b \in Block : /\ chain = Append(log, b)
                             /\ BlockValid({Leader}, public_keys[Leader], Ids(log), State(Leader), b)
      BY <2>1
    <3>2. chain \in Seq(Block) /\ Prolongs(chain, log)
      BY <1>2, <3>1, AppendProlongs
    <3>3. ChainValid({Leader}, public_keys[Leader], log)
      BY <1>2, <2>1, PieceValid DEF PoolInv
    <3>4. ChainValid({Leader}, public_keys[Leader], chain)
      BY <1>2, <3>1, <3>3, ValidAppend DEF State
    <3>5. KeysOK'
      BY <1>1, <2>1 DEF Replace, PoolInv, KeysOK
    <3>6. LogValid'
      <4>1. public_keys'[Leader] = public_keys[Leader] /\ blocks'[Leader] = chain
        BY <1>3, <2>1
      <4> SUFFICES ASSUME NEW k \in 1 .. Len(chain)
                   PROVE  ChainValid({Leader}, public_keys[Leader], SubSeq(chain, 1, k))
        BY <4>1 DEF LogValid
      <4>2. CASE k \in 1 .. Len(log)
        <5>1. SubSeq(chain, 1, k) = SubSeq(log, 1, k)
          BY <1>2, <3>1, <4>2
        <5> QED  BY <4>2, <5>1 DEF PoolInv, LogValid
      <4>3. CASE k = Len(chain)
        <5>1. SubSeq(chain, 1, k) = chain
          BY <3>2, <4>3
        <5> QED  BY <3>4, <5>1
      <4>4. k \in 1 .. Len(log) \/ k = Len(chain)
        BY <1>2, <3>1
      <4> QED  BY <4>2, <4>3, <4>4
    <3> QED  BY <2>1, <3>2, <3>4, <3>5, <3>6
  <2>2. CASE Piece(log, chain) /\ Len(chain) > Len(blocks[n])
    <3>1. chain \in Seq(Block) /\ ChainValid({Leader}, public_keys[Leader], chain)
      BY <2>2, PieceValid DEF PoolInv
    <3>2. Len(blocks[n]) <= Len(chain)
      BY <1>2, <2>2, <3>1
    <3>3. Prolongs(chain, blocks[n])
      BY <1>2, <2>2, <3>2, PieceProlongs
    <3>4. n # Leader
      BY <1>2, <2>2 DEF Piece
    <3>5. public_keys' = [public_keys EXCEPT ![n] = keys] /\ blocks'[Leader] = blocks[Leader]
      BY <1>1, <1>2, <1>3, <3>4 DEF Replace
    <3>6. KeysOK' /\ LogValid'
      BY <1>1, <3>5, MoreKeys
    <3> QED  BY <3>1, <3>3, <3>6
  <2> QED  BY <1>1, <2>1, <2>2
<1>5. /\ TransactionsApply(public_keys[Leader], {}, InitialState, chain)
      /\ StateAfter(InitialState, chain) \in LedgerState
      /\ TransactionsApply(public_keys[Leader], {}, InitialState, blocks[n])
  <2>1. TransactionsApply(public_keys[Leader], {}, InitialState, chain)
    BY <1>4 DEF ChainValid
  <2> QED  BY <1>4, <2>1, StateAfterType, InitialStateType, NodeFacts
<1>6. /\ mempool[n] \in SUBSET Txs /\ IsFiniteSet(mempool[n])
      /\ Admitted(public_keys[n], StateAfter(InitialState, blocks[n]), mempool[n])
  BY NodeFacts DEF State
<1>7. Admitted(keys, StateAfter(InitialState, chain), pool)
  BY <1>5, <1>6, AdmittedAgain
<1>8. \A t \in mempool[n] : Id(t) \in Ids(chain) \/ t \in pool
  BY <1>1, <1>2, <1>4, <1>5, <1>6, NothingLost
<1>9. Ids(blocks[n]) \subseteq Ids(chain)
  BY <1>4 DEF Prolongs, Ids
<1>10. \A m \in Nodes : \A u \in Txs : Held(m, u) => Held(m, u)'
  <2> SUFFICES ASSUME NEW m \in Nodes, NEW u, Held(m, u) PROVE Held(m, u)'
    OBVIOUS
  <2> HIDE DEF pool
  <2>1. CASE m = n
    BY <1>3, <1>8, <1>9, <2>1 DEF Held
  <2>2. CASE m # n
    BY <1>3, <2>2 DEF Held
  <2> QED  BY <2>1, <2>2
<1>11. PoolsOK'
  <2> SUFFICES ASSUME NEW m \in Nodes
               PROVE  Admitted(public_keys'[m], State(m)', mempool'[m])
    BY DEF PoolsOK, Admitted
  <2> HIDE DEF pool
  <2>1. CASE m = n
    <3>1. State(m)' = StateAfter(InitialState, chain)
      BY <1>3, <2>1 DEF State
    <3> QED  BY <1>3, <1>7, <2>1, <3>1
  <2>2. CASE m # n
    <3>1. State(m)' = State(m)
      BY <1>3, <2>2 DEF State
    <3>2. Admitted(public_keys[m], State(m), mempool[m])
      BY DEF PoolInv, PoolsOK
    <3> QED  BY <1>3, <2>2, <3>1, <3>2
  <2> QED  BY <2>1, <2>2
<1> QED  BY <1>4, <1>10, <1>11 DEF PoolInv

LEMMA ForgetsKeeps ==
    ASSUME PoolInv, LogInv', NEW n \in Nodes, Forgets(n)
    PROVE  /\ PoolInv' /\ UNCHANGED public_keys
           /\ \A m \in Nodes \ {n} : \A u \in Txs : Held(m, u) => Held(m, u)'
<1> DEFINE keys == StartKeys(n, {Leader}, public_keys[n])
<1>0. Leader \in Accounts /\ UNCHANGED blocks
  BY NodeAssumption, OneSealerAssumption DEF Forgets
<1>1. keys = public_keys[n]
  <2>1. public_keys[n] = [a \in Accounts |-> public_keys[n][a]]
    BY DEF PoolInv, KeysOK
  <2> QED  BY <1>0, <2>1 DEF StartKeys, PoolInv, KeysOK
<1>2. UNCHANGED public_keys
  BY <1>1 DEF Forgets, PoolInv, KeysOK
<1>3. /\ mempool'[n] = {}
      /\ \A m \in Nodes \ {n} : mempool'[m] = mempool[m]
  BY DEF Forgets, PoolInv, LogInv, NodesOK
<1>4. KeysOK' /\ LogValid'
  BY <1>0, <1>2 DEF PoolInv, KeysOK, LogValid
<1>5. \A m \in Nodes : State(m)' = State(m)
  BY <1>0 DEF State
<1>6. PoolsOK'
  <2> SUFFICES ASSUME NEW m \in Nodes
               PROVE  Admitted(public_keys[m], State(m), mempool'[m])
    BY <1>2, <1>5 DEF PoolsOK, Admitted
  <2>1. CASE m = n
    BY <1>3, <2>1, NodeFacts, AdmittedEmpty
  <2>2. CASE m # n
    BY <1>3, <2>2 DEF PoolInv, PoolsOK
  <2> QED  BY <2>1, <2>2
<1>7. \A m \in Nodes \ {n} : \A u \in Txs : Held(m, u) => Held(m, u)'
  BY <1>0, <1>3 DEF Held
<1> QED  BY <1>2, <1>4, <1>6, <1>7 DEF PoolInv

LEMMA RestsKeeps ==
    ASSUME PoolInv, LogInv', UNCHANGED node
    PROVE  /\ PoolInv'
           /\ \A m \in Nodes : \A u \in Txs : Held(m, u) => Held(m, u)'
BY DEF node, PoolInv, KeysOK, LogValid, PoolsOK, State, Held

-----------------------------------------------------------------------------
LEMMA SubmitAdmits ==
    ASSUME PoolInv, NEW n \in Nodes, NEW t, Submit(n, t)
    PROVE  Admits(n, t)
<1>1. /\ public_keys[n] = [a \in Accounts |-> public_keys[n][a]]
      /\ public_keys' = [public_keys EXCEPT ![n] = public_keys[n]]
  BY DEF Submit, PoolInv, KeysOK
<1>2. KeepsKeys(public_keys[n], public_keys[n])
  BY DEF KeepsKeys
<1>3. UNCHANGED blocks /\ mempool' = [mempool EXCEPT ![n] = mempool[n] \cup {t}]
  BY DEF Submit
<1>4. ~ Refused(public_keys[n], Ids(blocks[n]), State(n), mempool[n], t)
  BY DEF Submit
<1> QED  BY <1>1, <1>2, <1>3, <1>4 DEF Admits

LEMMA SealGrows ==
    ASSUME PoolInv, NEW n \in Nodes, Seal(n)
    PROVE  Grows(n)
<1>1. n = Leader
  BY Sealed DEF PoolInv
<1>2. PICK b \in Block :
        /\ BlockValid({Leader}, public_keys[n], Ids(blocks[n]), State(n), b)
        /\ Replace(n, Append(blocks[n], b), public_keys[n], {Leader})
  BY Sealed DEF PoolInv
<1>3. public_keys[n] = [a \in Accounts |-> public_keys[n][a]]
  BY DEF PoolInv, KeysOK
<1>4. KeepsKeys(public_keys[n], public_keys[n])
  BY DEF KeepsKeys
<1> QED  BY <1>1, <1>2, <1>3, <1>4 DEF Grows

LEMMA DeliverMoves ==
    ASSUME PoolInv, NEW m \in network, Deliver(m)
    PROVE  UNCHANGED node \/ (m.to \in Nodes /\ Grows(m.to))
<1>0. /\ m.to \in Nodes /\ MessageOK(blocks[Leader], m) /\ authorities[m.to] = {Leader}
      /\ Len(blocks[m.to]) \in Nat
  <2>1. m.to \in Nodes /\ MessageOK(blocks[Leader], m)
    BY DEF PoolInv, LogInv, MessagesOK, MessageOK
  <2> QED  BY <2>1, NodeFacts DEF PoolInv, LogInv, NodesOK
<1>1. CASE AnswerGetChain(m) \/ IgnoreKnown(m) \/ AskForChain(m) \/ RejectBlock(m) \/ KeepChain(m)
  BY <1>1 DEF AnswerGetChain, IgnoreKnown, AskForChain, RejectBlock, KeepChain
<1>2. CASE AppendBlock(m)
  <2> DEFINE keys == MergeBlockAccounts(public_keys[m.to], m.accounts, m.chain[Len(m.chain)])
  <2>1. KeepsKeys(public_keys[m.to], keys) /\ keys = [a \in Accounts |-> keys[a]]
    BY DEF MergeBlockAccounts, KeepsKeys
  <2>2. Replace(m.to, m.chain, keys, {Leader}) /\ Len(m.chain) = Len(blocks[m.to]) + 1
    BY <1>0, <1>2 DEF AppendBlock, Appendable
  <2>3. Piece(blocks[Leader], m.chain)
    BY <1>0, <1>2 DEF AppendBlock, MessageOK
  <2>4. Len(m.chain) > Len(blocks[m.to])
    BY <1>0, <2>2
  <2> HIDE DEF keys
  <2> QED  BY <1>0, <2>1, <2>2, <2>3, <2>4 DEF Grows
<1>3. CASE AdoptChain(m)
  <2> DEFINE s == m.snapshot
             keys == MergeAccounts(public_keys[m.to], s.accounts)
             auths == MergeAuthorities(authorities[m.to], keys, s.authorities)
  <2>1. KeepsKeys(public_keys[m.to], keys) /\ keys = [a \in Accounts |-> keys[a]]
    BY DEF MergeAccounts, KeepsKeys
  <2>2. Replace(m.to, s.blocks, keys, auths) /\ Len(s.blocks) > Len(blocks[m.to])
    BY <1>3 DEF AdoptChain, Adoptable
  <2>3. Piece(blocks[Leader], s.blocks) /\ s.authorities = {Leader}
    BY <1>0, <1>3 DEF AdoptChain, MessageOK
  <2>4. auths = {Leader}
    BY <1>0, <2>3 DEF MergeAuthorities
  <2> HIDE DEF keys, s, auths
  <2> QED  BY <1>0, <2>1, <2>2, <2>3, <2>4 DEF Grows
<1> QED  BY <1>1, <1>2, <1>3 DEF Deliver

\* Of the steps of Sync, only a restart lets go of what is held.
LEMMA SyncHolds ==
    ASSUME HonestClients, PoolInv, LogInv',
           \/ \E n \in Nodes : \E t \in Clients[n] : Submit(n, t)
           \/ \E n \in Nodes : Seal(n)
           \/ \E m \in network : Deliver(m)
           \/ UNCHANGED node
    PROVE  /\ PoolInv'
           /\ \A m \in Nodes : \A u \in Txs : Held(m, u) => Held(m, u)'
<1>1. ASSUME NEW n \in Nodes, NEW t \in Clients[n], Submit(n, t)
      PROVE  /\ PoolInv'
             /\ \A m \in Nodes : \A u \in Txs : Held(m, u) => Held(m, u)'
  <2>1. t \in Txs
    BY NodeAssumption
  <2> QED  BY <1>1, <2>1, SubmitAdmits, AdmitsKeeps
<1>2. ASSUME NEW n \in Nodes, Seal(n)
      PROVE  /\ PoolInv'
             /\ \A m \in Nodes : \A u \in Txs : Held(m, u) => Held(m, u)'
  BY <1>2, SealGrows, GrowsKeeps
<1>3. ASSUME NEW m \in network, Deliver(m)
      PROVE  /\ PoolInv'
             /\ \A n \in Nodes : \A u \in Txs : Held(n, u) => Held(n, u)'
  BY <1>3, DeliverMoves, GrowsKeeps, RestsKeeps
<1> QED  BY <1>1, <1>2, <1>3, RestsKeeps

-----------------------------------------------------------------------------
\* An answer under way that acknowledges is true.
Truthful(r) == r.type = "Response" /\ Acknowledges(r) => Held(r.peer, r.tx)

AnswersOK == \A r \in gossip : Truthful(r)

ServeInv == GossipInv /\ PoolInv /\ AnswersOK /\ ReceiptsHold

\* drive adds requests only, and keeps receipts only while the link is up.
LEMMA DriveServes ==
    ASSUME NodesOK', NEW N \in SUBSET Nodes,
           NEW msgs, \A r \in msgs : PacketOK(r) /\ Truthful(r)',
           NEW receipts, \A k \in receipts : StillOpen(N, k) => Held(k[2], k[3])',
           NEW deferred, NEW asked, Drive(N, msgs, receipts, deferred, asked)
    PROVE  AnswersOK' /\ ReceiptsHold'
<1>1. ASSUME NEW r \in gossip' PROVE Truthful(r)'
  <2>1. CASE r.type = "Response"
    BY <2>1, DriveAnswers
  <2>2. CASE r.type # "Response"
    BY <2>2 DEF Truthful
  <2> QED  BY <2>1, <2>2
<1>2. \A k \in known' : k \in receipts /\ StillOpen(N, k)
  BY DEF Drive
<1>3. ReceiptsHold'
  BY <1>2 DEF ReceiptsHold, Held
<1> QED  BY <1>1, <1>3 DEF AnswersOK

\* Where nothing is let go of, what was acknowledged stays true.
LEMMA StillTrue ==
    ASSUME ServeInv, NEW M, \A m \in M : \A u \in Txs : Held(m, u) => Held(m, u)'
    PROVE  /\ \A q \in gossip : PacketOK(q) /\ (q.peer \in M => Truthful(q)')
           /\ \A k \in known : k[2] \in M => Held(k[2], k[3])'
<1>1. ASSUME NEW q \in gossip PROVE PacketOK(q) /\ (q.peer \in M => Truthful(q)')
  <2>1. PacketOK(q) /\ Truthful(q)
    BY DEF ServeInv, GossipInv, PacketsOK, AnswersOK
  <2>2. q.tx \in Txs
    BY <2>1 DEF PacketOK
  <2> QED  BY <2>1, <2>2 DEF Truthful, Acknowledges
<1>2. ASSUME NEW k \in known, k[2] \in M PROVE Held(k[2], k[3])'
  <2>1. k[3] \in Txs /\ Held(k[2], k[3])
    BY DEF ServeInv, GossipInv, DeadlinesOK, ReceiptsHold, Held
  <2> QED  BY <1>2, <2>1
<1> QED  BY <1>1, <1>2

LEMMA AllTrue ==
    ASSUME ServeInv, \A m \in Nodes : \A u \in Txs : Held(m, u) => Held(m, u)'
    PROVE  /\ \A q \in gossip : PacketOK(q) /\ Truthful(q)'
           /\ \A k \in known : Held(k[2], k[3])'
<1>1. \A q \in gossip : q.peer \in Nodes
  BY DEF ServeInv, GossipInv, PacketsOK, PacketOK
<1>2. \A k \in known : k[2] \in Nodes
  BY DEF ServeInv, GossipInv, DeadlinesOK
<1> QED  BY <1>1, <1>2, StillTrue

\* A step that lets go of nothing, followed by drive.
LEMMA DriveAfterHolds ==
    ASSUME ServeInv, NodesOK', \A m \in Nodes : \A u \in Txs : Held(m, u) => Held(m, u)',
           NEW N \in SUBSET Nodes, NEW msgs \in SUBSET gossip,
           NEW receipts \in SUBSET known, NEW deferred, NEW asked,
           Drive(N, msgs, receipts, deferred, asked)
    PROVE  AnswersOK' /\ ReceiptsHold'
<1>1. /\ \A q \in msgs : PacketOK(q) /\ Truthful(q)'
      /\ \A k \in receipts : Held(k[2], k[3])'
  BY AllTrue
<1> QED  BY <1>1, DriveServes

\* A request that is accepted admits its transaction, and the answer is true.
LEMMA RequestAnswered ==
    ASSUME HonestClients, ServeInv, LogInv', NEW r \in gossip, ReceiveRequest(r)
    PROVE  /\ PoolInv'
           /\ \A m \in Nodes : \A u \in Txs : Held(m, u) => Held(m, u)'
           /\ Answer(r.peer, r) \in {"Accepted", "Known", "Confirmed"} => Held(r.peer, r.tx)'
<1> DEFINE n == r.peer
           t == r.tx
           keys == KeysWith(n, r)
<1>0. n \in Nodes /\ t \in Txs /\ PoolInv /\ UNCHANGED <<blocks, authorities>>
  BY DEF ServeInv, GossipInv, PacketsOK, PacketOK, ReceiveRequest
<1>1. CASE Answer(n, r) = "Accepted"
  <2>1. /\ mempool' = [mempool EXCEPT ![n] = mempool[n] \cup {t}]
        /\ public_keys' = [public_keys EXCEPT ![n] = keys]
    BY <1>1 DEF ReceiveRequest
  <2>2. ~ Refused(keys, Ids(blocks[n]), State(n), mempool[n], t)
    BY <1>1 DEF Answer
  <2>3. KeepsKeys(public_keys[n], keys) /\ keys = [a \in Accounts |-> keys[a]]
    <3>1. public_keys[n] = [a \in Accounts |-> public_keys[n][a]]
      BY <1>0 DEF PoolInv, KeysOK
    <3> QED  BY <3>1 DEF KeysWith, KeepsKeys
  <2> HIDE DEF keys, n, t
  <2>4. Admits(n, t)
    BY <1>0, <2>1, <2>2, <2>3 DEF Admits
  <2> QED  BY <1>0, <2>4, AdmitsKeeps DEF Held, n, t
<1>2. CASE Answer(n, r) # "Accepted"
  <2>1. UNCHANGED node
    BY <1>0, <1>2 DEF ReceiveRequest, node
  <2>2. ASSUME Answer(n, r) \in {"Known", "Confirmed"} PROVE Held(n, t)
    <3>1. CASE Id(t) \in Ids(blocks[n])
      BY <3>1 DEF Held
    <3>2. CASE \E u \in mempool[n] : Id(u) = Id(t)
      <4>1. PICK u \in mempool[n] : Id(u) = Id(t)
        BY <3>2
      <4>2. u \in Txs
        BY <1>0, NodeFacts
      <4>3. u.sender = t.sender /\ u.nonce = t.nonce
        BY <4>1 DEF Id
      <4>4. u = t
        BY <1>0, <4>2, <4>3 DEF HonestClients
      <4> QED  BY <4>1, <4>4 DEF Held
    <3> QED  BY <2>2, <3>1, <3>2 DEF Answer
  <2>3. /\ PoolInv'
        /\ \A m \in Nodes : \A u \in Txs : Held(m, u) => Held(m, u)'
    BY <1>0, <2>1, RestsKeeps
  <2> QED  BY <1>0, <1>2, <2>2, <2>3
<1> QED  BY <1>1, <1>2

LEMMA RequestServes ==
    ASSUME HonestClients, ServeInv, GossipInv', NEW r \in gossip, ReceiveRequest(r)
    PROVE  ServeInv'
<1> DEFINE answer == Answer(r.peer, r)
           msgs == (gossip \ {r}) \cup {Response(r, answer)}
<1>0. PacketOK(r) /\ r.peer \in Nodes
  BY DEF ServeInv, GossipInv, PacketsOK, PacketOK
<1>1. /\ PoolInv'
      /\ \A m \in Nodes : \A u \in Txs : Held(m, u) => Held(m, u)'
      /\ answer \in {"Accepted", "Known", "Confirmed"} => Held(r.peer, r.tx)'
  BY RequestAnswered DEF GossipInv
<1>2. Drive({r.peer}, msgs, known, retry_after, chain_sync_after)
  BY DEF ReceiveRequest
<1>3. \A q \in gossip : PacketOK(q) /\ Truthful(q)'
  BY <1>1, AllTrue
<1>4. ASSUME NEW q, q = Response(r, answer) PROVE PacketOK(q) /\ Truthful(q)'
  <2>1. q.peer = r.peer /\ q.tx = r.tx /\ q.answer = answer
    BY <1>4 DEF Response
  <2>2. PacketOK(q)
    <3> HIDE DEF answer
    <3> QED  BY <1>0, <1>4, AnswerOK
  <2> HIDE DEF answer
  <2> QED  BY <1>1, <2>1, <2>2 DEF Truthful, Acknowledges
<1>5. \A k \in known : Held(k[2], k[3])'
  BY <1>1, AllTrue
<1>6. \A q \in msgs : PacketOK(q) /\ Truthful(q)'
  <2> HIDE DEF answer
  <2> QED  BY <1>3, <1>4
<1> HIDE DEF msgs
<1>7. AnswersOK' /\ ReceiptsHold'
  <2>1. NodesOK'
    BY DEF GossipInv, LogInv
  <2> QED  BY <1>0, <1>2, <1>5, <1>6, <2>1, DriveServes
<1> QED  BY <1>1, <1>7 DEF ServeInv

\* A receipt comes of an answer that is true.
LEMMA ResponseServes ==
    ASSUME ServeInv, GossipInv', NEW r \in gossip, ReceiveResponse(r)
    PROVE  ServeInv'
<1> DEFINE n == r.asker
           m == r.peer
           receipt == IF Acknowledges(r) THEN {<<n, m, r.tx>>} ELSE {}
           later   == IF r.awaited /\ ~ Acknowledges(r) THEN {<<n, m, r.tx>>} ELSE {}
           asked   == IF AsksAfter(r) THEN {<<n, m>>} ELSE {}
<1>1. /\ UNCHANGED node /\ r.type = "Response"
      /\ Drive({n}, gossip \ {r}, known \cup receipt, retry_after \cup later,
               chain_sync_after \cup asked)
  BY DEF ReceiveResponse
<1>2. /\ PoolInv'
      /\ \A i \in Nodes : \A u \in Txs : Held(i, u) => Held(i, u)'
  BY <1>1, RestsKeeps DEF ServeInv, GossipInv
<1>3. \A q \in gossip : PacketOK(q) /\ Truthful(q)'
  BY <1>2, AllTrue
<1>4. \A k \in known : Held(k[2], k[3])'
  BY <1>2, AllTrue
<1>5. ASSUME NEW k \in receipt PROVE Held(k[2], k[3])'
  <2>1. Acknowledges(r) /\ k = <<n, m, r.tx>>
    OBVIOUS
  <2>2. Held(m, r.tx)'
    BY <1>1, <1>3, <2>1 DEF Truthful, Acknowledges
  <2> QED  BY <2>1, <2>2
<1>6. n \in Nodes
  BY DEF ServeInv, GossipInv, PacketsOK, PacketOK
<1> HIDE DEF n, m, receipt, later, asked
<1>7. AnswersOK' /\ ReceiptsHold'
  <2>1. NodesOK'
    BY DEF GossipInv, LogInv
  <2> QED  BY <1>1, <1>3, <1>4, <1>5, <1>6, <2>1, DriveServes
<1> QED  BY <1>2, <1>7 DEF ServeInv

LEMMA FailServes ==
    ASSUME ServeInv, GossipInv', NEW r \in gossip, Fail(r)
    PROVE  ServeInv'
<1>1. PICK late \in {{}, {[r EXCEPT !.awaited = FALSE]}} :
         Drive({r.asker}, (gossip \ {r}) \cup late, known,
               retry_after \cup {<<r.asker, r.peer, r.tx>>}, chain_sync_after)
  BY DEF Fail
<1>2. /\ PoolInv'
      /\ \A i \in Nodes : \A u \in Txs : Held(i, u) => Held(i, u)'
  BY RestsKeeps DEF Fail, ServeInv, GossipInv
<1>3. \A q \in gossip : PacketOK(q) /\ Truthful(q)'
  BY <1>2, AllTrue
<1>4. ASSUME NEW q \in late PROVE PacketOK(q) /\ Truthful(q)'
  <2>1. q = [r EXCEPT !.awaited = FALSE] /\ PacketOK(r)
    BY <1>3
  <2>2. PacketOK(q) /\ q.awaited = FALSE
    BY <2>1 DEF PacketOK
  <2> QED  BY <2>2 DEF Truthful, Acknowledges
<1>5. \A k \in known : Held(k[2], k[3])'
  BY <1>2, AllTrue
<1>6. r.asker \in Nodes
  BY <1>3 DEF PacketOK
<1>7. AnswersOK' /\ ReceiptsHold'
  <2>1. NodesOK'
    BY DEF GossipInv, LogInv
  <2> QED  BY <1>1, <1>3, <1>4, <1>5, <1>6, <2>1, DriveServes
<1> QED  BY <1>2, <1>7 DEF ServeInv

\* What a restart lets go of, every receipt and answer about it goes with the
\* links of the node.
LEMMA RestartServes ==
    ASSUME ServeInv, GossipInv', NEW n \in Nodes, RestartHere(n)
    PROVE  ServeInv'
<1> DEFINE msgs == {r \in gossip : {r.asker, r.peer} \in connected'}
<1>1. /\ Restart(n) /\ Drive(Nodes, msgs, known, retry_after, chain_sync_after)
      /\ connected' = connected \ {l \in connected : n \in l}
  BY DEF RestartHere, DriveAfterCut, Restart, Cut
<1>2. Forgets(n)
  BY <1>1 DEF Restart, Forgets, ServeInv, GossipInv, LogInv, NodesOK
<1>3. /\ PoolInv'
      /\ \A m \in Nodes \ {n} : \A u \in Txs : Held(m, u) => Held(m, u)'
  BY <1>2, ForgetsKeeps DEF ServeInv, GossipInv
<1>4. \A l \in connected' : n \notin l
  BY <1>1
<1>5. ASSUME NEW q \in msgs PROVE PacketOK(q) /\ Truthful(q)'
  <2>1. PacketOK(q) /\ (q.peer \in Nodes \ {n} => Truthful(q)')
    BY <1>3, StillTrue
  <2>2. q.peer \in Nodes \ {n}
    BY <1>4, <2>1 DEF PacketOK
  <2> QED  BY <2>1, <2>2
<1>6. ASSUME NEW k \in known, StillOpen(Nodes, k) PROVE Held(k[2], k[3])'
  <2>1. k[1] \in Nodes /\ k[2] \in Nodes
    BY DEF ServeInv, GossipInv, DeadlinesOK
  <2>2. {k[1], k[2]} \in connected'
    BY <1>6, <2>1 DEF StillOpen
  <2>3. k[2] \in Nodes \ {n}
    BY <1>4, <2>1, <2>2
  <2> QED  BY <1>3, <2>3, StillTrue
<1> HIDE DEF msgs
<1>7. AnswersOK' /\ ReceiptsHold'
  <2>1. NodesOK'
    BY DEF GossipInv, LogInv
  <2> QED  BY <1>1, <1>5, <1>6, <2>1, DriveServes
<1> QED  BY <1>3, <1>7 DEF ServeInv

\* A step of Sync that restarts nobody, followed by drive for some nodes.
LEMMA SyncServes ==
    ASSUME HonestClients, ServeInv, GossipInv',
           \/ \E n \in Nodes : Seal(n)
           \/ \E m \in network : Deliver(m)
           \/ UNCHANGED node,
           NEW N \in SUBSET Nodes, NEW msgs \in SUBSET gossip,
           NEW receipts \in SUBSET known, NEW deferred, NEW asked,
           Drive(N, msgs, receipts, deferred, asked)
    PROVE  ServeInv'
<1>1. /\ PoolInv'
      /\ \A m \in Nodes : \A u \in Txs : Held(m, u) => Held(m, u)'
  BY SyncHolds DEF ServeInv, GossipInv
<1>2. AnswersOK' /\ ReceiptsHold'
  BY <1>1, DriveAfterHolds DEF GossipInv, LogInv
<1> QED  BY <1>1, <1>2 DEF ServeInv

\* A step after which drive does not look.
LEMMA IdleServes ==
    ASSUME HonestClients, ServeInv, GossipInv', UNCHANGED <<gossip, known>>,
           (\E n \in Nodes : \E t \in Clients[n] : Submit(n, t)) \/ UNCHANGED node
    PROVE  ServeInv'
<1>1. /\ PoolInv'
      /\ \A m \in Nodes : \A u \in Txs : Held(m, u) => Held(m, u)'
  BY SyncHolds DEF ServeInv, GossipInv
<1>2. /\ \A q \in gossip : Truthful(q)'
      /\ \A k \in known : Held(k[2], k[3])'
  BY <1>1, AllTrue
<1>3. AnswersOK' /\ ReceiptsHold'
  BY <1>2 DEF AnswersOK, ReceiptsHold, Held
<1> QED  BY <1>1, <1>3 DEF ServeInv

LEMMA ServeStep ==
    ASSUME HonestClients, ServeInv, [GossipNext]_gossipVars
    PROVE  ServeInv'
<1>0. GossipInv /\ GossipInv'
  BY GossipStep DEF ServeInv
<1>1. ASSUME NEW n \in Nodes, NEW t \in Clients[n], SubmitHere(n, t) PROVE ServeInv'
  BY <1>0, <1>1, IdleServes DEF SubmitHere, deadlines
<1>2. ASSUME NEW n \in Nodes, SealHere(n) PROVE ServeInv'
  BY <1>0, <1>2, SyncServes DEF SealHere, DriveOnly
<1>3. ASSUME NEW m \in network, ReceiveSync(m) PROVE ServeInv'
  <2>1. m.to \in Nodes
    BY <1>0 DEF GossipInv, LogInv, MessagesOK, MessageOK
  <2> QED  BY <1>0, <1>3, <2>1, SyncServes DEF ReceiveSync, DriveOnly
<1>4. ASSUME NEW r \in gossip, ReceiveRequest(r) PROVE ServeInv'
  BY <1>0, <1>4, RequestServes
<1>5. ASSUME NEW r \in gossip, ReceiveResponse(r) PROVE ServeInv'
  BY <1>0, <1>5, ResponseServes
<1>6. ASSUME NEW r \in gossip, Fail(r) PROVE ServeInv'
  BY <1>0, <1>6, FailServes
<1>7. ASSUME NEW k \in known \cup retry_after, Expire(k) PROVE ServeInv'
  <2>1. k[1] \in Nodes
    BY <1>0 DEF GossipInv, DeadlinesOK
  <2>2. UNCHANGED node /\ Drive({k[1]}, gossip, known \ {k}, retry_after \ {k}, chain_sync_after)
    BY <1>7 DEF Expire, vars
  <2> QED  BY <1>0, <2>1, <2>2, SyncServes
<1>8. ASSUME NEW a \in chain_sync_after, MayAskAgain(a) PROVE ServeInv'
  BY <1>0, <1>8, IdleServes DEF MayAskAgain, vars
<1>9. ASSUME NEW n \in Nodes, Tick(n) PROVE ServeInv'
  BY <1>0, <1>9, SyncServes DEF Tick, DriveOnly, vars
<1>10. ASSUME NEW n \in Nodes, NEW m \in Nodes, Established(n, m) PROVE ServeInv'
  BY <1>0, <1>10, SyncServes DEF Established, Connect, DriveOnly
<1>11. ASSUME NEW m \in network, SyncFailure(m) PROVE ServeInv'
  <2>1. m.to \in Nodes /\ m.from \in Nodes
    BY <1>0 DEF GossipInv, LogInv, MessagesOK, MessageOK
  <2> QED  BY <1>0, <1>11, <2>1, SyncServes DEF SyncFailure, Lose, DriveOnly
<1>12. ASSUME NEW link \in connected, Closed(link) PROVE ServeInv'
  BY <1>0, <1>12, SyncServes DEF Closed, Disconnect, DriveAfterCut
<1>13. ASSUME NEW n \in Nodes, RestartHere(n) PROVE ServeInv'
  BY <1>0, <1>13, RestartServes
<1>14. CASE UNCHANGED gossipVars
  BY <1>0, <1>14, IdleServes DEF gossipVars, vars, deadlines
<1> QED
  BY <1>1, <1>2, <1>3, <1>4, <1>5, <1>6, <1>7, <1>8, <1>9, <1>10, <1>11, <1>12, <1>13, <1>14
  DEF GossipNext

LEMMA ServeBegins == GossipInit => ServeInv
<1> SUFFICES ASSUME GossipInit PROVE ServeInv
  OBVIOUS
<1> DEFINE first == GenesisOf(Leader)
           keys(n) == StartKeys(n, InitialAuthorities[n], InitialKeys[n])
<1>1. /\ Leader \in Nodes /\ Leader \in Accounts /\ first \in Block /\ first.txs = <<>>
      /\ \A n \in Nodes : InitialAuthorities[n] = {Leader}
      /\ \A n \in Nodes : GenesisOf(n) = first
  BY GenesisBlock, OneSealerAssumption, NodeAssumption DEF GenesisOf, Genesis
<1> HIDE DEF first
<1>2. /\ GossipInv /\ AnswersOK /\ ReceiptsHold
      /\ blocks = [n \in Nodes |-> <<first>>]
      /\ mempool = [n \in Nodes |-> {}]
      /\ public_keys = [n \in Nodes |-> keys(n)]
  BY <1>1, GossipBegins DEF GossipInit, Init, AnswersOK, ReceiptsHold
<1>3. KeysOK
  <2>1. ASSUME NEW n \in Nodes PROVE keys(n) = [a \in Accounts |-> keys(n)[a]]
    <3>1. InitialKeys[n] \in KeyMap
      BY NodeAssumption
    <3> QED  BY <3>1 DEF KeyMap, StartKeys
  <2>2. keys(Leader)[Leader] = SealKey[Leader]
    <3>1. InitialKeys[Leader] \in KeyMap
      BY <1>1, NodeAssumption
    <3> QED  BY <1>1, <3>1 DEF KeyMap, StartKeys
  <2> HIDE DEF keys
  <2> QED  BY <1>1, <1>2, <2>1, <2>2 DEF KeysOK
<1> HIDE DEF keys
<1>4. /\ <<first>> \in Seq(Block) /\ Slots(<<first>>) = {}
  BY <1>1 DEF Slots
<1>5. ChainValid({Leader}, public_keys[Leader], <<first>>)
  <2>1. \A a \in Accounts : BalanceAfter(InitialState, <<first>>, {}, a) = InitialState.balances[a]
    BY AllocationAssumption, AmountAtNone DEF BalanceAfter, ReceivedBy, SentBy, InitialState
  <2>2. WithinWidth(InitialState, <<first>>, {})
    BY <2>1, AllocationAssumption DEF WithinWidth, InitialState
  <2> QED  BY <1>4, <2>2 DEF ChainValid, TransactionsApply
<1>6. LogValid
  <2> DEFINE log == <<first>>
  <2>1. log \in Seq(Block) /\ Len(log) = 1 /\ blocks[Leader] = log
    BY <1>1, <1>2, <1>4
  <2>2. ChainValid({Leader}, public_keys[Leader], log)
    BY <1>5
  <2> HIDE DEF log
  <2>3. SubSeq(log, 1, 1) = log
    BY <2>1
  <2>4. \A k \in 1 .. 1 : k = 1
    OBVIOUS
  <2>5. \A k \in 1 .. Len(log) : ChainValid({Leader}, public_keys[Leader], SubSeq(log, 1, k))
    BY <2>1, <2>2, <2>3, <2>4
  <2> QED  BY <2>1, <2>5 DEF LogValid
<1>7. PoolsOK
  <2> SUFFICES ASSUME NEW n \in Nodes PROVE Admitted(public_keys[n], State(n), {})
    BY <1>2 DEF PoolsOK, Admitted
  <2>1. TransactionsApply(public_keys[Leader], {}, InitialState, <<first>>)
    BY <1>5 DEF ChainValid
  <2>2. State(n) \in LedgerState
    BY <1>2, <1>4, <2>1, StateAfterType, InitialStateType DEF State
  <2> QED  BY <2>2, AdmittedEmpty
<1> QED  BY <1>2, <1>3, <1>6, <1>7 DEF ServeInv, PoolInv, GossipInv

\* A node holds back a transaction only from peers that still have it, pending
\* or on chain, when no client signs two for one nonce: through seals, longer
\* chains, restarts, broken links and answers that come late, at any number of
\* nodes, what apply_transaction acknowledged reconcile_mempool gives up only
\* to the chain, and a peer that lost its pool has lost its links and with them
\* the receipts it gave.
THEOREM ReceiptsStayTrue ==
    ASSUME HonestClients
    PROVE  GossipSpec => []ReceiptsHold
<1>1. GossipInit => ServeInv
  BY ServeBegins
<1>2. ServeInv /\ [GossipNext]_gossipVars => ServeInv'
  BY ServeStep
<1>3. ServeInv => ReceiptsHold
  BY DEF ServeInv
<1> QED  BY <1>1, <1>2, <1>3, PTL DEF GossipSpec

-----------------------------------------------------------------------------
(***************************************************************************)
(* What a peer refuses.  A request under way is about the next transaction *)
(* in line: its asker has a receipt of the peer for those before it, and   *)
(* receipts are true.  A peer that has all the blocks the asker had when   *)
(* it asked therefore expects this very nonce, and whatever has been       *)
(* confirmed in between, the sender can pay.  That takes honest clients    *)
(* and names that have the same key at every node that knows one.          *)
(***************************************************************************)

\* Nowhere does a name have a key other than the one K gives it, and every node
\* starts with the key of the sealer.
OneKeyEach(K) ==
    \A n \in Nodes :
        /\ \A a \in Accounts : InitialKeys[n][a] \in {NoKey, K[a]}
        /\ InitialKeys[n][Leader] # NoKey /\ K[Leader] = SealKey[Leader]

NamesAgree == \E K \in KeyMap : OneKeyEach(K)

Names(K, keys) == \A a \in Accounts : keys[a] \in {NoKey, K[a]}

MessageNames(K, m) ==
    /\ m.type = "NewBlock" => Names(K, m.accounts)
    /\ m.type = "Chain" => Names(K, m.snapshot.accounts)

NamesInv(K) ==
    /\ \A n \in Nodes : Names(K, public_keys[n]) /\ public_keys[n][Leader] # NoKey
    /\ \A m \in network : MessageNames(K, m)

\* Over the chain n had when it offered t, t was the last of a queue that the
\* sender could pay, and m has what comes before t in it.
Backed(n, m, t) ==
    \E k \in 1 .. Len(blocks[n]), S \in SUBSET Txs :
        LET st == StateAfter(InitialState, SubSeq(blocks[Leader], 1, k))
            W  == QueuedBy(S, t.sender)
        IN  /\ IsFiniteSet(S) /\ t \in S
            /\ IsRun(W, st.nonces[t.sender]) /\ TotalAmount(W) <= st.balances[t.sender]
            /\ \A u \in W : u.nonce < t.nonce => Held(m, u)

\* A request of which only a missing block can keep the peer from the nonce.
Offer(K, r) ==
    r.type = "Request" =>
        /\ r.genesis = GenesisOf(Leader) /\ r.key = K[r.tx.sender]
        /\ r.tx.sender # Mint /\ r.tx.wellFormed /\ r.key # NoKey /\ r.key = r.tx.key
        /\ Backed(r.asker, r.peer, r.tx)

OfferInv(K) == ServeInv /\ NamesInv(K) /\ \A r \in gossip : Offer(K, r)

\* A node learns names, and what it says of them is what it knows.
LEMMA NamesMove ==
    ASSUME NEW K, NamesInv(K), KeysOK, Leader \in Accounts, NEW n \in Nodes, NEW keys,
           Names(K, keys), KeepsKeys(public_keys[n], keys),
           public_keys' = [public_keys EXCEPT ![n] = keys],
           \A m \in network' : m \in network \/ MessageNames(K, m)
    PROVE  NamesInv(K)'
<1>1. /\ public_keys'[n] = keys
      /\ \A i \in Nodes \ {n} : public_keys'[i] = public_keys[i]
  BY DEF KeysOK
<1>2. keys[Leader] # NoKey
  BY DEF NamesInv, KeepsKeys
<1>3. \A i \in Nodes : Names(K, public_keys'[i]) /\ public_keys'[i][Leader] # NoKey
  BY <1>1, <1>2 DEF NamesInv
<1>4. \A m \in network' : MessageNames(K, m)
  BY DEF NamesInv
<1> QED  BY <1>3, <1>4 DEF NamesInv, Names

LEMMA NamesRest ==
    ASSUME NEW K, NamesInv(K), UNCHANGED public_keys,
           \A m \in network' : m \in network \/ MessageNames(K, m)
    PROVE  NamesInv(K)'
<1>1. \A m \in network' : MessageNames(K, m)
  BY DEF NamesInv
<1> QED  BY <1>1 DEF NamesInv, Names

LEMMA RelayNames ==
    ASSUME NEW K, NEW n, NEW source, NEW chain, NEW keys, Names(K, keys),
           NEW m \in Relay(n, source, chain, keys)
    PROVE  MessageNames(K, m)
<1>1. PICK peer : m = NewBlock(n, peer, chain, keys)
  BY DEF Relay
<1>2. m.type = "NewBlock" /\ \A a \in Accounts : m.accounts[a] \in {NoKey, keys[a]}
  BY <1>1 DEF NewBlock
<1> QED  BY <1>2 DEF MessageNames, Names

LEMMA AskNames ==
    ASSUME NEW K, NEW n, NEW m
    PROVE  MessageNames(K, GetChain(n, m))
BY DEF GetChain, MessageNames

LEMMA DeliverNames ==
    ASSUME NEW K, NamesInv(K), PoolInv, NEW m \in network, Deliver(m)
    PROVE  NamesInv(K)'
<1> DEFINE n == m.to
<1>0. /\ n \in Nodes /\ Leader \in Accounts /\ MessageNames(K, m)
      /\ Names(K, public_keys[n]) /\ KeysOK
  BY NodeAssumption, OneSealerAssumption DEF NamesInv, PoolInv, LogInv, MessagesOK, MessageOK
<1>1. CASE IgnoreKnown(m) \/ RejectBlock(m) \/ KeepChain(m)
  BY <1>1, NamesRest DEF IgnoreKnown, RejectBlock, KeepChain, Consume, node
<1>2. CASE AskForChain(m)
  BY <1>2, AskNames, NamesRest DEF AskForChain, Consume, node
<1>3. CASE AnswerGetChain(m)
  <2> DEFINE answer == ChainMessage(n, m.from, SnapshotOf(n))
  <2>1. UNCHANGED public_keys /\ network' = (network \ {m}) \cup {answer}
    BY <1>3 DEF AnswerGetChain, Consume, node
  <2>2. MessageNames(K, answer)
    BY <1>0 DEF ChainMessage, SnapshotOf, MessageNames
  <2> QED  BY <2>1, <2>2, NamesRest
<1>4. CASE AppendBlock(m)
  <2> DEFINE keys == MergeBlockAccounts(public_keys[n], m.accounts, m.chain[Len(m.chain)])
  <2>1. /\ public_keys' = [public_keys EXCEPT ![n] = keys]
        /\ network' = (network \ {m}) \cup Relay(n, m.from, m.chain, keys)
        /\ m.type = "NewBlock"
    BY <1>4 DEF AppendBlock, Replace, Consume
  <2>2. Names(K, keys) /\ KeepsKeys(public_keys[n], keys)
    BY <1>0, <2>1 DEF MergeBlockAccounts, Names, MessageNames, KeepsKeys
  <2> HIDE DEF keys, n
  <2> QED  BY <1>0, <2>1, <2>2, RelayNames, NamesMove
<1>5. CASE AdoptChain(m)
  <2> DEFINE keys == MergeAccounts(public_keys[n], m.snapshot.accounts)
  <2>1. /\ public_keys' = [public_keys EXCEPT ![n] = keys]
        /\ network' = (network \ {m}) \cup Relay(n, m.from, m.snapshot.blocks, keys)
        /\ m.type = "Chain"
    BY <1>5 DEF AdoptChain, Replace, Consume
  <2>2. Names(K, keys) /\ KeepsKeys(public_keys[n], keys)
    BY <1>0, <2>1 DEF MergeAccounts, Names, MessageNames, KeepsKeys
  <2> HIDE DEF keys, n
  <2> QED  BY <1>0, <2>1, <2>2, RelayNames, NamesMove
<1> QED  BY <1>1, <1>2, <1>3, <1>4, <1>5 DEF Deliver

LEMMA SealNames ==
    ASSUME NEW K, NamesInv(K), PoolInv, NEW n \in Nodes, Seal(n)
    PROVE  NamesInv(K)'
<1>1. PICK b \in Block :
        /\ Replace(n, Append(blocks[n], b), public_keys[n], {Leader})
        /\ \/ network' = network
           \/ network' = network \cup Relay(n, n, Append(blocks[n], b), public_keys[n])
  BY Sealed DEF PoolInv
<1>2. UNCHANGED public_keys
  BY <1>1 DEF Replace, PoolInv, KeysOK
<1>3. Names(K, public_keys[n])
  BY DEF NamesInv
<1> QED  BY <1>1, <1>2, <1>3, RelayNames, NamesRest

-----------------------------------------------------------------------------
LEMMA LogGrows ==
    ASSUME LogInv, LogInv', [Log!LogNext]_blocks
    PROVE  /\ \A n \in Nodes : Len(blocks[n]) \in Nat /\ Len(blocks'[n]) \in Nat
           /\ \A n \in Nodes : Len(blocks[n]) <= Len(blocks'[n])
           /\ \A k \in 1 .. Len(blocks[Leader]) :
                SubSeq(blocks'[Leader], 1, k) = SubSeq(blocks[Leader], 1, k)
<1>1. /\ blocks \in [Nodes -> Seq(Block)] /\ blocks' \in [Nodes -> Seq(Block)]
      /\ Leader \in Nodes
  BY LeaderType DEF LogInv, NodesOK
<1>2. \A n \in Nodes : Len(blocks[n]) \in Nat /\ Len(blocks'[n]) \in Nat
  BY <1>1
<1>3. CASE UNCHANGED blocks
  BY <1>2, <1>3
<1>4. CASE Log!Write
  <2> DEFINE log == blocks'[Leader]
             old == blocks[Leader]
  <2>1. /\ Len(log) = Len(old) + 1 /\ SubSeq(log, 1, Len(old)) = old
        /\ blocks' = [blocks EXCEPT ![Leader] = log]
    BY <1>4 DEF Log!Write
  <2>2. \A n \in Nodes \ {Leader} : blocks'[n] = blocks[n]
    BY <1>1, <2>1
  <2>3. old \in Seq(Block) /\ log \in Seq(Block)
    BY <1>1
  <2>4. \A n \in Nodes : Len(blocks[n]) <= Len(blocks'[n])
    <3> SUFFICES ASSUME NEW n \in Nodes PROVE Len(blocks[n]) <= Len(blocks'[n])
      OBVIOUS
    <3>1. CASE n = Leader
      <4>1. Len(old) \in Nat /\ blocks'[n] = log /\ blocks[n] = old
        BY <1>2, <3>1
      <4> HIDE DEF log, old
      <4> QED  BY <2>1, <4>1
    <3>2. CASE n # Leader
      BY <1>2, <2>2, <3>2
    <3> QED  BY <3>1, <3>2
  <2> HIDE DEF log, old
  <2>5. \A k \in 1 .. Len(old) : SubSeq(log, 1, k) = SubSeq(SubSeq(log, 1, Len(old)), 1, k)
    BY <2>1, <2>3
  <2>6. \A k \in 1 .. Len(old) : SubSeq(log, 1, k) = SubSeq(old, 1, k)
    BY <2>1, <2>5
  <2> QED  BY <1>2, <2>4, <2>6 DEF log, old
<1>5. ASSUME NEW n \in Nodes \ {Leader}, NEW k \in DOMAIN blocks[Leader], Log!Learn(n, k)
      PROVE  /\ \A i \in Nodes : Len(blocks[i]) <= Len(blocks'[i])
             /\ blocks'[Leader] = blocks[Leader]
  <2>1. /\ Len(blocks[n]) < k
        /\ blocks' = [blocks EXCEPT ![n] = SubSeq(blocks[Leader], 1, k)]
    BY <1>5 DEF Log!Learn
  <2>2. \A i \in Nodes \ {n} : blocks'[i] = blocks[i]
    BY <1>1, <2>1
  <2>3. blocks'[n] = SubSeq(blocks[Leader], 1, k)
    BY <1>1, <2>1
  <2>4. Len(blocks'[n]) = k /\ k \in Nat
    BY <1>1, <2>3
  <2> QED  BY <1>1, <1>2, <2>1, <2>2, <2>4
<1> QED  BY <1>2, <1>3, <1>4, <1>5 DEF Log!LogNext

\* The next in line, when it is offered.
LEMMA LineBacked ==
    ASSUME PoolInv', ReceiptsHold', NEW n \in Nodes, NEW m \in Nodes, NEW t, InLine(n, m, t)
    PROVE  /\ t \in Txs /\ t.sender # Mint /\ t.wellFormed /\ Signed(public_keys'[n], t)
           /\ Backed(n, m, t)'
<1> DEFINE S == mempool'[n]
           a == t.sender
           k == Len(blocks'[n])
           chain == SubSeq(blocks'[Leader], 1, k)
           st == StateAfter(InitialState, chain)
           W == QueuedBy(S, a)
<1>1. /\ S \in SUBSET Txs /\ IsFiniteSet(S) /\ t \in S
      /\ Admitted(public_keys'[n], State(n)', S)
  BY DEF PoolInv, LogInv, NodesOK, PoolsOK, Admitted, InLine
<1>2. k \in 1 .. Len(blocks'[n]) /\ chain = blocks'[n]
  <2>1. Piece(blocks'[Leader], blocks'[n])
    BY DEF PoolInv, LogInv, ChainsOK, Piece
  <2> QED  BY <2>1 DEF Piece
<1>3. State(n)' = st
  BY <1>2 DEF State
<1>4. t \in Txs /\ a \in Accounts
  BY <1>1, TxFields
<1>5. t.sender # Mint /\ t.wellFormed /\ Signed(public_keys'[n], t)
  BY <1>1 DEF Admitted
<1>6. IsRun(W, st.nonces[a]) /\ TotalAmount(W) <= st.balances[a]
  <2> HIDE DEF S, st, a
  <2> QED  BY <1>1, <1>3, <1>4 DEF Admitted
<1>7. ASSUME NEW u \in W, u.nonce < t.nonce PROVE Held(m, u)'
  <2>1. <<n, m, u>> \in known'
    BY <1>7 DEF InLine
  <2> QED  BY <2>1 DEF ReceiptsHold, Held
<1>8. Backed(n, m, t)'
  <2> HIDE DEF W, S, k
  <2> QED  BY <1>1, <1>2, <1>6, <1>7 DEF Backed, W
<1> QED  BY <1>4, <1>5, <1>8

\* drive asks for nothing but the next in line.
LEMMA DriveOffers ==
    ASSUME NEW K, PoolInv', ReceiptsHold', NamesInv(K)', NEW N \in SUBSET Nodes,
           NEW msgs, \A q \in msgs : PacketOK(q) /\ Offer(K, q)',
           NEW receipts, NEW deferred, NEW asked, Drive(N, msgs, receipts, deferred, asked)
    PROVE  \A r \in gossip' : Offer(K, r)'
<1>1. ASSUME NEW q \in msgs, NEW r, r = Checked(N, q) PROVE Offer(K, r)'
  <2>1. /\ {"type", "asker", "peer", "tx", "awaited"} \subseteq DOMAIN q
        /\ q.type = "Request" => {"genesis", "key"} \subseteq DOMAIN q
    BY DEF PacketOK
  <2>2. /\ r.type = q.type /\ r.asker = q.asker /\ r.peer = q.peer /\ r.tx = q.tx
        /\ q.type = "Request" => r.genesis = q.genesis /\ r.key = q.key
    BY <1>1, <2>1 DEF Checked
  <2>3. Offer(K, q)'
    OBVIOUS
  <2> QED  BY <2>2, <2>3 DEF Offer, Backed, Held
<1>2. ASSUME NEW n \in Nodes, NEW m \in Nodes, NEW t, InLine(n, m, t),
             NEW r, r = Request(n, m, t)
      PROVE  Offer(K, r)'
  <2>1. /\ r.asker = n /\ r.peer = m /\ r.tx = t
        /\ r.genesis = GenesisOf(n) /\ r.key = public_keys'[n][t.sender]
    BY <1>2 DEF Request
  <2>2. /\ t \in Txs /\ t.sender # Mint /\ t.wellFormed /\ Signed(public_keys'[n], t)
        /\ Backed(n, m, t)'
    BY <1>2, LineBacked
  <2>3. GenesisOf(n) = GenesisOf(Leader) /\ t.sender \in Accounts
    BY <2>2, GenesisBlock, TxFields
  <2>4. r.key # NoKey /\ r.key = t.key /\ r.key \in {NoKey, K[t.sender]}
    BY <2>1, <2>2, <2>3 DEF Signed, NamesInv, Names
  <2> QED  BY <2>1, <2>2, <2>3, <2>4 DEF Offer
<1>3. NodesOK'
  BY DEF PoolInv, LogInv
<1> SUFFICES ASSUME NEW r \in gossip' PROVE Offer(K, r)'
  OBVIOUS
<1>4. CASE \E q \in msgs : r = Checked(N, q) /\ (r.type = "Response" => r.awaited)
  BY <1>1, <1>4
<1>5. CASE \E n \in N, m \in Nodes : \E t : InLine(n, m, t) /\ r = Request(n, m, t)
  BY <1>2, <1>5
<1> QED  BY <1>3, <1>4, <1>5, DriveMessages

LEMMA StillBacked ==
    ASSUME PoolInv, LogInv', [Log!LogNext]_blocks, NEW n \in Nodes, NEW m, NEW t,
           \A u \in Txs : Held(m, u) => Held(m, u)', Backed(n, m, t)
    PROVE  Backed(n, m, t)'
<1> DEFINE st(k) == StateAfter(InitialState, SubSeq(blocks[Leader], 1, k))
           su(k) == StateAfter(InitialState, SubSeq(blocks'[Leader], 1, k))
<1>1. PICK k \in 1 .. Len(blocks[n]), S \in SUBSET Txs :
        LET W == QueuedBy(S, t.sender)
        IN  /\ IsFiniteSet(S) /\ t \in S
            /\ IsRun(W, st(k).nonces[t.sender]) /\ TotalAmount(W) <= st(k).balances[t.sender]
            /\ \A u \in W : u.nonce < t.nonce => Held(m, u)
  BY DEF Backed
<1>2. k \in 1 .. Len(blocks'[n]) /\ su(k) = st(k)
  <2>1. /\ Len(blocks[n]) \in Nat /\ Len(blocks'[n]) \in Nat /\ Len(blocks[n]) <= Len(blocks'[n])
        /\ \A i \in 1 .. Len(blocks[Leader]) :
             SubSeq(blocks'[Leader], 1, i) = SubSeq(blocks[Leader], 1, i)
    BY LogGrows DEF PoolInv
  <2>2. Len(blocks[n]) \in 1 .. Len(blocks[Leader]) /\ Len(blocks[Leader]) \in Nat
    BY LeaderType DEF PoolInv, LogInv, ChainsOK, Piece
  <2>3. k \in 1 .. Len(blocks[Leader]) /\ k \in 1 .. Len(blocks'[n])
    BY <2>1, <2>2
  <2> QED  BY <2>1, <2>3
<1>3. \A u \in QueuedBy(S, t.sender) : u.nonce < t.nonce => Held(m, u)'
  BY <1>1 DEF QueuedBy
<1> QED  BY <1>1, <1>2, <1>3 DEF Backed

\* Where nothing is let go of, an offer stays what it was.
LEMMA StillOffered ==
    ASSUME NEW K, OfferInv(K), LogInv', [Log!LogNext]_blocks,
           NEW M, \A m \in M : \A u \in Txs : Held(m, u) => Held(m, u)'
    PROVE  \A q \in gossip : PacketOK(q) /\ (q.peer \in M => Offer(K, q)')
<1> SUFFICES ASSUME NEW q \in gossip PROVE PacketOK(q) /\ (q.peer \in M => Offer(K, q)')
  OBVIOUS
<1>1. PacketOK(q) /\ q.asker \in Nodes /\ Offer(K, q) /\ PoolInv
  BY DEF OfferInv, ServeInv, GossipInv, PacketsOK, PacketOK
<1>2. ASSUME q.peer \in M, q.type = "Request" PROVE Backed(q.asker, q.peer, q.tx)'
  <2>1. Backed(q.asker, q.peer, q.tx)
    BY <1>1, <1>2 DEF Offer
  <2> QED  BY <1>1, <1>2, <2>1, StillBacked
<1>3. q.peer \in M => Offer(K, q)'
  BY <1>1, <1>2 DEF Offer
<1> QED  BY <1>1, <1>3

\* What drive leaves are the offers that still stand, and new ones.
LEMMA OfferDrives ==
    ASSUME NEW K, OfferInv(K), ServeInv', NamesInv(K)', [Log!LogNext]_blocks,
           NEW M, \A m \in M : \A u \in Txs : Held(m, u) => Held(m, u)',
           NEW N \in SUBSET Nodes, NEW msgs,
           \A q \in msgs : (q \in gossip /\ q.peer \in M) \/ (PacketOK(q) /\ Offer(K, q)'),
           NEW receipts, NEW deferred, NEW asked, Drive(N, msgs, receipts, deferred, asked)
    PROVE  OfferInv(K)'
<1>1. PoolInv' /\ LogInv' /\ ReceiptsHold'
  BY DEF ServeInv, PoolInv
<1>2. \A q \in gossip : PacketOK(q) /\ (q.peer \in M => Offer(K, q)')
  BY <1>1, StillOffered
<1>3. \A q \in msgs : PacketOK(q) /\ Offer(K, q)'
  BY <1>2
<1>4. \A r \in gossip' : Offer(K, r)'
  BY <1>1, <1>3, DriveOffers
<1> QED  BY <1>4 DEF OfferInv

\* A step of Sync that restarts nobody, followed by drive.
LEMMA SyncOffers ==
    ASSUME NEW K, HonestClients, OfferInv(K), ServeInv', NamesInv(K)', [Log!LogNext]_blocks,
           \/ \E n \in Nodes : Seal(n)
           \/ \E m \in network : Deliver(m)
           \/ UNCHANGED node,
           NEW N \in SUBSET Nodes, NEW msgs \in SUBSET gossip,
           NEW receipts, NEW deferred, NEW asked, Drive(N, msgs, receipts, deferred, asked)
    PROVE  OfferInv(K)'
<1>1. PoolInv /\ LogInv'
  BY DEF OfferInv, ServeInv, PoolInv
<1>2. \A m \in Nodes : \A u \in Txs : Held(m, u) => Held(m, u)'
  BY <1>1, SyncHolds
<1>3. \A q \in msgs : q \in gossip /\ q.peer \in Nodes
  BY DEF OfferInv, ServeInv, GossipInv, PacketsOK, PacketOK
<1> QED  BY <1>2, <1>3, OfferDrives

\* A step after which drive does not look.
LEMMA IdleOffers ==
    ASSUME NEW K, HonestClients, OfferInv(K), ServeInv', NamesInv(K)', [Log!LogNext]_blocks,
           UNCHANGED gossip,
           (\E n \in Nodes : \E t \in Clients[n] : Submit(n, t)) \/ UNCHANGED node
    PROVE  OfferInv(K)'
<1>1. PoolInv /\ LogInv'
  BY DEF OfferInv, ServeInv, PoolInv
<1>2. \A m \in Nodes : \A u \in Txs : Held(m, u) => Held(m, u)'
  BY <1>1, SyncHolds
<1>3. \A q \in gossip : Offer(K, q)'
  <2>1. \A q \in gossip : q.peer \in Nodes
    BY DEF OfferInv, ServeInv, GossipInv, PacketsOK, PacketOK
  <2> QED  BY <1>1, <1>2, <2>1, StillOffered
<1> QED  BY <1>3 DEF OfferInv

\* The key a request brings is the one its sender has everywhere.
LEMMA RequestOffers ==
    ASSUME NEW K, HonestClients, OfferInv(K), ServeInv', [Log!LogNext]_blocks,
           NEW r \in gossip, ReceiveRequest(r)
    PROVE  OfferInv(K)'
<1> DEFINE n == r.peer
           answer == Answer(n, r)
           keys == KeysWith(n, r)
           msgs == (gossip \ {r}) \cup {Response(r, answer)}
<1>0. /\ PacketOK(r) /\ n \in Nodes /\ r.tx.sender \in Accounts /\ Leader \in Accounts
      /\ LogInv' /\ KeysOK /\ NamesInv(K) /\ r.type = "Request" /\ ServeInv
      /\ Offer(K, r)
  BY TxFields, NodeAssumption, OneSealerAssumption
     DEF OfferInv, ServeInv, GossipInv, PoolInv, PacketsOK, PacketOK, ReceiveRequest
<1>1. \A m \in Nodes : \A u \in Txs : Held(m, u) => Held(m, u)'
  BY <1>0, RequestAnswered
<1>2. NamesInv(K)'
  <2>0. network' = network
    BY DEF ReceiveRequest
  <2>1. CASE answer = "Accepted"
    <3>1. public_keys' = [public_keys EXCEPT ![n] = keys]
      BY <2>1 DEF ReceiveRequest
    <3>2. r.key = K[r.tx.sender] /\ Names(K, public_keys[n])
      BY <1>0 DEF Offer, NamesInv
    <3>3. public_keys[n] = [a \in Accounts |-> public_keys[n][a]]
      BY <1>0 DEF KeysOK
    <3>4. Names(K, keys) /\ KeepsKeys(public_keys[n], keys)
      BY <3>2, <3>3 DEF KeysWith, Names, KeepsKeys
    <3> HIDE DEF keys, n
    <3> QED  BY <1>0, <2>0, <3>1, <3>4, NamesMove
  <2>2. CASE answer # "Accepted"
    <3>1. UNCHANGED public_keys
      BY <2>2 DEF ReceiveRequest
    <3> QED  BY <1>0, <2>0, <3>1, NamesRest
  <2> QED  BY <2>1, <2>2
<1>3. ASSUME NEW q, q = Response(r, answer) PROVE PacketOK(q) /\ Offer(K, q)'
  <2>1. q.type = "Response"
    BY <1>3 DEF Response
  <2>2. PacketOK(q)
    <3> HIDE DEF answer
    <3> QED  BY <1>0, <1>3, AnswerOK
  <2> QED  BY <2>1, <2>2 DEF Offer
<1>4. \A q \in gossip : q.peer \in Nodes
  BY <1>0 DEF ServeInv, GossipInv, PacketsOK, PacketOK
<1>5. \A q \in msgs : (q \in gossip /\ q.peer \in Nodes) \/ (PacketOK(q) /\ Offer(K, q)')
  <2> HIDE DEF answer
  <2> QED  BY <1>3, <1>4
<1>6. Drive({n}, msgs, known, retry_after, chain_sync_after)
  BY DEF ReceiveRequest
<1> HIDE DEF msgs, n
<1> QED  BY <1>0, <1>1, <1>2, <1>5, <1>6, OfferDrives

LEMMA ResponseOffers ==
    ASSUME NEW K, HonestClients, OfferInv(K), ServeInv', [Log!LogNext]_blocks,
           NEW r \in gossip, ReceiveResponse(r)
    PROVE  OfferInv(K)'
<1> DEFINE n == r.asker
           m == r.peer
           receipt == IF Acknowledges(r) THEN {<<n, m, r.tx>>} ELSE {}
           later   == IF r.awaited /\ ~ Acknowledges(r) THEN {<<n, m, r.tx>>} ELSE {}
           asked   == IF AsksAfter(r) THEN {<<n, m>>} ELSE {}
<1>1. /\ UNCHANGED node
      /\ network' = network \cup {GetChain(e[1], e[2]) : e \in asked}
      /\ Drive({n}, gossip \ {r}, known \cup receipt, retry_after \cup later,
               chain_sync_after \cup asked)
  BY DEF ReceiveResponse
<1>2. n \in Nodes
  BY DEF OfferInv, ServeInv, GossipInv, PacketsOK, PacketOK
<1> HIDE DEF receipt, later, asked, n, m
<1>3. \A a \in network' : a \in network \/ MessageNames(K, a)
  BY <1>1, AskNames
<1>4. NamesInv(K)'
  BY <1>1, <1>3, NamesRest DEF OfferInv, node
<1> QED  BY <1>1, <1>2, <1>4, SyncOffers

\* What a failed request leaves under way still asks for the same.
LEMMA FailOffers ==
    ASSUME NEW K, HonestClients, OfferInv(K), ServeInv', [Log!LogNext]_blocks,
           NEW r \in gossip, Fail(r)
    PROVE  OfferInv(K)'
<1>1. PICK late \in {{}, {[r EXCEPT !.awaited = FALSE]}} :
         Drive({r.asker}, (gossip \ {r}) \cup late, known,
               retry_after \cup {<<r.asker, r.peer, r.tx>>}, chain_sync_after)
  BY DEF Fail
<1>2. /\ PoolInv /\ LogInv' /\ UNCHANGED <<node, network>>
      /\ \A q \in gossip : PacketOK(q) /\ q.peer \in Nodes
  BY DEF Fail, OfferInv, ServeInv, PoolInv, GossipInv, PacketsOK, PacketOK
<1>3. NamesInv(K)'
  BY <1>2, NamesRest DEF OfferInv, node
<1>4. \A m \in Nodes : \A u \in Txs : Held(m, u) => Held(m, u)'
  BY <1>2, SyncHolds
<1>5. Offer(K, r)'
  BY <1>2, <1>4, StillOffered
<1>6. ASSUME NEW q \in late PROVE PacketOK(q) /\ Offer(K, q)'
  <2>1. q = [r EXCEPT !.awaited = FALSE] /\ PacketOK(r)
    BY <1>2
  <2>2. /\ {"type", "asker", "peer", "tx", "awaited"} \subseteq DOMAIN r
        /\ r.type = "Request" => {"genesis", "key"} \subseteq DOMAIN r
    BY <2>1 DEF PacketOK
  <2>3. /\ q.type = r.type /\ q.asker = r.asker /\ q.peer = r.peer /\ q.tx = r.tx
        /\ r.type = "Request" => q.genesis = r.genesis /\ q.key = r.key
    BY <2>1, <2>2
  <2>4. PacketOK(q)
    BY <2>1 DEF PacketOK
  <2> QED  BY <1>5, <2>3, <2>4 DEF Offer, Backed, Held
<1>7. r.asker \in Nodes
  BY <1>2 DEF PacketOK
<1>8. \A q \in (gossip \ {r}) \cup late :
         (q \in gossip /\ q.peer \in Nodes) \/ (PacketOK(q) /\ Offer(K, q)')
  BY <1>2, <1>6
<1> QED  BY <1>1, <1>3, <1>4, <1>7, <1>8, OfferDrives

\* A node that starts again has forgotten no key, and what it was asked has
\* gone with its links.
LEMMA RestartOffers ==
    ASSUME NEW K, HonestClients, OfferInv(K), ServeInv', [Log!LogNext]_blocks,
           NEW n \in Nodes, RestartHere(n)
    PROVE  OfferInv(K)'
<1> DEFINE msgs == {r \in gossip : {r.asker, r.peer} \in connected'}
<1>1. /\ Restart(n) /\ Drive(Nodes, msgs, known, retry_after, chain_sync_after)
      /\ connected' = connected \ {l \in connected : n \in l}
      /\ network' \subseteq network
  BY DEF RestartHere, DriveAfterCut, Restart, Cut
<1>2. PoolInv /\ LogInv' /\ Forgets(n)
  BY <1>1 DEF Restart, Forgets, OfferInv, ServeInv, GossipInv, PoolInv, LogInv, NodesOK
<1>3. /\ \A m \in Nodes \ {n} : \A u \in Txs : Held(m, u) => Held(m, u)'
      /\ UNCHANGED public_keys
  BY <1>2, ForgetsKeeps
<1>4. NamesInv(K)'
  BY <1>1, <1>3, NamesRest DEF OfferInv
<1>5. \A q \in msgs : q \in gossip /\ q.peer \in Nodes \ {n}
  BY <1>1 DEF OfferInv, ServeInv, GossipInv, PacketsOK, PacketOK
<1> HIDE DEF msgs
<1> QED  BY <1>1, <1>3, <1>4, <1>5, OfferDrives

LEMMA OfferStep ==
    ASSUME NEW K, HonestClients, OfferInv(K), [GossipNext]_gossipVars
    PROVE  OfferInv(K)'
<1>0. /\ GossipInv /\ PoolInv /\ ServeInv' /\ NamesInv(K) /\ [Log!LogNext]_blocks
      /\ \A r \in gossip : r.asker \in Nodes /\ r.peer \in Nodes
  BY GossipStep, ServeStep DEF OfferInv, ServeInv, GossipInv, PacketsOK, PacketOK
<1>1. ASSUME NEW n \in Nodes, NEW t \in Clients[n], SubmitHere(n, t) PROVE OfferInv(K)'
  <2>1. Submit(n, t) /\ UNCHANGED <<public_keys, network, gossip>>
    BY <1>1 DEF SubmitHere, Submit
  <2>2. NamesInv(K)'
    BY <1>0, <2>1, NamesRest
  <2> QED  BY <1>0, <2>1, <2>2, IdleOffers
<1>2. ASSUME NEW n \in Nodes, SealHere(n) PROVE OfferInv(K)'
  <2>1. Seal(n) /\ NamesInv(K)'
    BY <1>0, <1>2, SealNames DEF SealHere
  <2> QED  BY <1>0, <1>2, <2>1, SyncOffers DEF SealHere, DriveOnly
<1>3. ASSUME NEW m \in network, ReceiveSync(m) PROVE OfferInv(K)'
  <2>1. m.to \in Nodes
    BY <1>0 DEF GossipInv, LogInv, MessagesOK, MessageOK
  <2>2. Deliver(m) /\ NamesInv(K)'
    BY <1>0, <1>3, DeliverNames DEF ReceiveSync
  <2> QED  BY <1>0, <1>3, <2>1, <2>2, SyncOffers DEF ReceiveSync, DriveOnly
<1>4. ASSUME NEW r \in gossip, ReceiveRequest(r) PROVE OfferInv(K)'
  BY <1>0, <1>4, RequestOffers
<1>5. ASSUME NEW r \in gossip, ReceiveResponse(r) PROVE OfferInv(K)'
  BY <1>0, <1>5, ResponseOffers
<1>6. ASSUME NEW r \in gossip, Fail(r) PROVE OfferInv(K)'
  BY <1>0, <1>6, FailOffers
<1>7. ASSUME NEW k \in known \cup retry_after, Expire(k) PROVE OfferInv(K)'
  <2>1. k[1] \in Nodes
    BY <1>0 DEF GossipInv, DeadlinesOK
  <2>2. /\ UNCHANGED <<node, public_keys, network>>
        /\ Drive({k[1]}, gossip, known \ {k}, retry_after \ {k}, chain_sync_after)
    BY <1>7 DEF Expire, vars, node
  <2>3. NamesInv(K)'
    BY <1>0, <2>2, NamesRest
  <2> QED  BY <1>0, <2>1, <2>2, <2>3, SyncOffers
<1>8. ASSUME NEW a \in chain_sync_after, MayAskAgain(a) PROVE OfferInv(K)'
  <2>1. UNCHANGED <<node, public_keys, network, gossip>>
    BY <1>8 DEF MayAskAgain, vars, node
  <2>2. NamesInv(K)'
    BY <1>0, <2>1, NamesRest
  <2> QED  BY <1>0, <2>1, <2>2, IdleOffers
<1>9. ASSUME NEW n \in Nodes, Tick(n) PROVE OfferInv(K)'
  <2>1. /\ UNCHANGED <<node, public_keys, network>>
        /\ Drive({n}, gossip, known, retry_after, chain_sync_after)
    BY <1>9 DEF Tick, DriveOnly, vars, node
  <2>2. NamesInv(K)'
    BY <1>0, <2>1, NamesRest
  <2> QED  BY <1>0, <2>1, <2>2, SyncOffers
<1>10. ASSUME NEW n \in Nodes, NEW m \in Nodes, Established(n, m) PROVE OfferInv(K)'
  <2>1. /\ UNCHANGED <<node, public_keys>>
        /\ network' = network \cup {GetChain(n, m), GetChain(m, n)}
        /\ Drive({n, m}, gossip, known, retry_after, chain_sync_after)
    BY <1>10 DEF Established, Connect, DriveOnly, node
  <2>2. \A a \in network' : a \in network \/ MessageNames(K, a)
    BY <2>1, AskNames
  <2>3. NamesInv(K)'
    BY <1>0, <2>1, <2>2, NamesRest
  <2> QED  BY <1>0, <2>1, <2>3, SyncOffers
<1>11. ASSUME NEW m \in network, SyncFailure(m) PROVE OfferInv(K)'
  <2>1. m.to \in Nodes /\ m.from \in Nodes
    BY <1>0 DEF GossipInv, LogInv, MessagesOK, MessageOK
  <2>2. /\ UNCHANGED <<node, public_keys>> /\ network' \subseteq network
        /\ Drive({m.from, m.to}, gossip, known, retry_after, chain_sync_after)
    BY <1>11 DEF SyncFailure, Lose, Consume, DriveOnly, node
  <2>3. NamesInv(K)'
    BY <1>0, <2>2, NamesRest
  <2> QED  BY <1>0, <2>1, <2>2, <2>3, SyncOffers
<1>12. ASSUME NEW link \in connected, Closed(link) PROVE OfferInv(K)'
  <2>1. /\ UNCHANGED <<node, public_keys>> /\ network' \subseteq network
        /\ DriveAfterCut
    BY <1>12 DEF Closed, Disconnect, Cut, node
  <2>2. NamesInv(K)'
    BY <1>0, <2>1, NamesRest
  <2> QED  BY <1>0, <2>1, <2>2, SyncOffers DEF DriveAfterCut
<1>13. ASSUME NEW n \in Nodes, RestartHere(n) PROVE OfferInv(K)'
  BY <1>0, <1>13, RestartOffers
<1>14. CASE UNCHANGED gossipVars
  <2>1. UNCHANGED <<node, public_keys, network, gossip>>
    BY <1>14 DEF gossipVars, vars, node
  <2>2. NamesInv(K)'
    BY <1>0, <2>1, NamesRest
  <2> QED  BY <1>0, <2>1, <2>2, IdleOffers
<1> QED
  BY <1>1, <1>2, <1>3, <1>4, <1>5, <1>6, <1>7, <1>8, <1>9, <1>10, <1>11, <1>12, <1>13, <1>14
  DEF GossipNext

LEMMA OfferBegins ==
    ASSUME NEW K, OneKeyEach(K), GossipInit
    PROVE  OfferInv(K)
<1> DEFINE keys(n) == StartKeys(n, InitialAuthorities[n], InitialKeys[n])
<1>1. /\ ServeInv /\ gossip = {} /\ network = {}
      /\ public_keys = [n \in Nodes |-> keys(n)]
  BY ServeBegins DEF GossipInit, Init
<1>2. ASSUME NEW n \in Nodes PROVE Names(K, keys(n)) /\ keys(n)[Leader] # NoKey
  <2>1. /\ InitialKeys[n] \in KeyMap /\ InitialAuthorities[n] = {Leader}
        /\ Leader \in Accounts /\ SealKey[Leader] # NoKey
    BY NodeAssumption, OneSealerAssumption, KeyAssumption
  <2>2. /\ \A a \in Accounts : InitialKeys[n][a] \in {NoKey, K[a]}
        /\ InitialKeys[n][Leader] # NoKey /\ K[Leader] = SealKey[Leader]
    BY DEF OneKeyEach
  <2>3. InitialKeys[n] = [a \in Accounts |-> InitialKeys[n][a]]
    BY <2>1 DEF KeyMap
  <2>4. CASE n = Leader
    <3>1. keys(n) = [InitialKeys[n] EXCEPT ![Leader] = K[Leader]]
      BY <2>1, <2>2, <2>4 DEF StartKeys
    <3> HIDE DEF keys
    <3>2. \A a \in Accounts : keys(n)[a] = IF a = Leader THEN K[a] ELSE InitialKeys[n][a]
      BY <2>3, <3>1
    <3> QED  BY <2>1, <2>2, <3>2 DEF Names
  <2>5. CASE n # Leader
    <3>1. keys(n) = InitialKeys[n]
      BY <2>1, <2>5 DEF StartKeys
    <3> QED  BY <2>2, <3>1 DEF Names
  <2> QED  BY <2>4, <2>5
<1> HIDE DEF keys
<1>3. NamesInv(K)
  BY <1>1, <1>2 DEF NamesInv
<1> QED  BY <1>1, <1>3 DEF OfferInv

-----------------------------------------------------------------------------
\* A peer with all the blocks of the asker takes what it is offered, or has it.
LEMMA OfferTaken ==
    ASSUME NEW K, HonestClients, OfferInv(K), NEW r \in gossip, r.type = "Request",
           ~ (Len(blocks[r.peer]) < Len(blocks[r.asker]))
    PROVE  Answer(r.peer, r) # "Rejected"
<1> DEFINE n == r.peer
           t == r.tx
           keys == KeysWith(n, r)
           log == blocks[Leader]
<1>0. /\ n \in Nodes /\ r.asker \in Nodes /\ t \in Txs /\ t.sender \in Accounts
      /\ PoolInv /\ Leader \in Nodes /\ Leader \in Accounts /\ authorities[n] = {Leader}
  BY TxFields, NodeAssumption, OneSealerAssumption
     DEF OfferInv, ServeInv, GossipInv, PacketsOK, PacketOK, PoolInv, LogInv, NodesOK
<1>1. /\ r.genesis = GenesisOf(Leader) /\ r.key = K[t.sender]
      /\ t.sender # Mint /\ t.wellFormed /\ r.key # NoKey /\ r.key = t.key
      /\ Backed(r.asker, n, t)
  BY DEF OfferInv, Offer
<1>2. /\ Names(K, public_keys[n]) /\ public_keys[n][Leader] # NoKey
      /\ public_keys[n] = [a \in Accounts |-> public_keys[n][a]]
  BY <1>0 DEF OfferInv, NamesInv, PoolInv, KeysOK
<1>3. keys[t.sender] = r.key
  BY <1>0, <1>1, <1>2 DEF KeysWith, Names
<1>4. ~ Untrusted(n, r) /\ Signed(keys, t)
  <2>1. GenesisOf(n) = GenesisOf(Leader)
    BY <1>0, GenesisBlock
  <2>2. public_keys[n][t.sender] = NoKey => t.sender \notin authorities[n]
    BY <1>0, <1>2
  <2> QED  BY <1>1, <1>3, <2>1, <2>2 DEF Untrusted, Signed
<1>5. PICK k \in 1 .. Len(blocks[r.asker]), S \in SUBSET Txs :
        LET st == StateAfter(InitialState, SubSeq(log, 1, k))
            W  == QueuedBy(S, t.sender)
        IN  /\ IsFiniteSet(S) /\ t \in S
            /\ IsRun(W, st.nonces[t.sender]) /\ TotalAmount(W) <= st.balances[t.sender]
            /\ \A u \in W : u.nonce < t.nonce => Held(n, u)
  BY <1>1 DEF Backed
<1> DEFINE bs == SubSeq(log, 1, k)
           cs == blocks[n]
<1>6. /\ cs \in Seq(Block) /\ Piece(log, cs)
      /\ TransactionsApply(public_keys[Leader], {}, InitialState, cs)
      /\ mempool[n] \in SUBSET Txs /\ IsFiniteSet(mempool[n])
      /\ Admitted(public_keys[n], StateAfter(InitialState, cs), mempool[n])
  BY <1>0, NodeFacts DEF State
<1>7. /\ log \in Seq(Block) /\ Len(log) \in Nat
      /\ Piece(log, blocks[r.asker]) /\ blocks[r.asker] \in Seq(Block)
  BY <1>0, NodeFacts
<1>8. k \in 1 .. Len(log) /\ k <= Len(cs)
  <2>1. Len(cs) \in Nat /\ Len(blocks[r.asker]) \in Nat
    BY <1>6, <1>7
  <2>2. Len(blocks[r.asker]) \in 1 .. Len(log)
    BY <1>7 DEF Piece
  <2> HIDE DEF log
  <2> QED  BY <1>7, <2>1, <2>2
<1>9. bs \in Seq(Block) /\ Len(bs) = k /\ Piece(log, bs)
  <2> HIDE DEF log
  <2>1. bs \in Seq(Block) /\ Len(bs) = k
    BY <1>7, <1>8
  <2> QED  BY <1>8, <2>1 DEF Piece
<1>10. Prolongs(cs, bs)
  <2> HIDE DEF log, bs, cs
  <2> QED  BY <1>6, <1>7, <1>8, <1>9, PieceProlongs
<1>11. TransactionsApply(public_keys[Leader], {}, InitialState, bs)
  BY <1>0, <1>9, PieceValid DEF PoolInv
<1>12. ASSUME Id(t) \notin Ids(cs), ~ \E u \in mempool[n] : Id(u) = Id(t)
       PROVE  ~ Refused(keys, Ids(cs), StateAfter(InitialState, cs), mempool[n], t)
  <2>1. \A u \in QueuedBy(S, t.sender) :
          u.nonce < t.nonce => u \in mempool[n] \/ Id(u) \in Ids(cs)
    BY <1>5 DEF Held
  <2>2. /\ IsRun(QueuedBy(S, t.sender), StateAfter(InitialState, bs).nonces[t.sender])
        /\ TotalAmount(QueuedBy(S, t.sender)) <= StateAfter(InitialState, bs).balances[t.sender]
        /\ IsFiniteSet(S) /\ t \in S
    BY <1>5
  <2>3. \A u \in mempool[n] : Id(u) # Id(t)
    BY <1>12
  <2> HIDE DEF bs, cs, keys, t, n
  <2> QED
    BY <1>1, <1>4, <1>6, <1>9, <1>10, <1>11, <1>12, <2>1, <2>2, <2>3, InLineIsWelcome DEF n, t
<1> QED  BY <1>1, <1>4, <1>12 DEF Answer, State

\* drive makes up no answer.
LEMMA NoAnswerMadeUp ==
    ASSUME GossipInv, NodesOK', NEW N \in SUBSET Nodes, NEW msgs \in SUBSET gossip,
           NEW receipts, NEW deferred, NEW asked, Drive(N, msgs, receipts, deferred, asked)
    PROVE  \A r \in gossip' \ gossip : r.type # "Response"
<1>1. \A q \in msgs : PacketOK(q)
  BY DEF GossipInv, PacketsOK
<1> QED  BY <1>1, DriveAnswers

LEMMA AnswersComeOfRequests ==
    ASSUME GossipInv, [GossipNext]_gossipVars, NEW r \in gossip' \ gossip, r.type = "Response"
    PROVE  \E q \in gossip : /\ q.type = "Request" /\ r.answer = Answer(q.peer, q)
                             /\ r.peer = q.peer /\ r.asker = q.asker
<1>0. NodesOK' /\ \A q \in gossip : PacketOK(q) /\ q.asker \in Nodes /\ q.peer \in Nodes
  BY GossipStep DEF GossipInv, LogInv, PacketsOK, PacketOK
<1> SUFFICES ASSUME \A q \in gossip : ~ ReceiveRequest(q) PROVE FALSE
  <2> SUFFICES ASSUME NEW q \in gossip, ReceiveRequest(q)
               PROVE  /\ q.type = "Request" /\ r.answer = Answer(q.peer, q)
                      /\ r.peer = q.peer /\ r.asker = q.asker
    OBVIOUS
  <2> DEFINE answer == Answer(q.peer, q)
             msgs == (gossip \ {q}) \cup {Response(q, answer)}
  <2>1. Drive({q.peer}, msgs, known, retry_after, chain_sync_after) /\ q.type = "Request"
    BY DEF ReceiveRequest
  <2>2. PacketOK(Response(q, answer))
    <3> HIDE DEF answer
    <3> QED  BY <1>0, AnswerOK
  <2>3. \A u \in msgs : PacketOK(u)
    <3> HIDE DEF answer
    <3> QED  BY <1>0, <2>2
  <2> HIDE DEF msgs
  <2>4. r \in msgs
    BY <1>0, <2>1, <2>3, DriveAnswers
  <2>5. r = Response(q, answer)
    BY <2>4 DEF msgs
  <2> HIDE DEF answer
  <2>6. r.answer = answer /\ r.peer = q.peer /\ r.asker = q.asker
    BY <2>5 DEF Response
  <2> QED  BY <2>1, <2>6 DEF answer
<1>1. ASSUME NEW N \in SUBSET Nodes, NEW msgs \in SUBSET gossip,
             NEW receipts, NEW deferred, NEW asked, Drive(N, msgs, receipts, deferred, asked)
      PROVE  FALSE
  BY <1>0, <1>1, NoAnswerMadeUp
<1>2. ASSUME NEW n \in Nodes, SealHere(n) PROVE FALSE
  BY <1>1, <1>2 DEF SealHere, DriveOnly
<1>3. ASSUME NEW m \in network, ReceiveSync(m) PROVE FALSE
  <2>1. m.to \in Nodes
    BY DEF GossipInv, LogInv, MessagesOK, MessageOK
  <2> QED  BY <1>1, <1>3, <2>1 DEF ReceiveSync, DriveOnly
<1>5. ASSUME NEW q \in gossip, ReceiveResponse(q) PROVE FALSE
  <2>1. q.asker \in Nodes
    BY <1>0
  <2>2. \E receipts, deferred, asked :
          Drive({q.asker}, gossip \ {q}, receipts, deferred, asked)
    BY <1>5 DEF ReceiveResponse
  <2> QED  BY <1>1, <2>1, <2>2
<1>6. ASSUME NEW q \in gossip, Fail(q) PROVE FALSE
  <2>1. PICK late \in {{}, {[q EXCEPT !.awaited = FALSE]}} :
           Drive({q.asker}, (gossip \ {q}) \cup late, known,
                 retry_after \cup {<<q.asker, q.peer, q.tx>>}, chain_sync_after)
    BY <1>6 DEF Fail
  <2>2. ASSUME NEW u \in late PROVE PacketOK(u) /\ u.awaited = FALSE
    <3>1. u = [q EXCEPT !.awaited = FALSE] /\ PacketOK(q)
      BY <1>0
    <3> QED  BY <3>1 DEF PacketOK
  <2>3. r \in (gossip \ {q}) \cup late /\ r.awaited
    BY <1>0, <2>1, <2>2, DriveAnswers
  <2> QED  BY <2>2, <2>3
<1>7. ASSUME NEW k \in known \cup retry_after, Expire(k) PROVE FALSE
  <2>1. k[1] \in Nodes
    BY DEF GossipInv, DeadlinesOK
  <2> QED  BY <1>1, <1>7, <2>1 DEF Expire
<1>9. ASSUME NEW n \in Nodes, Tick(n) PROVE FALSE
  BY <1>1, <1>9 DEF Tick, DriveOnly
<1>10. ASSUME NEW n \in Nodes, NEW m \in Nodes, Established(n, m) PROVE FALSE
  BY <1>1, <1>10 DEF Established, DriveOnly
<1>11. ASSUME NEW m \in network, SyncFailure(m) PROVE FALSE
  <2>1. m.to \in Nodes /\ m.from \in Nodes
    BY DEF GossipInv, LogInv, MessagesOK, MessageOK
  <2> QED  BY <1>1, <1>11, <2>1 DEF SyncFailure, DriveOnly
<1>12. ASSUME DriveAfterCut PROVE FALSE
  BY <1>1, <1>12 DEF DriveAfterCut
<1>13. gossip' # gossip
  OBVIOUS
<1> QED
  BY <1>2, <1>3, <1>5, <1>6, <1>7, <1>9, <1>10, <1>11, <1>12, <1>13
  DEF GossipNext, gossipVars, SubmitHere, MayAskAgain, Closed, RestartHere

LEMMA RefusalStep ==
    ASSUME NEW K, HonestClients, OfferInv(K), [GossipNext]_gossipVars,
           NEW r \in gossip' \ gossip, r.type = "Response", r.answer = "Rejected"
    PROVE  Len(blocks[r.peer]) < Len(blocks[r.asker])
<1>1. PICK q \in gossip : /\ q.type = "Request" /\ r.answer = Answer(q.peer, q)
                          /\ r.peer = q.peer /\ r.asker = q.asker
  BY AnswersComeOfRequests DEF OfferInv, ServeInv
<1> QED  BY <1>1, OfferTaken

\* The in-order rule of offers is enough: with one sealer, clients that sign one
\* transaction for a nonce and names that mean the same key everywhere, a peer
\* refuses what it is offered only while it lacks a block the asker has. At any
\* number of nodes, whatever timed out, arrived late, was offered again after a
\* reconnection or was confirmed while the offer was under way, a peer with the
\* blocks of the asker finds neither a gap in the sender's nonces nor its
\* balance taken by another of its transactions.
THEOREM RefusedOnlyWhenBehind ==
    ASSUME HonestClients, NamesAgree
    PROVE  GossipSpec => RejectedOnlyWhenBehind
<1> PICK K \in KeyMap : OneKeyEach(K)
  BY DEF NamesAgree
<1>1. GossipInit => OfferInv(K)
  BY OfferBegins
<1>2. OfferInv(K) /\ [GossipNext]_gossipVars => OfferInv(K)'
  BY OfferStep
<1>3. OfferInv(K) /\ [GossipNext]_gossipVars =>
        [\A r \in gossip' \ gossip :
            r.type = "Response" /\ r.answer = "Rejected" =>
                Len(blocks[r.peer]) < Len(blocks[r.asker])]_gossipVars
  BY RefusalStep
<1> QED  BY <1>1, <1>2, <1>3, PTL DEF GossipSpec, RejectedOnlyWhenBehind
=============================================================================
