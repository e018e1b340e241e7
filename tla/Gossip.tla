------------------------------- MODULE Gossip -------------------------------
(***************************************************************************)
(* The network of Sync with the second protocol of the node,               *)
(* /blockrock/transactions/1.0.0: pending transactions are offered to      *)
(* every connected peer until it has a receipt for them, and a receipt     *)
(* that says "confirmed" makes the node ask for the chain it missed.       *)
(* Clocks are abstracted: a deadline is an entry of a set, and it may      *)
(* expire at any time.                                                     *)
(***************************************************************************)
EXTENDS Sync

CONSTANT MaxInFlight   \* MAX_INFLIGHT_PER_PEER

ASSUME InFlightAssumption == MaxInFlight \in Nat \ {0}

VARIABLES
    gossip,            \* requests and responses of this protocol under way
    known,             \* <<n, m, t>>: n has a receipt of m for t
    retry_after,       \* <<n, m, t>>: n offers t to m again only later
    chain_sync_after   \* <<n, m>>: n asked m for its chain not long ago

deadlines == <<known, retry_after, chain_sync_after>>
gossipVars == <<vars, gossip, deadlines>>

\* TransactionAnnouncement. The asker's table in_flight is the set of the
\* awaited messages: an entry it drops leaves a message nobody waits for.
Request(n, m, t) ==
    [type |-> "Request", asker |-> n, peer |-> m, tx |-> t, awaited |-> TRUE,
     genesis |-> GenesisOf(n), key |-> public_keys'[n][t.sender]]

Response(r, answer) ==
    [type |-> "Response", asker |-> r.asker, peer |-> r.peer, tx |-> r.tx,
     awaited |-> r.awaited, answer |-> answer]

InFlight(n, m, msgs) == {r \in msgs : r.awaited /\ r.asker = n /\ r.peer = m}

GossipInit ==
    /\ Init
    /\ gossip = {} /\ known = {} /\ retry_after = {} /\ chain_sync_after = {}

-----------------------------------------------------------------------------
(***************************************************************************)
(* drive.  The swarm loop calls it after every event, so it sees the pool  *)
(* and the connections the event has left.                                 *)
(***************************************************************************)

\* Of the transactions ts, those for which there are slots left.
WithinSlots(ts, slots) ==
    {t \in ts : Cardinality({u \in ts : Rank[u.sender] < Rank[t.sender]}) < slots}

FirstOfEach(ts) == {t \in ts : \A u \in QueuedBy(ts, t.sender) : t.nonce <= u.nonce}

\* Bug: a transaction that has to wait does not hold its successors back.
OfferedPastDeferred(n, m, msgs, receipts, deferred) ==
    LET flying == InFlight(n, m, msgs)
        open   == {t \in mempool'[n] : /\ <<n, m, t>> \notin receipts \cup deferred
                                       /\ \A r \in flying : r.tx.sender # t.sender}
    IN  WithinSlots(FirstOfEach(open), MaxInFlight - Cardinality(flying))

\* What n sends to m: from each sender with nothing in flight the first
\* transaction without a receipt, unless it has to wait.
Offered(n, m, msgs, receipts, deferred) ==
    LET flying == InFlight(n, m, msgs)
        open   == {t \in mempool'[n] : /\ <<n, m, t>> \notin receipts
                                       /\ \A r \in flying : r.tx.sender # t.sender}
        due    == {t \in FirstOfEach(open) : <<n, m, t>> \notin deferred}
    IN  WithinSlots(due, MaxInFlight - Cardinality(flying))

\* A response that nobody waits for changes nothing when it comes. A request
\* still does.
Heeded(msgs) == {r \in msgs : r.type = "Response" => r.awaited}

\* Bug: what a peer acknowledged is remembered when it has gone.
StillOpenPastCut(N, k) == k[1] \in N => k[3] \in mempool'[k[1]]

\* k = <<n, m, t>> concerns a transaction pending at n and a peer of n, as far
\* as the nodes N have looked.
StillOpen(N, k) == k[1] \in N => k[3] \in mempool'[k[1]] /\ {k[1], k[2]} \in connected'

\* <<n, m>>: n of N has m as its peer.
Talking(N) == {e \in N \X Nodes : {e[1], e[2]} \in connected'}

\* The nodes N forget what is no longer pending or connected, then send.
Drive(N, msgs, receipts, deferred, asked) ==
    LET kept == Heeded({[r EXCEPT !.awaited = @ /\ StillOpen(N, <<r.asker, r.peer, r.tx>>)] :
                           r \in msgs})
    IN  /\ known' = {k \in receipts : StillOpen(N, k)}
        /\ retry_after' = {k \in deferred : StillOpen(N, k)}
        /\ chain_sync_after' = {a \in asked : a[1] \in N => {a[1], a[2]} \in connected'}
        /\ gossip' = kept \cup
             UNION {{Request(e[1], e[2], t) : t \in Offered(e[1], e[2], kept, known', retry_after')} :
                       e \in Talking(N)}

DriveOnly(N) == Drive(N, gossip, known, retry_after, chain_sync_after)

-----------------------------------------------------------------------------
(***************************************************************************)
(* handle_event.                                                           *)
(***************************************************************************)

HasRoom(n, t) == TotalWeight(mempool[n]) + t.weight <= MaxMempoolBytes

\* Who the sender of r's transaction is for n, once r has told it.
KeysWith(n, r) ==
    IF public_keys[n][r.tx.sender] = NoKey
    THEN [public_keys[n] EXCEPT ![r.tx.sender] = r.key] ELSE public_keys[n]

\* A packet of another chain, one that would name a validator, or one that
\* gives a known name another key.
Untrusted(n, r) ==
    \/ r.genesis # GenesisOf(n)
    \/ public_keys[n][r.tx.sender] = NoKey /\ r.tx.sender \in authorities[n]
    \/ KeysWith(n, r)[r.tx.sender] # r.key

\* apply_transaction, with its errors as the response that carries them.
Answer(n, r) ==
    LET t == r.tx
    IN  IF Untrusted(n, r) \/ t.sender = Mint \/ ~ t.wellFormed THEN "Rejected"
        ELSE IF Id(t) \in Ids(blocks[n]) THEN "Confirmed"
        ELSE IF \E u \in mempool[n] : Id(u) = Id(t) THEN "Known"
        ELSE IF Refused(KeysWith(n, r), Ids(blocks[n]), State(n), mempool[n], t) THEN "Rejected"
        ELSE IF HasRoom(n, t) THEN "Accepted" ELSE "Busy"

\* The sender's key is learned with its transaction or not at all.
ReceiveRequest(r) ==
    /\ r.type = "Request"
    /\ UNCHANGED <<blocks, authorities, connected, network, fault>>
    /\ LET n == r.peer
           answer == Answer(n, r)
       IN  /\ IF answer = "Accepted"
              THEN /\ mempool' = [mempool EXCEPT ![n] = @ \cup {r.tx}]
                   /\ public_keys' = [public_keys EXCEPT ![n] = KeysWith(n, r)]
              ELSE UNCHANGED <<mempool, public_keys>>
           /\ Drive({n}, (gossip \ {r}) \cup {Response(r, answer)},
                    known, retry_after, chain_sync_after)

\* Bug: whatever the peer answers, it has heard of the transaction.
AcknowledgesAnything(r) == r.awaited

Acknowledges(r) == r.awaited /\ r.answer \in {"Accepted", "Known", "Confirmed"}

\* Bug: a node that missed a block waits for the next one.
AsksAfterNever(r) == FALSE

\* A peer that has it on chain has a block we missed: ask, but not too often.
AsksAfter(r) ==
    /\ Acknowledges(r) /\ r.answer = "Confirmed"
    /\ <<r.asker, r.peer>> \notin chain_sync_after

ReceiveResponse(r) ==
    /\ r.type = "Response"
    /\ UNCHANGED <<node, connected, fault>>
    /\ LET n == r.asker
           m == r.peer
           receipt == IF Acknowledges(r) THEN {<<n, m, r.tx>>} ELSE {}
           later   == IF r.awaited /\ ~ Acknowledges(r) THEN {<<n, m, r.tx>>} ELSE {}
           asked   == IF AsksAfter(r) THEN {<<n, m>>} ELSE {}
       IN  /\ network' = network \cup {GetChain(e[1], e[2]) : e \in asked}
           /\ Drive({n}, gossip \ {r}, known \cup receipt, retry_after \cup later,
                    chain_sync_after \cup asked)

\* OutboundFailure. What was lost may have been the answer, and what timed out
\* may still arrive; the asker cannot tell.
Fail(r) ==
    /\ r.awaited
    /\ Within(lost, drops + 1, Work) /\ drops' = drops + 1
    /\ UNCHANGED <<node, connected, network, lost>>
    /\ \E late \in {{}, {[r EXCEPT !.awaited = FALSE]}} :
          Drive({r.asker}, (gossip \ {r}) \cup late, known,
                retry_after \cup {<<r.asker, r.peer, r.tx>>}, chain_sync_after)

-----------------------------------------------------------------------------
(***************************************************************************)
(* The deadlines, the timer, and the steps of Sync.                        *)
(***************************************************************************)

\* A receipt or a delay runs out, and the next round of drive sees it.
Expire(k) ==
    /\ k \in known \cup retry_after
    /\ UNCHANGED vars
    /\ Drive({k[1]}, gossip, known \ {k}, retry_after \ {k}, chain_sync_after)

MayAskAgain(a) ==
    /\ a \in chain_sync_after
    /\ chain_sync_after' = chain_sync_after \ {a}
    /\ UNCHANGED <<vars, gossip, known, retry_after>>

\* gossip_tick
Tick(n) == UNCHANGED vars /\ DriveOnly({n})

\* A client's transaction waits for the next tick.
SubmitHere(n, t) ==
    Submit(n, t) /\ HasRoom(n, t) /\ UNCHANGED <<gossip, deadlines>>

\* The loop runs after a seal when it has an announcement to pass on.
SealHere(n) == Seal(n) /\ DriveOnly(IF lost' = lost THEN {n} ELSE {})

ReceiveSync(m) == Deliver(m) /\ DriveOnly({m.to})

Established(n, m) == Connect(n, m) /\ DriveOnly({n, m})

SyncFailure(m) == Lose(m) /\ DriveOnly({m.from, m.to})

\* Both ends of a link that is down forget what was under way on it.
DriveAfterCut ==
    Drive(Nodes, {r \in gossip : {r.asker, r.peer} \in connected'},
          known, retry_after, chain_sync_after)

Closed(link) == Disconnect(link) /\ DriveAfterCut

RestartHere(n) == Restart(n) /\ DriveAfterCut

GossipNext ==
    \/ \E n \in Nodes : \E t \in Clients[n] : SubmitHere(n, t)
    \/ \E n \in Nodes : SealHere(n)
    \/ \E m \in network : ReceiveSync(m)
    \/ \E r \in gossip : ReceiveRequest(r)
    \/ \E r \in gossip : ReceiveResponse(r)
    \/ \E r \in gossip : Fail(r)
    \/ \E k \in known \cup retry_after : Expire(k)
    \/ \E a \in chain_sync_after : MayAskAgain(a)
    \/ \E n \in Nodes : Tick(n)
    \/ \E n, m \in Nodes : Established(n, m)
    \/ \E m \in network : SyncFailure(m)
    \/ \E link \in connected : Closed(link)
    \/ \E n \in Nodes : RestartHere(n)

GossipSpec == GossipInit /\ [][GossipNext]_gossipVars

\* Each node's loop takes the events of either protocol and the timer's; time
\* passes; an authority keeps sealing. Links that went down may stay down.
FairGossipSpec ==
    /\ GossipSpec
    /\ \A n \in Nodes :
        /\ WF_gossipVars(\E m \in network : m.to = n /\ ReceiveSync(m))
        /\ WF_gossipVars(\E r \in gossip : r.peer = n /\ ReceiveRequest(r))
        /\ WF_gossipVars(\E r \in gossip : r.asker = n /\ ReceiveResponse(r))
        /\ WF_gossipVars(\E k \in known \cup retry_after : k[1] = n /\ Expire(k))
        /\ WF_gossipVars(\E a \in chain_sync_after : a[1] = n /\ MayAskAgain(a))
        /\ WF_gossipVars(Tick(n))
        /\ WF_gossipVars(SealHere(n))

-----------------------------------------------------------------------------
(***************************************************************************)
(* Properties.                                                             *)
(***************************************************************************)

\* A receipt is kept only while the peer answers for the transaction: it is in
\* its pool or on its chain. Were it false, the node would stop offering a
\* transaction nobody else has.
ReceiptsHold ==
    \A k \in known :
        \/ k[3] \in mempool[k[2]]
        \/ Id(k[3]) \in Ids(blocks[k[2]])

\* One in-flight nonce per sender, and the prefix first: with one sealer and
\* honest clients a peer refuses a transaction only when it lacks a block the
\* asker has, whatever timed out, arrived late or was offered again.
RejectedOnlyWhenBehind ==
    [][\A r \in gossip' \ gossip :
        r.type = "Response" /\ r.answer = "Rejected" =>
            Len(blocks[r.peer]) < Len(blocks[r.asker])]_gossipVars

\* n may seal, or has a link to a node that may.
NearSealer(n) ==
    \E m \in Nodes : m \in authorities[m] /\ (m = n \/ {n, m} \in connected)

\* With one sealer, once clients stop, the pools of the sealer and of the nodes
\* that have a link to it are drained: what the sealer has put on chain leaves
\* the pool of such a node even when the announcement of the block, a chain
\* request, an answer or the link itself was lost before, and what the sealer
\* has no room for is offered again. A node that lost its link may wait for ever.
PendingSettles == []<>(\A n \in Nodes : NearSealer(n) => mempool[n] = {})
=============================================================================
