# BlockRock in TLA+

A verification project for BlockRock: TLA+ modules translated from the code,
TLC runs that check them on small instances, and TLAPS proofs about them.

## 1. The system

| Component | Source | State | Operations |
|---|---|---|---|
| Chain rules | `blockrock-core/src/blockchain.rs`, `block.rs`, `transaction.rs` | blocks, authorities, balances, nonces, keys, transaction index | `try_append_block`, `try_adopt_chain`, `validate`, `seal_mempool`, `add_block` |
| Mempool | `blockrock-core/src/mempool.rs` | pending transactions by id, their cached weight | `queue`, `drain` |
| Node ledger | `zion-core/src/ledger.rs` | none: takes the lock on the `Blockchain` | `submit` (queue, release, maybe seal), `seal_pending` (seal, save, announce) |
| Chain store, identity | `zion-core/src/storage.rs`, `identity.rs` | the chain file, the key file | whole-file save, load or create |
| Node process | `zion-core/src/bin/node.rs` | `is_authority`, connected and greeted peers, stopping | start, block-time loop, swarm loop, orderly stop |
| Chain sync | `zion-core/src/network/sync.rs`, `service.rs` | none: messages `GetChain`, `NewBlock`, `Chain`, `Ack` | answer, append, adopt, relay |
| Transaction gossip | `zion-core/src/network/transactions.rs` | receipts, requests in flight, retry deadlines per peer | `drive`, `handle_event`, `apply_transaction` |
| REST and gRPC | `zion-core/src/api/rest.rs`, `grpc.rs` | none | submit, register an account, queries, sensor readings |
| Metabolic loop | `zion-core/src/monitoring.rs` | status, the last decision notified | evaluate, notify a webhook |
| Nexus server | `nexus/server/app.py` | accounts, sessions with a csrf token, a journey with a revision | `login`, `logout`, `update_journey` (compare-and-swap on the revision), registration, recovery |
| Nexus client | `nexus/src/composables/useJourney.ts`, `domain/journey.ts` | per tab: journey, revision, pending, conflict, undo; per browser: cookie and draft | `boot`, `authenticate`, `change`, `undo`, `sync`, `resolveConflict`, `logout`, storage events |
| Prototype | `zion-core/src/blockrock.rs`, `p2p.rs`, `tron.rs`, `main.rs` | | not part of the node |

How they interact. One `Blockchain` behind a `tokio` mutex is shared by the
REST and gRPC handlers, the block-time loop, the swarm loop and the shutdown
path. A client's transaction enters the mempool through `submit` or, from a
peer, through gossip; a block is sealed by the periodic tick, or by the submit
that fills the pool, which lets the lock go and takes it again; the block is
saved, then handed to the swarm loop over a bounded channel and sent to the
connected peers. Peers that cannot append a block ask for the whole chain, and
adopt it when it is longer. Every block that arrives this way moves the nonces
and balances the local pool was admitted against, so the pool is queued again
against the new state. The swarm loop also runs the gossip of pending
transactions, which re-reads the pool after every event, remembers what each
peer has acknowledged, and asks for the chain when a peer says a transaction is
confirmed. The metabolic loop is a task of its own in the same process. Nexus is
a separate service: tabs of one browser share its session cookie and local
storage, and talk to the server by HTTP.

What is hard here: the gap between queueing and sealing; a block sealed and not
written; a restart from an older file; authority decided once at start and
revisable by an adopted chain; keys learned from peers before what they sent is
verified; a pool admitted against a chain that has since changed; credits at
the width of a balance; lost announcements and forks of equal length;
receipts that outlive what they say, requests that time out and arrive all the
same; a decision that has to be published whatever its listener does; two tabs
that write one draft, a write whose answer is lost, a session that ends with
edits unsent.

What makes each part correct: the chain and its caches agree, nothing is spent
twice and only the mint creates value (chain rules); what is pending can always
be sealed (mempool); nothing accepted is lost except for a reason, and no two
blocks of ours are announced for one height (ledger); the file always starts a
node (store); names are never rebound (sync, gossip); a receipt is true and what
is pending gets settled (gossip); decisions follow the samples and reach the
listener (metabolic loop); no edit is lost or overwritten unread (Nexus).

## 2. Modules

`Blockchain` - the rules of `blockrock-core`, without state. A hash stands for
what it commits to: a transaction id is the signed content, a block hash is the
chain that ends with the block, so "`previous_hash` is our tip" becomes "all but
the last block is our chain". A signature is the key that made it. The code
walks the transactions of a block or a chain with a running state and stops at
the first error; the module states the same thing by position (`Slots`,
`SlotsBefore`): the balance before a position is the initial one plus what the
earlier positions credit minus what they debit. `Requeued` is the same kind of
closed form for `reconcile_mempool`: a pending transaction gets back in exactly
when every nonce from the chain's up to its own is pending, signed, new and
affordable together. Closed forms are what the prover can use.

`LedgerReference` - the loops themselves, each a recursive function that carries
the running state of the code, and a machine that grows arbitrary chains, valid
or not, and every legal pool. Its three invariants say that the closed forms and
the loops agree. It is what makes `Blockchain` trustworthy as a translation, and
`ReferenceProofs` proves it for every chain and pool.

`Ledger` - one node. One action per critical section of the code:

| Action | Code |
|---|---|
| `Submit` | `submit` up to `drop(chain)`, with what it read to decide whether to seal |
| `SealAfterSubmit` | the seal of that submit, once it has the lock again |
| `Tick` | one round of the block-time loop |
| `RegisterAccount` | `POST /accounts` |
| `GossipTransaction` | `apply_transaction` of the gossip protocol |
| `ReceiveBlock`, `ReceiveChain` | `handle_sync_event` when it appends a block, or adopts a chain |
| `Crash`, `Shutdown`, `Start` | death of the process, orderly stop with its final seal, load and validation |

A seal is one step because `seal_pending` holds the lock from the drain to the
save, and no handler suspends while it holds it. The save may fail (`saved`),
the announcement may be dropped (`sent`). Refusals that change nothing are not
actions. Peers are the constant `Snapshots`: the chains, with keys and
authorities, that other nodes running the same rules may hold. `announced` is a
history variable: the heights of the blocks this node sealed and announced, in
the order of sealing. That is not always the order of the channel, because the
lock is dropped before `try_send` (`ledger.rs:138`); announcements that overtake
each other are in `Sync`, whose network has no order. Heights are enough: a block sealed again at the same height carries
another timestamp, which `Block` leaves out, so a second announcement of a
height is always another block.

`Sync` - several nodes and the sync protocol. A node is its chain, authorities,
keys and pool; balances, nonces and index are those of a replay, which is what
`CachesAreReplay` shows of them in `Ledger`, and writes succeed. One action per
message and outcome of `handle_sync_event`:

| Action | Code |
|---|---|
| `Submit`, `Seal` | `submit` up to the seal; `seal_pending` with the loop that forwards its announcement, which a full queue may drop |
| `AnswerGetChain` | a `GetChain` request |
| `IgnoreKnown`, `AskForChain`, `AppendBlock`, `RejectBlock` | `NewBlock` with outcome `Known`, `OutOfOrder`, `Appended` or an error |
| `AdoptChain`, `KeepChain` | a `Chain` response adopted or not |
| `Connect` | both ends greet each other with `GetChain` |
| `Lose` | an outbound or inbound failure, which is only logged |
| `Disconnect`, `Restart` | a link goes down with what is under way on it; a process dies and loads its file |

A behaviour starts with every link up and the greetings of both ends answered,
which says nothing new because the files are the same; `Connect` happens after
a link was dropped.

The network is a set: messages arrive late and in any order, and two equal ones
count as one, which changes nothing because the second is answered or ignored
like the first. An announcement names a block by the chain it ends; the code
only compares its index, its parent's hash and its own hash, and those are what
the guards look at. `Ack` carries nothing and is left out.

`ReplicatedLog` - what a network with one sealing node promises: one history,
written by the leader, of which everybody else holds a prefix that only grows.

`OneSealer` - `Sync` with a leader, the only authority, and the mapping to `ReplicatedLog`: a
replica's copy is the node's chain, an entry is a block.

`Gossip` - `Sync` with the second protocol of the node. Every step of `Sync` is
followed by `Drive`, as the swarm loop calls `drive` after every event, and the
steps of the protocol itself are:

| Action | Code |
|---|---|
| `ReceiveRequest` | a request: `apply_transaction`, whose result or error is the response |
| `ReceiveResponse` | a receipt, perhaps with a chain request; or a refusal, to be retried later |
| `Fail` | an outbound failure; the request may be lost, its answer may be, or it arrives late |
| `Expire`, `MayAskAgain` | a receipt, a retry delay or the pause between chain requests runs out |
| `Tick` | the gossip timer |

Clocks are deadlines that exist or not: `known`, `retry_after` and
`chain_sync_after` hold them, and each may run out at any time, which includes
every real timing. A request that is no longer in the asker's table (`awaited`)
is still served; a response nobody waits for is dropped at once, because it
changes nothing when it comes. Which of several senders gets the slots follows
the order of the code (`Rank`).

`Metabolism` - the monitoring loop: `Collect` (a sample, `evaluate`, the gate),
`FailToCollect`, `Delivered` and `NotDelivered` (the end of the webhook call,
after which the decision is published), `Overdue` (a call that was given up
arrives after all), `Load` (the machine changes). Scores are in tenths of a
point, so the arithmetic of the code is exact. `FromProcfs` tells the source the
node runs from an adapter that measures latency and errors too.

`Journey` - one account of Nexus: the server's journey and sessions, and the
tabs of useJourney. A handler is cut where it awaits: one action up to the
request, one `Receive...` action per request for what follows the answer.

| Action | Code |
|---|---|
| `Change`, `Undo`, `Sync`, `Login`, `Resolve`, `Logout`, `Boot`, `Retry` | what a click or the timer starts, up to the first request |
| `StorageChanged` | the storage event another tab's draft causes |
| `ReceivePut` ... `ReceiveLogout` | the rest of the handler, for each answer |
| `ServeLate`, `EndSession`, `Close` | a write that arrives when its page has given up; a session that ends; a page that is closed |

A request is served when it is sent: nothing its sender knows changes before the
answer, so only the answer's delay matters. A request that gets no answer was
lost, was served, or, if it writes, is still to be served. A journey is the set
of the edits it holds; `draftRaw` is a record with a stamp in place of
`updatedAt`, which is what makes two drafts with the same content differ.

`MCLedger`, `MCLedgerReference`, `MCSync`, `MCGossip`, `MCMetabolism`,
`MCJourney` - the instances. `MCGossip` extends `OneSealer` as well, so that the
refinement of `ReplicatedLog` is checked of both protocols together.

The theorems: `BlockchainProofs` (sums, and what the operators of `Blockchain`
compute for any chain and pool), `ReferenceProofs` (over `LedgerReference`),
`LedgerProofs` and `PoolProofs` (over `Ledger`, the second extending the first),
`SealerProofs` (over `OneSealer`), `GossipProofs` (over `Gossip`, extending
`SealerProofs`), `MetabolismProofs` and `JourneyProofs`. `BlockchainProofs` has no state, so that
a node of `Ledger` and the nodes of `Sync` are proved about with the same lemmas.

Operators introduced by a `Bug:` comment are variants of the definition below
them with one plausible mistake. Nothing uses them; they are there to confirm
that each property notices the mistake it is meant for.

## 3. Runs

| Run | Question | Expected |
|---|---|---|
| `LedgerSafety` | do the chain, caches, file, pool and announcements of a validator stay consistent under every interleaving, crash, failed write and peer chain? | holds |
| `LedgerMint` | what happens when peers mint up to the width of a balance, and when a longer chain takes a sender's nonce back? | holds |
| `LedgerFollower` | does a node keep the right to seal from deciding to sealing, when it learns who the authorities are on the way, and does everything accepted leave its pool once it is one? | holds |
| `LedgerReference` | are the closed forms the loops of the code? | holds |
| `SyncRing` | do connected nodes on a cycle end with the same chain, and do relays end? | holds |
| `SyncForks` | do two validators that fork come back within a block of each other, and end with one chain while only one of them seals, when a link drops or a node restarts? | holds |
| `GossipRepair` | does everything pending settle at the sealer and at the nodes that keep a link to it, after a lost announcement, chain request or answer, a dropped link, a timeout or a restart, and with a pool that fills up? | holds |
| `GossipOrder` | with timeouts, dropped links and restarts, are receipts true, prefixes first, and is the network with both protocols one log? | holds |
| `Metabolism` | do decisions follow the samples, and reach the listener and `GET /metabolism`? | holds |
| `MetabolismSaturated` | does a machine under lasting stress get reported by the source the node has? | violated |
| `Journey` | is no edit lost, and none overwritten unread, between two tabs of a browser? | holds |
| `JourneyRenewal` | does renewing the session keep the edits in memory when the storage is full, as the comment says? | violated |

What the properties say:

* `CachesAreReplay`, `FileStarts`: balances, nonces and index are those of a
  replay of the chain; the file passes the validation of the next start.
* `PoolContiguous`, `PoolSealable`, `PoolWeight`: from every sender the pool
  holds the run of nonces that starts at the chain's; the whole pool can be
  sealed now, whatever peers did since it was filled; the cached weight is right.
  `PoolSealable` assumes that the supply fits a balance: `LedgerMint` covers
  the instances where it does not, and there an accepted transaction can make
  seals fail until its receiver spends (`BalanceOverflow`).
* `NoReplay`, `Conservation`, `NoEquivocation`: no nonce or id twice on the
  chain; value is conserved but for the mint; one announced block per height.
* `KeysNeverRebound`, `DropsAreExplained`, `ShutdownSeals`: no step rebinds a
  key, loses an authority or shortens the chain; the pool only loses what was
  confirmed or what a peer's block touched; an orderly stop leaves nothing
  accepted behind, unless its write fails.
* `AuthorizedWhenSealing`: both paths to a seal rely on a fact read earlier,
  and it still holds when they get the lock.

* `IsOneLog`: `OneSealer` implements `ReplicatedLog`. No message order, loss or
  restart makes a node shorten its chain, skip a block or hold one the sealer
  never wrote.
* `Converges`, `EchoEnds`, `NeverFarApart`: what one node has, the nodes it has
  a link to get; the traffic of finite work ends; of two forks neither of two
  connected nodes stays more than one block behind. Equal forks do stay: nothing
  in the code merges them until one side seals again, and the manual says so.
  `Converges` and `NeverFarApart` speak of links that are up in the end. Two
  nodes whose link stays down may differ for ever.

* `ReceiptsHold`, `RejectedOnlyWhenBehind`, `PendingSettles`: a receipt is only
  kept while the peer has the transaction in its pool or on chain; with one
  sealer a transaction is refused only by a peer that lacks a block; neither the
  sealer nor a node that has a link to it keeps a transaction pending for ever.
  A node whose link went down for good may: `drive` offers to connected peers
  only.
* `RequestsAreSustained`, `ReceiverInformed`, `StressIsHeard`: capacity is asked
  for, or offered, exactly after a full run of samples, and none counts twice (a
  cycle whose reading failed neither counts nor breaks a run); a receiver that
  missed nothing knows the current decision, while nothing is promised after a
  call that failed, because the gate has moved already; lasting stress is
  published again and again, whatever the webhook does.
* `EditsKept`, `SavedEditsStay`, `RenewalKeepsDraft`: an edit is on the server, in
  a page or in a draft until its user undoes it or gives it up in a conflict; it
  leaves the server for no other reason; `atRisk` singles out the edits of a
  renewal whose load failed. It stays empty in `Journey`, whose one upset is not
  enough for such a renewal, so it exempts nothing there; `JourneyRenewal` fills it.

Bounds of `Ledger`. Two clients, two validators, one of them this node, and the mint are the
fewest accounts that give a pool with two senders and peers that seal.
`TransferTxs` are chosen so that alice can pay twice only if bob pays her back,
and so that a peer may use her first nonce for something else: requeueing keeps,
drops for funds, drops for a nonce and drops for a gap. The coins of `MintTxs` let
a peer grow a chain that alice has no part in, which takes her nonce back to 0
under a transaction she had queued behind a confirmed one. Peers hold all valid
chains of up to three blocks after the genesis (two in
`LedgerMint` and `LedgerFollower`), with one or two
transactions each, sealed by either validator; this is long enough for an
adopted chain to replace two own blocks.
`MaxMempoolBytes = 3` and `SealThreshold = 2` make both a full pool and an
immediate seal happen; `MaxSealers = 2` bounds the submits in the gap.
`MaxAmount` is 6, the whole supply, and 4 in `LedgerMint`, where a
payment to bob on top of his minted coins overflows.

Bounds of `Sync`. `SyncRing` runs the cycle of three, where each node hears of a
block twice, with two blocks to seal and two lost messages: enough
for a block to overtake its parent, for a chain requested before a block to
arrive after it, and for a node to miss the first block. `Bounds` says which
faults and how much work an instance has: triples of the messages lost on links
that stay up, the links dropped or nodes restarted, and the transactions pending
or confirmed somewhere. A dropped link multiplies the states of the cycle beyond
reach, so links drop and nodes restart in `SyncForks`, `GossipRepair` and
`GossipOrder`. `SyncForks` runs two validators, one with three transactions and
one with one, so that a branch can get two blocks ahead; `Converges` asks for one
author, and there holds of the behaviours in which only one of the two seals.
`Converges` and `NeverFarApart` speak of the behaviours in which no message is
lost on a link that stays up: after a lost last announcement a node stays behind
until the next block, the next connection or the gossip of a pending
transaction. That last case is what `PendingSettles` is about.

Bounds of `Gossip`. Two nodes, of which one seals, and one request in flight per
peer (`MaxInFlight`), so that a slot is worth having. `GossipRepair` takes one
fault of each kind, within what a liveness check can carry: while there are two
transactions, one message of the sync protocol may be lost, and the sealer's pool
is full while its own client's transaction of weight two is in it (the answer is
`Busy`); while there is one transaction, a message may be lost and besides a
link may drop, a request time out or a node restart (the second number of
`Bounds` counts all three). `GossipOrder` asks for safety: a sender has two
transactions, and one request fails or one link drops or one node restarts.

Bounds of `Metabolism`. The thresholds are the code's, the cycle counts those of
its tests (3 and 2, which differ, so that one is not taken for the other). The
six readings lie above, at and below each threshold, and one is out of range.

Bounds of `Journey`. Two tabs of one browser, an edit in each, and one upset
(`MaxUpsets`): an answer lost or late, a session that ends, a page closed, an
edit undone or a logout. A user chooses "this device" at most while the server
is at `MaxRevision` or below. A reading that brings no news is left out. In
`JourneyRenewal` there is one tab, no room in its storage, and two upsets.

Fairness. In `Ledger`, `FairSpec` assumes weak fairness of `Tick` (a `tokio`
interval that fires every block time on a node that started as authority, with
errors only logged) and of `SealAfterSubmit` (a task the runtime keeps polling). Nothing is
assumed of clients, peers, saves or crashes. `PoolDrains` says a transaction
leaves the pool of an authority; on a follower it may stay for ever, because
only a validator that hears of it can seal it.

In `Sync`, `FairSpec` assumes weak fairness of `Handle` (the swarm loop takes
every event; which message comes first is left open) and of `Seal` (the
block-time loop again). Clients, losses, dropped links and restarts are not fair,
and neither is `Connect`: a link that went down may stay down. A connection idle
for 60 s is closed (`p2p.rs:20`), the close leaves `greeted` alone (`node.rs:240`),
a node dials a peer only when it first enters `greeted` (`node.rs:216`), and only
an mDNS expiry takes it out again. Two nodes that were quiet for a minute can so
lose each other, and a transaction submitted at the follower then waits until
something connects them again. No property promises otherwise, and none
rests on such a reconnection.

In `Gossip`, each node's loop is fair to the events of each protocol
(`select_next_some` yields all of them), to the timer, and to time passing: a
receipt, a delay and a pause run out. `Metabolism` assumes that the loop goes on
sampling (`Collect`: a machine whose `/proc` is unreadable for ever is
excluded) and that a webhook call ends, which `WEBHOOK_TIMEOUT` guarantees.
`Journey` assumes nothing: its properties are safety.

Deadlock is checked in every `Ledger` run. `LedgerReference` stops when its
bounds are reached, a network of `Sync` or `Gossip` when its transactions are on
chain and its messages are handled, and `Journey` when its edits are made and
its upsets used up. `Metabolism` never stops.

## 4. Proofs

For every value of the constants that satisfies the named assumptions. Each
theorem rests on an inductive invariant, named here with the reason it is needed.

**The loops of the code** (`ReferenceProofs`), on chains of any length and pools of
any size:

* `LoopsReplay`: `RefSpec => []ReplayAgrees`. `Mirrors` relates what a loop carries
  to the chain it has read so far: ids, nonces and balances are those of the
  chain, and the loop has not failed exactly when every position of it applies.
  One transaction more at the end of a chain moves both sides alike (`OneMoreApplies`,
  `ApplyMirrors`), because the positions before an earlier one stay what they
  were; then a block (`VerifyMirrors`) and a chain (`ReplayMirrors`) by induction.
* `LoopsAppend`: `RefSpec => []AppendAgrees`. The same lemma for a loop that starts
  from the state of the prefix instead of the initial one (`AppendIs`).
* `LoopsRequeue`: `RefSpec => []RequeueAgrees`. After each round of the loop, what was
  kept is what the closed form keeps of the transactions read (`QueueAgainIs`).
  They come by sender and nonce, so the first refusal of a sender leaves a gap
  that refuses the rest, and the ceiling never refuses what was in the pool
  before. The invariant `RefInv` says that the pool is within the ceiling and one
  that admission built over the chain it grew on: with two transactions for one
  nonce, or above the ceiling, the two readings would differ.

**A node** (`LedgerProofs`, `PoolProofs`):

* `TypeCorrect`: `Spec => []TypeOK`. The part that is not routine is that
  balances stay in `0 .. MaxAmount`: `BlockValid` asks it of the state after the
  last position, and `ChainValid` of the replayed one.
* `NeverEquivocates`: `Spec => []NoEquivocation`. `NoEquivocation` alone is not
  inductive: after a restart the node would seal at heights it had announced.
  `AnnouncedDurable` adds that every announced height is on the file, and
  the file is never longer than the chain in memory; a new announcement is made
  only of a saved block, hence higher than all before it.
* `PoolAlwaysContiguous`: `Spec => []PoolContiguous`. Admission asks for the
  nonce after the run of the sender; what `Requeued` keeps is closed under
  smaller nonces from the new expected one on, and two pending transactions of
  a sender never share a nonce, so it is a run again (`GaplessIsRun`).
* `NamesStayBound`: `Spec => KeysNeverRebound`, from the type invariant, one
  case per action.
* `NothingReplayed`: `Spec => []NoReplay`. The invariant adds that the index is
  the set of ids on the chain and that every nonce on it is below the one the
  chain expects, and keeps all of it of the file too, because a restart takes
  the file's chain and nonces. What applies to a state is unique because the
  nonce asked at a position is a count of earlier positions (`SentMore`), and a
  block that is new to the chain keeps it unique (`AppendUnique`).
* `CachesStayReplay`: `Spec => []CachesAreReplay`. The heart is that applying a
  block to the running state is replaying the longer chain (`ApplyAppend`,
  `ReplayAppend`): the positions of the longer chain before one in its last
  block are all those of the shorter chain and those of the block before it, so
  that counts and sums split. The file's caches are part of the invariant, since
  a restart takes them.
* `FileAlwaysStarts`: `NameIsOurs => (Spec => []FileStarts)`. What is on file
  was valid with the keys of the moment, names are never rebound and
  authorities never removed, so it still is. One step may rebind a name: the
  start itself registers the identity of the node (`register_authority`). The
  hypothesis says that no chain of a peer binds this node's name to another key.
  Without it TLC finds the counterexample: a follower adopts a chain in which
  its own name pays with a foreign key, becomes an authority, and does not start
  from its file any more. With distinct names in the network, which the manual
  asks for, the hypothesis holds.
* `ValueConserved`: `Spec => []Conservation`. The sum over all accounts of what
  a chain moved is what the mint issued (`SupplyAfter`): each transfer counts
  once as received and once as sent, whatever the order.
* `WeightIsCounted`: `Spec => []PoolWeight`; `SealersStayAuthorized`:
  `Spec => []AuthorizedWhenSealing`, from the names and authorities that are
  never taken back while a node runs.
* `PoolAlwaysSealable`: `Spec => []PoolSealable`, and `ShutdownKeepsAll`:
  `Spec => ShutdownSeals`. The invariant `Accepted` says of every pending
  transaction that it is signed, well formed and new to the chain, and `Funded`
  that each sender's pending total is within its balance. A drained pool then
  passes `verify_block` position by position: what a sender has spent before a
  position is part of its pending total, and credits only help.
* `DropsExplained`: `Spec => DropsAreExplained`. A block that has nothing of a
  sender leaves its nonce alone and its balance no smaller, so all its pending
  transactions are queued again (`ReconcileKeeps`).

**The network** (`SealerProofs`, `GossipProofs`):

* `NetworkIsOneLog`: `Spec => IsOneLog` in `OneSealer`, that is, `Sync` with one
  sealer implements `ReplicatedLog` under the mapping of each replica's copy to
  the node's chain. The invariant is that every chain in the network, held by a
  node or carried by a message however old, is a piece of the leader's from the
  start (`Piece`), and that nobody knows of another authority. Hence the leader
  never adopts anything, and everybody else only gets longer pieces.
* `GossipKeepsOneLog`: `GossipSpec => IsOneLog`, the same of the network with both
  protocols. `GossipInv` adds what packets and deadlines may name, because a
  packet that is accepted reaches the pool that the leader seals.
* `ReceiptsStayTrue`: `HonestClients => (GossipSpec => []ReceiptsHold)`, where
  `HonestClients` says that a client signs one transaction for a nonce. Without
  it two of them, submitted at two nodes, make the network drop one after its
  receipt. The invariant `ServeInv` adds that every answer under way that
  acknowledges is true, and that each pool is one that admission could have
  built over the node's chain (`Admitted`). Such a pool loses nothing but to the
  chain (`NothingLost`): chains are pieces of one valid log, so what a longer
  one has of a sender is the front of the sender's queue
  (`ConfirmedWasPending`), and the rest was affordable together with it
  (`LeadStaysFunded`). A restart does lose the pool, but cuts the links of the
  node, and with them the receipts it gave.
* `RefusedOnlyWhenBehind`:
  `HonestClients /\ NamesAgree => (GossipSpec => RejectedOnlyWhenBehind)`. The
  invariant `OfferInv` says of every request under way, however late, that it is
  `Backed`: over a piece of the log its asker had, the transaction was part of a
  run its sender could pay, and what comes before it in that run the peer holds,
  because receipts are true. A peer with all the blocks of the asker therefore
  has the run up to the transaction, pending or confirmed, so it expects this
  nonce and finds the funds (`InLineIsWelcome`, from the same facts on longer
  chains as `NothingLost`). Its answer in the property is made by the very step,
  because drive makes up no answer. `NamesAgree` says that the nodes' files give
  no name two keys and know the sealer's; without it two names that mean
  different keys make a peer refuse at any height.

**The metabolic loop** (`MetabolismProofs`):

* `MonitorTypes`: `Spec => []TypeOK`, with the two counts below the run lengths that
  reset them.
* `RequestsSustained`: `Spec => []RequestsAreSustained` in `Metabolism`, for any
  thresholds with the lower one below the upper. The invariant `Remembers` says
  that the two counts are the lengths of the runs at the end of the remembered
  samples, and that a request comes of a whole run and resets both. The memory is
  as long as the longer run, which loses nothing of either (`RunInWindow`).
* `ReceiverKeptInformed`: `Spec => []ReceiverInformed`. The invariant `InStep` ties
  the gate, the decision, the published status and the receiver's news together
  between two calls, and says that only a call that failed may still arrive.

**The journey** (`JourneyProofs`), for any number of browsers and tabs:

* `NothingOverwrittenUnread`: `Spec => SavedEditsStay`. The compare-and-swap of
  `update_journey` is worth something only if a revision in a client stands for
  what it has read. `ReadInv` says so of every place that holds a journey with a
  revision - tabs that have loaded, drafts, answers under way, the edits a
  renewal keeps, writes that may still arrive: if the revision is still the
  server's, the server has nothing that the journey lacks but what was undone
  or given up (`Sound`). A write moves the revision on, and whatever was sound
  stays sound or becomes stale (`SoundStill`).
* `NoEditLost`: `Spec => []EditsKept`. `HeldInv` is stronger than the property in
  one respect worth knowing: as long as the pages live, no draft is the only
  copy of an edit. What a page drops it either got confirmed, or read from the
  server since, or hands to the request that renews the session.

Sums: totals are folds over finite sets (`SumFunctionOnSet`). `BlockchainProofs`
proves what the theorems need (adding an element, splitting, comparing, summing by
groups) by taking a smallest set that would violate a lemma, with the
least-number principle for sets of naturals; the induction theorems of the
library take predicates, which the provers cannot instantiate. The loops are
handled the same way: induction over the set of the indices up to which a loop
has a value (`LoopDefined`), or up to which it mirrors the chain, in place of a
predicate.

Assumptions: the types of the constants, finitely many accounts whose names have
a total order (`Rank`; the pool is drained by name, then nonce), that the blocks
`LedgerReference` grows have accounts as authors, that this node's own name is not the mint's, that the initial
allocation is within the width and, for the theorems about the network, that
every node starts from the leader's genesis with the leader as the only
authority, and that writes of the chain file succeed; for `Metabolism`, that the
relaxation threshold is below the stress threshold; for `FileAlwaysStarts`
alone, `NameIsOurs`; for `ReceiptsStayTrue` and `RefusedOnlyWhenBehind`,
`HonestClients`, and for the latter `NamesAgree`, both of which the instances of
`MCGossip` satisfy. That peers send valid data is not assumed of a node in
`Ledger`.

Every invariant of a passing run is a theorem. Only model-checked: what must
eventually hold (`PoolDrains`, `Converges`, `EchoEnds`, `NeverFarApart`,
`PendingSettles`, `StressIsHeard`), which rests on fairness and is out of the
prover's reach.

## 5. Where code and documentation disagree

Shown by a run:

* `StressIsHeard` (`MetabolismSaturated`): `ProcfsVitalsSource` reports no latency
  and no errors (`monitoring.rs:204`), CPU and memory weigh 40 % each, so the
  score of the node's own source never exceeds 80, and the threshold is 85. The
  manual (`docs/nodo.md:93`) lists `hypertrophy` among the answers of a node that
  samples all four.
* `RenewalKeepsDraft` (`JourneyRenewal`): `authenticate` clears `pending` before it
  loads, and puts the edits back only after a load that succeeds
  (`useJourney.ts:189`). If it fails, the page says that nothing is pending and
  the next reading of the server replaces them. The comment at line 179 says the
  renewal keeps the draft in memory even when the storage is full.

Met while modelling, by reading; no run is spent on them:

* `docs/nodo.md:182` and `ledger.rs:35` tell clients that a refusal for nonce or
  funds does not change when retried. Sent again unchanged after its predecessor
  is queued or income arrives, the same transaction is accepted
  (`mempool.rs:118`).
* `docs/nodo.md:176` says nothing is discarded silently. `reconcile_mempool`
  discards what no longer fits (`blockchain.rs:486`).
* `service.rs:20` and `docs/nodo.md:297` say a change is written before the
  handler moves on. A failed save is logged and the block is relayed
  (`service.rs:137`).
* `docs/nodo.md:47` says no step teaches both the name and the key of an
  authority. `apply_snapshot` merges the peer's keys, then the authorities whose
  key is now known (`sync.rs:143`).
* `sync.rs:92` and `docs/nodo.md:294` say a block that does not extend our tip
  makes the node ask for the chain. One at our height on another parent is an
  error (`BrokenLink`), logged at `service.rs:68`, and nothing is asked.

## 6. Not modelled

Hash functions, signatures as bytes, JSON and protobuf encodings, logging, HTTP
status codes beyond what a handler does with them, the temporary file of a save
(the rename makes it all or nothing), libp2p itself, the configuration parser,
the queries, sensors and streams of REST and gRPC, the prototype in
`zion-core/src` that the node does not run, and the IoT, ML and LifeForge
directories, which hold a README each.

Of Nexus: registration, recovery, password change (but for the sessions it
ends), deletion, export and import, the validation and merge of
`domain/journey.ts`, a second account in the same browser, an unreadable draft,
an answer whose headers arrive and whose body does not, and the presentation.
`Journey` states no liveness: its tabs poll for ever, and the instance is too
large for a fair one. A renewal while another tab has a draft of its own is in
the model; the disagreement of csrf tokens between tabs that follows is too (403
on every write until the page is loaded again), without a property, because the
code promises no way out.

## 7. Plan

Done: the chain rules and the loops they stand for, one node, several nodes over
both protocols, the metabolic loop, the journey of Nexus; every invariant and
every action property of the passing runs is a theorem.

1. `Sync` with failing writes, so that a chain request is answered with a block
   that a crash then takes back.
2. Registration, recovery and password change in `Journey`.
