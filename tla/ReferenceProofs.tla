--------------------------- MODULE ReferenceProofs ---------------------------
(***************************************************************************)
(* Theorems about LedgerReference: the loops of blockchain.rs compute, on  *)
(* every chain and on every pool, what Blockchain states position by       *)
(* position.  Each loop is unrolled into the values it runs through, and   *)
(* an induction follows them one transaction or one block at a time.       *)
(***************************************************************************)
EXTENDS LedgerReference, BlockchainProofs

-----------------------------------------------------------------------------
(***************************************************************************)
(* Loops.  A loop that starts from a value of V and whose step stays in V  *)
(* runs through a value of V at each index.                                *)
(***************************************************************************)
StaysIn(n, V, start, step) ==
    start \in V /\ \A v \in V : \A i \in 1 .. n : step[<<v, i>>] \in V

LEMMA LoopDefined ==
    ASSUME NEW n \in Nat, NEW V, NEW start, NEW step, StaysIn(n, V, start, step)
    PROVE  \E run \in [0 .. n -> V] :
             run[0] = start /\ \A i \in 1 .. n : run[i] = step[<<run[i - 1], i>>]
<1> DEFINE Loop(run, m) ==
             run[0] = start /\ \A i \in 1 .. m : run[i] = step[<<run[i - 1], i>>]
           C == {m \in Nat : m <= n => \E run \in [0 .. m -> V] : Loop(run, m)}
<1>0. start \in V /\ \A v \in V : \A i \in 1 .. n : step[<<v, i>>] \in V
  BY DEF StaysIn
<1>1. 0 \in C
  <2> DEFINE run == [i \in 0 .. 0 |-> start]
  <2>1. run \in [0 .. 0 -> V] /\ Loop(run, 0)
    BY <1>0
  <2> HIDE DEF run, Loop
  <2> QED  BY <2>1
<1>2. ASSUME NEW m \in Nat, m \in C PROVE m + 1 \in C
  <2> SUFFICES ASSUME m + 1 <= n
               PROVE  \E run \in [0 .. m + 1 -> V] : Loop(run, m + 1)
    OBVIOUS
  <2>1. PICK old \in [0 .. m -> V] : Loop(old, m)
    BY <1>2
  <2> DEFINE run == [i \in 0 .. m + 1 |-> IF i <= m THEN old[i]
                                          ELSE step[<<old[m], m + 1>>]]
  <2>2. old[m] \in V /\ m + 1 \in 1 .. n
    OBVIOUS
  <2>3. run \in [0 .. m + 1 -> V]
    <3>1. step[<<old[m], m + 1>>] \in V
      BY <1>0, <2>2
    <3> QED  BY <3>1
  <2>4. ASSUME NEW i \in 0 .. m + 1
        PROVE  /\ i = 0 => run[i] = start
               /\ i # 0 => run[i] = step[<<run[i - 1], i>>]
    <3>1. CASE i <= m
      <4>1. i \in 0 .. m /\ run[i] = old[i]
        BY <3>1
      <4>2. i # 0 => i \in 1 .. m /\ run[i - 1] = old[i - 1]
        BY <3>1
      <4>3. (i = 0 => old[i] = start) /\ (i # 0 => old[i] = step[<<old[i - 1], i>>])
        BY <2>1, <4>1, <4>2
      <4> HIDE DEF run, Loop
      <4> QED  BY <4>1, <4>2, <4>3
    <3>2. CASE i = m + 1
      <4>1. run[i] = step[<<old[m], m + 1>>] /\ run[i - 1] = old[m] /\ i # 0
        BY <3>2
      <4> HIDE DEF run
      <4> QED  BY <3>2, <4>1
    <3> QED  BY <3>1, <3>2
  <2> HIDE DEF run
  <2>5. Loop(run, m + 1)
    <3>1. 0 \in 0 .. m + 1 /\ \A i \in 1 .. m + 1 : i \in 0 .. m + 1 /\ i # 0
      OBVIOUS
    <3> QED  BY <2>4, <3>1
  <2> QED  BY <2>3, <2>5
<1> HIDE DEF C
<1>3. n \in C
  BY <1>1, <1>2, NumbersInduction
<1> QED  BY <1>3 DEF C

-----------------------------------------------------------------------------
(***************************************************************************)
(* One transaction more at the end of a chain: cs is ds with t appended to *)
(* the last block.                                                         *)
(***************************************************************************)
OneMore(ds, cs, t) ==
    /\ Len(ds) > 0 /\ Len(cs) = Len(ds)
    /\ \A n \in 1 .. Len(ds) : n # Len(ds) => cs[n].txs = ds[n].txs
    /\ cs[Len(ds)].txs = Append(ds[Len(ds)].txs, t)

Last(ds) == <<Len(ds), Len(ds[Len(ds)].txs) + 1>>

LEMMA SlotIs ==
    ASSUME NEW bs \in Seq(Block)
    PROVE  /\ \A n \in 1 .. Len(bs) : bs[n] \in Block /\ bs[n].txs \in Seq(Txs)
           /\ \A n \in 1 .. Len(bs) : \A i \in 1 .. Len(bs[n].txs) : <<n, i>> \in Slots(bs)
<1>1. ASSUME NEW n \in 1 .. Len(bs) PROVE bs[n] \in Block /\ bs[n].txs \in Seq(Txs)
  <2>1. bs[n] \in Block
    OBVIOUS
  <2> QED  BY <2>1 DEF Block
<1>2. ASSUME NEW n \in 1 .. Len(bs), NEW i \in 1 .. Len(bs[n].txs)
      PROVE  <<n, i>> \in Slots(bs)
  <2>1. n \in DOMAIN bs /\ i \in DOMAIN bs[n].txs
    BY <1>1
  <2>2. <<n, i>> \in {n} \X DOMAIN bs[n].txs
    BY <2>1
  <2> QED  BY <2>1, <2>2 DEF Slots
<1> QED  BY <1>1, <1>2

\* The new transaction stands last, and nothing else has moved.
LEMMA OneMoreSlots ==
    ASSUME NEW ds \in Seq(Block), NEW cs \in Seq(Block), NEW t \in Txs, OneMore(ds, cs, t)
    PROVE  LET p == Last(ds)
           IN  /\ Slots(cs) = Slots(ds) \cup {p} /\ p \notin Slots(ds)
               /\ TxAt(cs, p) = t
               /\ \A q \in Slots(ds) : TxAt(cs, q) = TxAt(ds, q)
               /\ \A q \in Slots(ds) : SlotsBefore(cs, q) = SlotsBefore(ds, q)
               /\ SlotsBefore(cs, p) = Slots(ds)
<1> DEFINE p == Last(ds)
           k == Len(ds)
           m == Len(ds[k].txs)
<1>1. /\ k \in 1 .. Len(ds) /\ k \in Nat /\ Len(cs) = k /\ m \in Nat
      /\ ds[k].txs \in Seq(Txs) /\ cs[k].txs = Append(ds[k].txs, t)
      /\ \A n \in 1 .. k : n # k => cs[n].txs = ds[n].txs
      /\ p = <<k, m + 1>> /\ p[1] = k /\ p[2] = m + 1
  <2>1. k \in 1 .. Len(ds) /\ k \in Nat
    BY DEF OneMore
  <2>2. ds[k].txs \in Seq(Txs)
    BY <2>1, SlotIs
  <2> QED  BY <2>1, <2>2 DEF OneMore, Last
<1>2. /\ Len(cs[k].txs) = m + 1 /\ cs[k].txs[m + 1] = t
      /\ \A i \in 1 .. m : cs[k].txs[i] = ds[k].txs[i]
  BY <1>1
<1> HIDE DEF p, k, m
<1>3. ASSUME NEW q \in Slots(ds)
      PROVE  /\ q \in Slots(cs) /\ q # p /\ TxAt(cs, q) = TxAt(ds, q) /\ Precedes(q, p)
             /\ ~ Precedes(p, q)
  <2>1. /\ q[1] \in 1 .. k /\ q[2] \in 1 .. Len(ds[q[1]].txs)
        /\ q = <<q[1], q[2]>> /\ q[1] \in Nat /\ q[2] \in Nat
    BY SlotForm DEF k
  <2>2. CASE q[1] # k
    <3>1. cs[q[1]].txs = ds[q[1]].txs
      BY <1>1, <2>1, <2>2
    <3>2. q \in Slots(cs)
      BY <1>1, <2>1, <3>1, SlotIs
    <3>3. q[1] < p[1] /\ ~ (p[1] < q[1])
      BY <1>1, <2>1, <2>2
    <3> QED  BY <1>1, <2>2, <3>1, <3>2, <3>3 DEF TxAt, Precedes
  <2>3. CASE q[1] = k
    <3>1. q[2] \in 1 .. m
      BY <2>1, <2>3 DEF m
    <3>2. q[2] \in 1 .. Len(cs[q[1]].txs) /\ cs[q[1]].txs[q[2]] = ds[q[1]].txs[q[2]]
      BY <1>1, <1>2, <2>3, <3>1
    <3>3. q \in Slots(cs)
      BY <1>1, <2>1, <3>2, SlotIs
    <3>4. q[2] < p[2] /\ q[1] = p[1] /\ ~ (p[2] < q[2]) /\ ~ (p[1] < q[1]) /\ q # p
      BY <1>1, <2>1, <2>3, <3>1
    <3> QED  BY <3>2, <3>3, <3>4 DEF TxAt, Precedes
  <2> QED  BY <2>2, <2>3
<1>4. p \in Slots(cs) /\ TxAt(cs, p) = t /\ ~ Precedes(p, p)
  <2>1. k \in 1 .. Len(cs) /\ m + 1 \in 1 .. Len(cs[k].txs)
    BY <1>1, <1>2
  <2>2. p \in Slots(cs)
    BY <1>1, <2>1, SlotIs
  <2> QED  BY <1>1, <1>2, <2>2 DEF TxAt, Precedes
<1>5. ASSUME NEW q \in Slots(cs), q # p PROVE q \in Slots(ds)
  <2>1. /\ q[1] \in 1 .. k /\ q[2] \in 1 .. Len(cs[q[1]].txs)
        /\ q = <<q[1], q[2]>> /\ q[1] \in Nat /\ q[2] \in Nat
    BY <1>1, SlotForm
  <2>2. q[2] \in 1 .. Len(ds[q[1]].txs)
    <3>1. CASE q[1] # k
      BY <1>1, <2>1, <3>1
    <3>2. CASE q[1] = k
      <4>1. q[2] \in 1 .. m + 1 /\ q[2] # m + 1
        BY <1>1, <1>2, <1>5, <2>1, <3>2
      <4> QED  BY <1>1, <3>2, <4>1 DEF m
    <3> QED  BY <3>1, <3>2
  <2> QED  BY <2>1, <2>2, SlotIs DEF k
<1>6. Slots(cs) = Slots(ds) \cup {p} /\ p \notin Slots(ds)
  BY <1>3, <1>4, <1>5
<1>7. SlotsBefore(cs, p) = Slots(ds)
  BY <1>3, <1>4, <1>6 DEF SlotsBefore
<1>8. \A q \in Slots(ds) : SlotsBefore(cs, q) = SlotsBefore(ds, q)
  BY <1>3, <1>6 DEF SlotsBefore
<1> QED  BY <1>3, <1>4, <1>6, <1>7, <1>8 DEF p

\* What the new transaction moves, and the nonce it consumes.
LEMMA OneMoreMoves ==
    ASSUME NEW ds \in Seq(Block), NEW cs \in Seq(Block), NEW t \in Txs, OneMore(ds, cs, t),
           NEW st \in LedgerState, NEW a \in Accounts
    PROVE  /\ BalanceAfter(st, cs, Slots(cs), a)
                = BalanceAfter(st, ds, Slots(ds), a)
                    + (IF t.receiver = a THEN t.amount ELSE 0)
                    - (IF a # Mint /\ t.sender = a THEN t.amount ELSE 0)
           /\ NonceAfter(st, cs, Slots(cs), a)
                = NonceAfter(st, ds, Slots(ds), a)
                    + (IF a # Mint /\ t.sender = a THEN 1 ELSE 0)
<1> DEFINE p == Last(ds)
           D == Slots(ds)
           E == Slots(cs)
           sent == IF t.sender = a THEN {p} ELSE {}
           paid == IF t.receiver = a THEN {p} ELSE {}
<1>1. /\ E = D \cup {p} /\ p \notin D /\ TxAt(cs, p) = t
      /\ \A q \in D : TxAt(cs, q) = TxAt(ds, q)
  BY OneMoreSlots
<1> HIDE DEF p
<1>2. /\ SentBy(cs, E, a) = SentBy(ds, D, a) \cup sent
      /\ ReceivedBy(cs, E, a) = ReceivedBy(ds, D, a) \cup paid
  <2> HIDE DEF D, E
  <2> QED  BY <1>1 DEF SentBy, ReceivedBy
<1>3. AmountAt(cs, {p}) = t.amount /\ AmountAt(cs, {}) = 0 /\ t.amount \in Nat
  <2> DEFINE f == [q \in {p} |-> TxAt(cs, q).amount]
  <2>1. f[p] = t.amount /\ t.amount \in Int /\ t.amount \in Nat
    BY <1>1, TxFields
  <2>2. AmountAt(cs, {p}) = SumFunctionOnSet(f, {p})
    BY AmountAtSum
  <2> HIDE DEF f
  <2>3. SumFunctionOnSet(f, {} \cup {p}) = SumFunctionOnSet(f, {}) + f[p]
    BY <2>1, FS_EmptySet, SumAdd
  <2>4. {} \cup {p} = {p} /\ SumFunctionOnSet(f, {}) = 0
    BY SumEmpty
  <2> QED  BY <2>1, <2>2, <2>3, <2>4, AmountAtNone
<1>4. ASSUME NEW A \in SUBSET D, NEW B \in {{}, {p}}
      PROVE  AmountAt(cs, A \cup B) = AmountAt(ds, A) + AmountAt(cs, B)
  <2>1. A \in SUBSET E /\ B \in SUBSET E /\ A \cap B = {}
    BY <1>1
  <2>2. AmountAt(cs, A \cup B) = AmountAt(cs, A) + AmountAt(cs, B)
    BY <2>1, AmountAtUnion
  <2>3. AmountAt(cs, A) = AmountAt(ds, A)
    BY <1>1, AmountAtSame
  <2> QED  BY <2>2, <2>3
<1>5. /\ SentBy(ds, D, a) \in SUBSET D /\ ReceivedBy(ds, D, a) \in SUBSET D
      /\ sent \in {{}, {p}} /\ paid \in {{}, {p}}
  BY SenderPositions
<1>6. /\ AmountAt(ds, SentBy(ds, D, a)) \in Nat /\ AmountAt(ds, ReceivedBy(ds, D, a)) \in Nat
      /\ st.balances[a] \in Nat /\ st.nonces[a] \in Nat
      /\ Cardinality(SentBy(ds, D, a)) \in Nat
  BY BalanceType
<1>7. /\ AmountAt(cs, SentBy(cs, E, a))
            = AmountAt(ds, SentBy(ds, D, a)) + (IF t.sender = a THEN t.amount ELSE 0)
      /\ AmountAt(cs, ReceivedBy(cs, E, a))
            = AmountAt(ds, ReceivedBy(ds, D, a)) + (IF t.receiver = a THEN t.amount ELSE 0)
  <2>1. /\ AmountAt(cs, sent) = IF t.sender = a THEN t.amount ELSE 0
        /\ AmountAt(cs, paid) = IF t.receiver = a THEN t.amount ELSE 0
    BY <1>3
  <2> HIDE DEF D, E, sent, paid
  <2> QED  BY <1>2, <1>4, <1>5, <2>1
<1>8. Cardinality(SentBy(cs, E, a))
        = Cardinality(SentBy(ds, D, a)) + (IF t.sender = a THEN 1 ELSE 0)
  <2>1. IsFiniteSet(SentBy(ds, D, a)) /\ p \notin SentBy(ds, D, a)
    <3>1. IsFiniteSet(SentBy(ds, D, a))
      BY <1>5, PositionsFinite
    <3> HIDE DEF D
    <3> QED  BY <1>1, <1>5, <3>1
  <2>2. CASE t.sender = a
    <3>1. SentBy(cs, E, a) = SentBy(ds, D, a) \cup {p}
      BY <1>2, <2>2
    <3> HIDE DEF D, E, sent
    <3>2. Cardinality(SentBy(ds, D, a) \cup {p}) = Cardinality(SentBy(ds, D, a)) + 1
      BY <2>1, FS_AddElement
    <3> QED  BY <2>2, <3>1, <3>2
  <2>3. CASE t.sender # a
    <3>1. SentBy(cs, E, a) = SentBy(ds, D, a)
      BY <1>2, <2>3
    <3> HIDE DEF D, E, sent
    <3> QED  BY <1>6, <2>3, <3>1
  <2> QED  BY <2>2, <2>3
<1> HIDE DEF D, E, sent, paid
<1>9. BalanceAfter(st, cs, E, a)
        = BalanceAfter(st, ds, D, a) + (IF t.receiver = a THEN t.amount ELSE 0)
            - (IF a # Mint /\ t.sender = a THEN t.amount ELSE 0)
  <2> DEFINE out == AmountAt(ds, SentBy(ds, D, a))
             in  == AmountAt(ds, ReceivedBy(ds, D, a))
             more == AmountAt(cs, SentBy(cs, E, a))
             gain == AmountAt(cs, ReceivedBy(cs, E, a))
             had == st.balances[a]
             sum == t.amount
  <2>1. /\ BalanceAfter(st, cs, E, a) = had + gain - (IF a = Mint THEN 0 ELSE more)
        /\ BalanceAfter(st, ds, D, a) = had + in - (IF a = Mint THEN 0 ELSE out)
    BY DEF BalanceAfter
  <2>2. had \in Int /\ in \in Int /\ out \in Int /\ sum \in Int
    BY <1>3, <1>6
  <2>3. /\ t.sender = a => more = out + sum
        /\ t.sender # a => more = out + 0
        /\ t.receiver = a => gain = in + sum
        /\ t.receiver # a => gain = in + 0
    BY <1>7
  <2> HIDE DEF out, in, more, gain, had, sum
  <2>4. CASE t.receiver = a /\ a # Mint /\ t.sender = a
    BY <2>1, <2>2, <2>3, <2>4 DEF sum
  <2>5. CASE t.receiver = a /\ ~ (a # Mint /\ t.sender = a)
    <3>1. BalanceAfter(st, ds, D, a) = had + in - (IF a = Mint THEN 0 ELSE out) /\ gain = in + sum
      BY <2>1, <2>3, <2>5
    <3>2. BalanceAfter(st, cs, E, a) = had + gain - (IF a = Mint THEN 0 ELSE out)
      BY <2>1, <2>2, <2>3, <2>5
    <3>3. BalanceAfter(st, cs, E, a) = BalanceAfter(st, ds, D, a) + sum - 0
      BY <2>2, <3>1, <3>2
    <3> QED  BY <2>5, <3>3 DEF sum
  <2>6. CASE t.receiver # a /\ a # Mint /\ t.sender = a
    BY <2>1, <2>2, <2>3, <2>6 DEF sum
  <2>7. CASE t.receiver # a /\ ~ (a # Mint /\ t.sender = a)
    BY <2>1, <2>2, <2>3, <2>7 DEF sum
  <2> QED  BY <2>4, <2>5, <2>6, <2>7
<1>10. NonceAfter(st, cs, E, a)
        = NonceAfter(st, ds, D, a) + (IF a # Mint /\ t.sender = a THEN 1 ELSE 0)
  <2>1. CASE a = Mint
    BY <1>6, <2>1 DEF NonceAfter
  <2>2. CASE a # Mint
    BY <1>6, <1>8, <2>2 DEF NonceAfter
  <2> QED  BY <2>1, <2>2
<1> QED  BY <1>9, <1>10 DEF D, E

\* What apply_transaction asks of t in the state left by ds.
Applies(keys, seen, st, ds, t) ==
    LET now == StateAfter(st, ds)
    IN  /\ t.wellFormed
        /\ Id(t) \notin seen \cup Ids(ds)
        /\ t.sender # Mint =>
              /\ Signed(keys, t)
              /\ t.nonce = now.nonces[t.sender]
              /\ t.amount <= now.balances[t.sender]

\* A chain with one transaction more applies when the chain did, the
\* transaction applies to what it left, and no credit has overflowed.
LEMMA OneMoreApplies ==
    ASSUME NEW ds \in Seq(Block), NEW cs \in Seq(Block), NEW t \in Txs, OneMore(ds, cs, t),
           NEW st \in LedgerState, NEW keys, NEW seen
    PROVE  TransactionsApply(keys, seen, st, cs)
             <=> /\ TransactionsApply(keys, seen, st, ds)
                 /\ Applies(keys, seen, st, ds, t)
                 /\ WithinWidth(st, cs, Slots(cs))
<1> DEFINE p == Last(ds)
           D == Slots(ds)
           E == Slots(cs)
<1>1. /\ E = D \cup {p} /\ p \notin D /\ TxAt(cs, p) = t /\ SlotsBefore(cs, p) = D
      /\ \A q \in D : TxAt(cs, q) = TxAt(ds, q)
      /\ \A q \in D : SlotsBefore(cs, q) = SlotsBefore(ds, q)
  BY OneMoreSlots
<1> HIDE DEF p
<1>2. ASSUME NEW P \in SUBSET D, NEW a
      PROVE  /\ BalanceAfter(st, cs, P, a) = BalanceAfter(st, ds, P, a)
             /\ NonceAfter(st, cs, P, a) = NonceAfter(st, ds, P, a)
  <2>1. \A q \in P : TxAt(cs, q) = TxAt(ds, q)
    BY <1>1
  <2>2. SentBy(cs, P, a) = SentBy(ds, P, a) /\ ReceivedBy(cs, P, a) = ReceivedBy(ds, P, a)
    BY <2>1 DEF SentBy, ReceivedBy
  <2>3. /\ \A q \in SentBy(ds, P, a) : TxAt(cs, q) = TxAt(ds, q)
        /\ \A q \in ReceivedBy(ds, P, a) : TxAt(cs, q) = TxAt(ds, q)
    BY <2>1, SenderPositions
  <2>4. /\ AmountAt(cs, SentBy(ds, P, a)) = AmountAt(ds, SentBy(ds, P, a))
        /\ AmountAt(cs, ReceivedBy(ds, P, a)) = AmountAt(ds, ReceivedBy(ds, P, a))
    BY <2>3, AmountAtSame
  <2> QED  BY <2>2, <2>4 DEF BalanceAfter, NonceAfter
<1>3. ASSUME NEW P \in SUBSET D PROVE WithinWidth(st, cs, P) <=> WithinWidth(st, ds, P)
  BY <1>2 DEF WithinWidth
<1>4. ASSUME NEW q \in D
      PROVE  /\ Fresh(seen, cs, q) <=> Fresh(seen, ds, q)
             /\ Authorized(keys, st, cs, q) <=> Authorized(keys, st, ds, q)
             /\ WithinWidth(st, cs, SlotsBefore(cs, q))
                  <=> WithinWidth(st, ds, SlotsBefore(ds, q))
  <2>1. /\ SlotsBefore(cs, q) = SlotsBefore(ds, q) /\ TxAt(cs, q) = TxAt(ds, q)
        /\ SlotsBefore(ds, q) \in SUBSET D
    BY <1>1 DEF SlotsBefore
  <2>2. \A r \in SlotsBefore(ds, q) : TxAt(cs, r) = TxAt(ds, r)
    BY <1>1, <2>1
  <2> HIDE DEF D, E
  <2>3. Fresh(seen, cs, q) <=> Fresh(seen, ds, q)
    BY <2>1, <2>2 DEF Fresh
  <2>4. Authorized(keys, st, cs, q) <=> Authorized(keys, st, ds, q)
    BY <1>2, <2>1 DEF Authorized
  <2>5. WithinWidth(st, cs, SlotsBefore(cs, q)) <=> WithinWidth(st, ds, SlotsBefore(ds, q))
    BY <1>3, <2>1
  <2> QED  BY <2>3, <2>4, <2>5
<1>5. /\ Fresh(seen, cs, p) /\ Authorized(keys, st, cs, p)
        <=> Applies(keys, seen, st, ds, t)
  <2>1. t.sender \in Accounts
    BY TxFields
  <2>2. Fresh(seen, cs, p) <=> t.wellFormed /\ Id(t) \notin seen \cup Ids(ds)
    <3> HIDE DEF D, E
    <3>1. Ids(ds) = {Id(TxAt(cs, q)) : q \in D}
      BY <1>1 DEF Ids, D
    <3> QED  BY <1>1, <3>1 DEF Fresh
  <2>3. /\ StateAfter(st, ds).balances[t.sender] = BalanceAfter(st, cs, D, t.sender)
        /\ StateAfter(st, ds).nonces[t.sender] = NonceAfter(st, cs, D, t.sender)
    BY <1>2, <2>1 DEF StateAfter
  <2> HIDE DEF D, E
  <2> QED  BY <1>1, <2>2, <2>3 DEF Applies, Authorized
<1>6. WithinWidth(st, cs, SlotsBefore(cs, p)) <=> WithinWidth(st, ds, D)
  BY <1>1, <1>3
<1> HIDE DEF D, E
<1> QED  BY <1>1, <1>4, <1>5, <1>6 DEF TransactionsApply, D, E

-----------------------------------------------------------------------------
(***************************************************************************)
(* The running state of verify_block and replay.                           *)
(***************************************************************************)
Running ==
    [ok : BOOLEAN, seen : SUBSET {Id(t) : t \in Txs},
     balances : [Accounts -> 0 .. MaxAmount], nonces : [Accounts -> Nat]]

\* r is where a loop stands behind ds: it has failed exactly when ds does not
\* apply, and until then it holds what ds leaves.
Mirrors(r, sealed, keys, seen, st, ds) ==
    /\ r \in Running
    /\ r.ok <=> sealed /\ TransactionsApply(keys, seen, st, ds)
    /\ r.ok => /\ r.seen = seen \cup Ids(ds)
               /\ r.balances = StateAfter(st, ds).balances
               /\ r.nonces = StateAfter(st, ds).nonces

\* The balances apply_transaction writes.
Paid(r, t) ==
    LET debited == IF t.sender = Mint THEN r.balances
                   ELSE [r.balances EXCEPT ![t.sender] = r.balances[t.sender] - t.amount]
    IN  [debited EXCEPT ![t.receiver] = debited[t.receiver] + t.amount]

Counted(r, t) ==
    IF t.sender = Mint THEN r.nonces
    ELSE [r.nonces EXCEPT ![t.sender] = r.nonces[t.sender] + 1]

\* Everything apply_transaction looks at before it writes.
Passes(keys, r, t) ==
    /\ t.wellFormed
    /\ Id(t) \notin r.seen
    /\ t.sender # Mint => /\ Signed(keys, t)
                         /\ t.nonce = r.nonces[t.sender]
                         /\ t.amount <= r.balances[t.sender]

LEMMA PaidIs ==
    ASSUME NEW r \in Running, NEW t \in Txs
    PROVE  /\ DOMAIN Paid(r, t) = Accounts
           /\ \A a \in Accounts :
                Paid(r, t)[a] = r.balances[a] + (IF t.receiver = a THEN t.amount ELSE 0)
                    - (IF a # Mint /\ t.sender = a THEN t.amount ELSE 0)
           /\ \A a \in Accounts : r.balances[a] \in Nat /\ r.balances[a] <= MaxAmount
           /\ t.sender \in Accounts /\ t.receiver \in Accounts /\ t.amount \in Nat
           /\ MaxAmount \in Nat
<1>1. /\ t.sender \in Accounts /\ t.receiver \in Accounts /\ t.amount \in Nat
      /\ MaxAmount \in Nat
  BY TxFields, AllocationAssumption
<1>2. r.balances \in [Accounts -> 0 .. MaxAmount]
  BY DEF Running
<1>3. \A a \in Accounts : r.balances[a] \in Nat /\ r.balances[a] <= MaxAmount
  BY <1>1, <1>2
<1> DEFINE debited == IF t.sender = Mint THEN r.balances
                      ELSE [r.balances EXCEPT ![t.sender] = r.balances[t.sender] - t.amount]
<1>4. /\ DOMAIN debited = Accounts
      /\ \A a \in Accounts :
            debited[a] = IF a # Mint /\ t.sender = a THEN r.balances[a] - t.amount
                         ELSE r.balances[a]
  BY <1>1, <1>2
<1>5. Paid(r, t) = [debited EXCEPT ![t.receiver] = debited[t.receiver] + t.amount]
  BY DEF Paid
<1> HIDE DEF debited
<1>6. /\ DOMAIN Paid(r, t) = Accounts
      /\ \A a \in Accounts :
            Paid(r, t)[a] = IF t.receiver = a THEN debited[a] + t.amount ELSE debited[a]
  BY <1>1, <1>4, <1>5
<1>7. ASSUME NEW a \in Accounts
      PROVE  Paid(r, t)[a] = r.balances[a] + (IF t.receiver = a THEN t.amount ELSE 0)
                    - (IF a # Mint /\ t.sender = a THEN t.amount ELSE 0)
  <2>1. /\ Paid(r, t)[a] = IF t.receiver = a THEN debited[a] + t.amount ELSE debited[a]
        /\ debited[a] = IF a # Mint /\ t.sender = a THEN r.balances[a] - t.amount
                        ELSE r.balances[a]
        /\ r.balances[a] \in Nat /\ t.amount \in Nat
    BY <1>1, <1>3, <1>4, <1>6
  <2>2. CASE t.receiver = a /\ a # Mint /\ t.sender = a
    BY <2>1, <2>2
  <2>3. CASE t.receiver = a /\ ~ (a # Mint /\ t.sender = a)
    BY <2>1, <2>3
  <2>4. CASE t.receiver # a /\ a # Mint /\ t.sender = a
    BY <2>1, <2>4
  <2>5. CASE t.receiver # a /\ ~ (a # Mint /\ t.sender = a)
    BY <2>1, <2>5
  <2> QED  BY <2>2, <2>3, <2>4, <2>5
<1> QED  BY <1>1, <1>3, <1>6, <1>7

\* apply_transaction fails for good or writes all it writes.
LEMMA ApplyCases ==
    ASSUME NEW keys, NEW r \in Running, NEW t \in Txs
    PROVE  LET fits == r.ok /\ Passes(keys, r, t) /\ Paid(r, t)[t.receiver] <= MaxAmount
           IN  /\ fits => ApplyTransaction(keys, r, t) =
                    [ok |-> TRUE, seen |-> r.seen \cup {Id(t)},
                     balances |-> Paid(r, t), nonces |-> Counted(r, t)]
               /\ ~ fits => ApplyTransaction(keys, r, t) = [r EXCEPT !.ok = FALSE]
<1> DEFINE debited == IF t.sender = Mint THEN r.balances
                      ELSE [r.balances EXCEPT ![t.sender] = r.balances[t.sender] - t.amount]
           credited == debited[t.receiver] + t.amount
           fits == r.ok /\ Passes(keys, r, t) /\ Paid(r, t)[t.receiver] <= MaxAmount
           guard == /\ r.ok /\ t.wellFormed /\ Id(t) \notin r.seen
                    /\ ~ (t.sender = Mint) => /\ Signed(keys, t)
                                            /\ t.nonce = r.nonces[t.sender]
                                            /\ r.balances[t.sender] >= t.amount
                    /\ credited <= MaxAmount
           done == [ok |-> TRUE, seen |-> r.seen \cup {Id(t)},
                    balances |-> [debited EXCEPT ![t.receiver] = credited],
                    nonces |-> IF t.sender = Mint THEN r.nonces
                               ELSE [r.nonces EXCEPT ![t.sender] = r.nonces[t.sender] + 1]]
<1>1. ApplyTransaction(keys, r, t) = IF guard THEN done ELSE [r EXCEPT !.ok = FALSE]
  BY DEF ApplyTransaction
<1>2. done = [ok |-> TRUE, seen |-> r.seen \cup {Id(t)},
              balances |-> Paid(r, t), nonces |-> Counted(r, t)]
  BY DEF Paid, Counted
<1>3. guard <=> fits
  <2>1. /\ t.receiver \in Accounts /\ t.sender \in Accounts
        /\ r.balances \in [Accounts -> 0 .. MaxAmount]
    BY TxFields DEF Running
  <2>2. Paid(r, t)[t.receiver] = credited
    <3>1. t.receiver \in DOMAIN debited
      BY <2>1
    <3>2. Paid(r, t) = [debited EXCEPT ![t.receiver] = debited[t.receiver] + t.amount]
      BY DEF Paid
    <3> HIDE DEF debited
    <3> QED  BY <3>1, <3>2
  <2>3. r.balances[t.sender] >= t.amount <=> t.amount <= r.balances[t.sender]
    BY PaidIs
  <2> HIDE DEF credited
  <2> QED  BY <2>2, <2>3 DEF Passes
<1> HIDE DEF guard, done, fits
<1>4. (fits => ApplyTransaction(keys, r, t) = done)
      /\ (~ fits => ApplyTransaction(keys, r, t) = [r EXCEPT !.ok = FALSE])
  BY <1>1, <1>3
<1> QED  BY <1>2, <1>4 DEF fits

LEMMA ApplyType ==
    ASSUME NEW keys, NEW r \in Running, NEW t \in Txs
    PROVE  ApplyTransaction(keys, r, t) \in Running
<1> DEFINE fits == r.ok /\ Passes(keys, r, t) /\ Paid(r, t)[t.receiver] <= MaxAmount
           done == [ok |-> TRUE, seen |-> r.seen \cup {Id(t)},
                    balances |-> Paid(r, t), nonces |-> Counted(r, t)]
<1>0. /\ fits => ApplyTransaction(keys, r, t) = done
      /\ ~ fits => ApplyTransaction(keys, r, t) = [r EXCEPT !.ok = FALSE]
  BY ApplyCases
<1>1. CASE fits
  <2>1. ASSUME NEW a \in Accounts PROVE Paid(r, t)[a] \in 0 .. MaxAmount
    <3>1. /\ Paid(r, t)[a] = r.balances[a] + (IF t.receiver = a THEN t.amount ELSE 0)
                    - (IF a # Mint /\ t.sender = a THEN t.amount ELSE 0)
          /\ r.balances[a] \in Nat /\ r.balances[a] <= MaxAmount
          /\ t.amount \in Nat /\ MaxAmount \in Nat
      BY PaidIs
    <3>2. a # Mint /\ t.sender = a => t.amount <= r.balances[a]
      BY <1>1 DEF Passes
    <3>3. t.receiver = a => Paid(r, t)[a] <= MaxAmount
      BY <1>1
    <3>4. CASE t.receiver = a /\ a # Mint /\ t.sender = a
      BY <3>1, <3>2, <3>4
    <3>5. CASE t.receiver = a /\ ~ (a # Mint /\ t.sender = a)
      BY <3>1, <3>3, <3>5
    <3>6. CASE t.receiver # a /\ a # Mint /\ t.sender = a
      BY <3>1, <3>2, <3>6
    <3>7. CASE t.receiver # a /\ ~ (a # Mint /\ t.sender = a)
      BY <3>1, <3>7
    <3> QED  BY <3>4, <3>5, <3>6, <3>7
  <2>2. Paid(r, t) = [a \in Accounts |-> Paid(r, t)[a]]
    BY PaidIs DEF Paid
  <2>3. Paid(r, t) \in [Accounts -> 0 .. MaxAmount]
    BY <2>1, <2>2
  <2>4. Counted(r, t) \in [Accounts -> Nat]
    BY TxFields DEF Counted, Running
  <2>5. r.seen \cup {Id(t)} \in SUBSET {Id(u) : u \in Txs}
    BY DEF Running
  <2>6. done \in Running
    BY <2>3, <2>4, <2>5 DEF Running
  <2>7. ApplyTransaction(keys, r, t) = done
    BY <1>0, <1>1
  <2> HIDE DEF done
  <2> QED  BY <2>6, <2>7
<1>2. CASE ~ fits
  <2>1. [r EXCEPT !.ok = FALSE] \in Running
    BY DEF Running
  <2>2. ApplyTransaction(keys, r, t) = [r EXCEPT !.ok = FALSE]
    BY <1>0, <1>2
  <2> QED  BY <2>1, <2>2
<1> QED  BY <1>1, <1>2

\* One more round of the loop is one more transaction on the chain.
LEMMA ApplyMirrors ==
    ASSUME NEW ds \in Seq(Block), NEW cs \in Seq(Block), NEW t \in Txs, OneMore(ds, cs, t),
           NEW st \in LedgerState, NEW keys, NEW seen, NEW sealed, NEW r,
           Mirrors(r, sealed, keys, seen, st, ds)
    PROVE  Mirrors(ApplyTransaction(keys, r, t), sealed, keys, seen, st, cs)
<1> DEFINE now == StateAfter(st, ds)
           next == StateAfter(st, cs)
           s == ApplyTransaction(keys, r, t)
           fits == r.ok /\ Passes(keys, r, t) /\ Paid(r, t)[t.receiver] <= MaxAmount
<1>1. /\ TransactionsApply(keys, seen, st, cs)
            <=> /\ TransactionsApply(keys, seen, st, ds)
                /\ Applies(keys, seen, st, ds, t)
                /\ WithinWidth(st, cs, Slots(cs))
  BY OneMoreApplies
<1>2. /\ r \in Running /\ s \in Running
  BY ApplyType DEF Mirrors
<1>3. CASE ~ r.ok
  <2>1. s = [r EXCEPT !.ok = FALSE]
    BY <1>2, <1>3, ApplyCases
  <2>2. ~ s.ok
    BY <1>2, <2>1 DEF Running
  <2>3. ~ (sealed /\ TransactionsApply(keys, seen, st, cs))
    BY <1>1, <1>3 DEF Mirrors
  <2> HIDE DEF s
  <2>4. Mirrors(s, sealed, keys, seen, st, cs)
    BY <1>2, <2>2, <2>3 DEF Mirrors
  <2> QED  BY <2>4 DEF s
<1>4. CASE r.ok
  <2>1. /\ sealed /\ TransactionsApply(keys, seen, st, ds)
        /\ r.seen = seen \cup Ids(ds) /\ r.balances = now.balances /\ r.nonces = now.nonces
    BY <1>4 DEF Mirrors
  <2>2. Passes(keys, r, t) <=> Applies(keys, seen, st, ds, t)
    BY <2>1 DEF Passes, Applies
  <2>3. ASSUME NEW a \in Accounts
        PROVE  /\ next.balances[a] = Paid(r, t)[a]
               /\ next.balances[a] = BalanceAfter(st, cs, Slots(cs), a)
               /\ next.nonces[a] = Counted(r, t)[a]
    <3>1. /\ now.balances[a] = BalanceAfter(st, ds, Slots(ds), a)
          /\ now.nonces[a] = NonceAfter(st, ds, Slots(ds), a)
          /\ next.balances[a] = BalanceAfter(st, cs, Slots(cs), a)
          /\ next.nonces[a] = NonceAfter(st, cs, Slots(cs), a)
      BY DEF StateAfter
    <3>2. Paid(r, t)[a] = r.balances[a] + (IF t.receiver = a THEN t.amount ELSE 0)
                    - (IF a # Mint /\ t.sender = a THEN t.amount ELSE 0)
      BY <1>2, PaidIs
    <3>3. Counted(r, t)[a] = r.nonces[a] + (IF a # Mint /\ t.sender = a THEN 1 ELSE 0)
      <4>1. r.nonces \in [Accounts -> Nat] /\ t.sender \in Accounts /\ r.nonces[a] \in Nat
        BY <1>2, TxFields DEF Running
      <4> HIDE DEF now, next
      <4>2. CASE t.sender = Mint
        BY <4>1, <4>2 DEF Counted
      <4>3. CASE t.sender # Mint /\ t.sender = a
        BY <4>1, <4>3 DEF Counted
      <4>4. CASE t.sender # Mint /\ t.sender # a
        BY <4>1, <4>4 DEF Counted
      <4> QED  BY <4>2, <4>3, <4>4
    <3>4. /\ BalanceAfter(st, cs, Slots(cs), a)
                = BalanceAfter(st, ds, Slots(ds), a)
                    + (IF t.receiver = a THEN t.amount ELSE 0)
                    - (IF a # Mint /\ t.sender = a THEN t.amount ELSE 0)
          /\ NonceAfter(st, cs, Slots(cs), a)
                = NonceAfter(st, ds, Slots(ds), a)
                    + (IF a # Mint /\ t.sender = a THEN 1 ELSE 0)
      BY OneMoreMoves
    <3> HIDE DEF now, next
    <3> QED  BY <2>1, <3>1, <3>2, <3>3, <3>4
  <2>4. next.balances = Paid(r, t)
    <3>1. next.balances = [a \in Accounts |-> next.balances[a]]
      BY DEF StateAfter
    <3>2. Paid(r, t) = [a \in Accounts |-> Paid(r, t)[a]]
      BY <1>2, PaidIs DEF Paid
    <3> HIDE DEF next
    <3> QED  BY <2>3, <3>1, <3>2
  <2>5. next.nonces = Counted(r, t)
    <3>1. next.nonces = [a \in Accounts |-> next.nonces[a]]
      BY DEF StateAfter
    <3>2. Counted(r, t) = [a \in Accounts |-> Counted(r, t)[a]]
      BY <1>2 DEF Counted, Running
    <3> HIDE DEF next
    <3> QED  BY <2>3, <3>1, <3>2
  <2>6. fits => WithinWidth(st, cs, Slots(cs))
    <3> SUFFICES ASSUME fits, NEW a \in Accounts
                 PROVE  BalanceAfter(st, cs, Slots(cs), a) \in 0 .. MaxAmount
      BY DEF WithinWidth
    <3>1. s.balances = Paid(r, t)
      <4>1. s = [ok |-> TRUE, seen |-> r.seen \cup {Id(t)},
                 balances |-> Paid(r, t), nonces |-> Counted(r, t)]
        BY <1>2, ApplyCases
      <4> HIDE DEF s
      <4> QED  BY <4>1
    <3>2. Paid(r, t)[a] \in 0 .. MaxAmount
      BY <1>2, <3>1 DEF Running
    <3> QED  BY <2>3, <3>2
  <2>7. WithinWidth(st, cs, Slots(cs)) => Paid(r, t)[t.receiver] <= MaxAmount
    <3>1. t.receiver \in Accounts /\ MaxAmount \in Nat
      BY TxFields, AllocationAssumption
    <3>2. next.balances[t.receiver] = Paid(r, t)[t.receiver]
          /\ next.balances[t.receiver] = BalanceAfter(st, cs, Slots(cs), t.receiver)
      BY <2>3, <3>1
    <3> HIDE DEF next
    <3> QED  BY <3>1, <3>2 DEF WithinWidth
  <2>8. Ids(cs) = Ids(ds) \cup {Id(t)}
    <3> DEFINE p == Last(ds)
    <3>1. /\ Slots(cs) = Slots(ds) \cup {p} /\ TxAt(cs, p) = t
          /\ \A q \in Slots(ds) : TxAt(cs, q) = TxAt(ds, q)
      BY OneMoreSlots
    <3> HIDE DEF p
    <3> QED  BY <3>1 DEF Ids
  <2>9. fits <=> sealed /\ TransactionsApply(keys, seen, st, cs)
    BY <1>1, <1>4, <2>1, <2>2, <2>6, <2>7
  <2>10. CASE fits
    <3>1. s = [ok |-> TRUE, seen |-> r.seen \cup {Id(t)},
               balances |-> Paid(r, t), nonces |-> Counted(r, t)]
      BY <1>2, <2>10, ApplyCases
    <3>2. /\ s.ok /\ s.seen = seen \cup Ids(cs)
          /\ s.balances = next.balances /\ s.nonces = next.nonces
      <4>1. r.seen \cup {Id(t)} = seen \cup Ids(cs)
        BY <2>1, <2>8
      <4> HIDE DEF next, s
      <4> QED  BY <2>4, <2>5, <3>1, <4>1
    <3> HIDE DEF s, fits
    <3>3. Mirrors(s, sealed, keys, seen, st, cs)
      BY <1>2, <2>9, <2>10, <3>2 DEF Mirrors
    <3> QED  BY <3>3 DEF s
  <2>11. CASE ~ fits
    <3>1. s = [r EXCEPT !.ok = FALSE]
      BY <1>2, <2>11, ApplyCases
    <3>2. ~ s.ok
      BY <1>2, <3>1 DEF Running
    <3> HIDE DEF s, fits
    <3>3. Mirrors(s, sealed, keys, seen, st, cs)
      BY <1>2, <2>9, <2>11, <3>2 DEF Mirrors
    <3> QED  BY <3>3 DEF s
  <2> QED  BY <2>10, <2>11
<1> QED  BY <1>3, <1>4

-----------------------------------------------------------------------------
\* Nothing has been applied yet.
LEMMA NoBlocks ==
    ASSUME NEW st \in LedgerState, NEW keys, NEW seen
    PROVE  /\ Ids(<<>>) = {} /\ TransactionsApply(keys, seen, st, <<>>)
           /\ StateAfter(st, <<>>).balances = st.balances
           /\ StateAfter(st, <<>>).nonces = st.nonces
<1> DEFINE none == <<>>
<1>1. Slots(none) = {}
  BY DEF Slots
<1>2. none \in Seq(Block)
  OBVIOUS
<1> HIDE DEF none
<1>3. ASSUME NEW a \in Accounts
      PROVE  /\ BalanceAfter(st, none, {}, a) = st.balances[a]
             /\ NonceAfter(st, none, {}, a) = st.nonces[a]
  <2>1. SentBy(none, {}, a) = {} /\ ReceivedBy(none, {}, a) = {}
    BY DEF SentBy, ReceivedBy
  <2>2. AmountAt(none, {}) = 0 /\ Cardinality({}) = 0
    BY AmountAtNone, FS_EmptySet
  <2>3. st.balances[a] \in Int /\ st.nonces[a] \in Int
    BY AllocationAssumption DEF LedgerState
  <2>4. /\ AmountAt(none, SentBy(none, {}, a)) = 0 /\ AmountAt(none, ReceivedBy(none, {}, a)) = 0
        /\ Cardinality(SentBy(none, {}, a)) = 0
    BY <2>1, <2>2
  <2> QED  BY <2>3, <2>4 DEF BalanceAfter, NonceAfter
<1>4. StateAfter(st, none).balances = st.balances /\ StateAfter(st, none).nonces = st.nonces
  <2>1. /\ st.balances = [a \in Accounts |-> st.balances[a]]
        /\ st.nonces = [a \in Accounts |-> st.nonces[a]]
    BY DEF LedgerState
  <2>2. /\ StateAfter(st, none).balances = [a \in Accounts |-> BalanceAfter(st, none, {}, a)]
        /\ StateAfter(st, none).nonces = [a \in Accounts |-> NonceAfter(st, none, {}, a)]
    BY <1>1 DEF StateAfter
  <2> QED  BY <1>3, <2>1, <2>2
<1>5. WithinWidth(st, none, {})
  BY <1>3 DEF WithinWidth, LedgerState
<1>6. TransactionsApply(keys, seen, st, none)
  BY <1>1, <1>5 DEF TransactionsApply
<1>7. Ids(none) = {}
  BY <1>1 DEF Ids
<1> QED  BY <1>4, <1>6, <1>7 DEF none

\* A block that is still empty changes nothing.
LEMMA EmptyBlock ==
    ASSUME NEW bs \in Seq(Block), NEW b \in Block, b.txs = <<>>,
           NEW st \in LedgerState, NEW keys, NEW seen
    PROVE  LET cs == Append(bs, b)
           IN  /\ Ids(cs) = Ids(bs) /\ StateAfter(st, cs) = StateAfter(st, bs)
               /\ TransactionsApply(keys, seen, st, cs) <=> TransactionsApply(keys, seen, st, bs)
<1> DEFINE cs == Append(bs, b)
           S  == Slots(bs)
<1>1. Slots(<<b>>) = {}
  BY OneBlock
<1>2. Moved(bs, Slots(<<b>>)) = {}
  BY <1>1 DEF Moved
<1>3. Slots(cs) = S
  <2>1. Slots(cs) = S \cup Moved(bs, Slots(<<b>>))
    BY SlotsOfAppend
  <2> HIDE DEF S, cs
  <2> QED  BY <1>2, <2>1
<1>4. /\ \A q \in S : TxAt(cs, q) = TxAt(bs, q)
      /\ \A q \in S : SlotsBefore(cs, q) = SlotsBefore(bs, q)
  BY SlotsAppend, BeforeInAppend
<1>5. ASSUME NEW P \in SUBSET S, NEW a
      PROVE  /\ BalanceAfter(st, cs, P, a) = BalanceAfter(st, bs, P, a)
             /\ NonceAfter(st, cs, P, a) = NonceAfter(st, bs, P, a)
  BY BalanceBefore
<1> HIDE DEF cs
<1>6. ASSUME NEW P \in SUBSET S PROVE WithinWidth(st, cs, P) <=> WithinWidth(st, bs, P)
  BY <1>5 DEF WithinWidth
<1>7. StateAfter(st, cs) = StateAfter(st, bs)
  BY <1>3, <1>5 DEF StateAfter
<1>8. Ids(cs) = Ids(bs)
  <2>1. Ids(cs) = {Id(TxAt(cs, q)) : q \in S}
    BY <1>3 DEF Ids
  <2>2. Ids(bs) = {Id(TxAt(bs, q)) : q \in S}
    BY DEF Ids
  <2> HIDE DEF S
  <2> QED  BY <1>4, <2>1, <2>2
<1>9. ASSUME NEW q \in S
      PROVE  /\ Fresh(seen, cs, q) <=> Fresh(seen, bs, q)
             /\ Authorized(keys, st, cs, q) <=> Authorized(keys, st, bs, q)
             /\ WithinWidth(st, cs, SlotsBefore(cs, q)) <=> WithinWidth(st, bs, SlotsBefore(bs, q))
  <2>1. /\ SlotsBefore(cs, q) = SlotsBefore(bs, q) /\ TxAt(cs, q) = TxAt(bs, q)
        /\ SlotsBefore(bs, q) \in SUBSET S
    BY <1>4 DEF SlotsBefore
  <2>2. \A r \in SlotsBefore(bs, q) : TxAt(cs, r) = TxAt(bs, r)
    BY <1>4, <2>1
  <2> HIDE DEF S
  <2>3. Fresh(seen, cs, q) <=> Fresh(seen, bs, q)
    BY <2>1, <2>2 DEF Fresh
  <2>4. Authorized(keys, st, cs, q) <=> Authorized(keys, st, bs, q)
    BY <1>5, <2>1 DEF Authorized
  <2>5. WithinWidth(st, cs, SlotsBefore(cs, q)) <=> WithinWidth(st, bs, SlotsBefore(bs, q))
    BY <1>6, <2>1
  <2> QED  BY <2>3, <2>4, <2>5
<1>10. WithinWidth(st, cs, Slots(cs)) <=> WithinWidth(st, bs, Slots(bs))
  BY <1>3, <1>6
<1>11. TransactionsApply(keys, seen, st, cs) <=> TransactionsApply(keys, seen, st, bs)
  <2> HIDE DEF S
  <2>1. /\ \A p \in Slots(cs) : p \in S
        /\ \A p \in Slots(bs) : p \in S
        /\ \A p \in S : p \in Slots(cs) /\ p \in Slots(bs)
    BY <1>3 DEF S
  <2> QED  BY <1>9, <1>10, <2>1 DEF TransactionsApply
<1> QED  BY <1>7, <1>8, <1>11 DEF cs

\* verify_block is a loop over the transactions of the block.
Started(auths, keys, r, b, isGenesis) ==
    [r EXCEPT !.ok = r.ok /\ (isGenesis \/ SealedBy(auths, keys, b))]

LEMMA StartedType ==
    ASSUME NEW auths, NEW keys, NEW r \in Running, NEW b, NEW isGenesis
    PROVE  /\ Started(auths, keys, r, b, isGenesis) \in Running
           /\ Started(auths, keys, r, b, isGenesis).ok
                <=> r.ok /\ (isGenesis \/ SealedBy(auths, keys, b))
           /\ Started(auths, keys, r, b, isGenesis).seen = r.seen
           /\ Started(auths, keys, r, b, isGenesis).balances = r.balances
           /\ Started(auths, keys, r, b, isGenesis).nonces = r.nonces
<1> DEFINE ok == r.ok /\ (isGenesis \/ SealedBy(auths, keys, b))
<1>1. ok \in BOOLEAN
  BY DEF SealedBy
<1>2. Started(auths, keys, r, b, isGenesis) = [r EXCEPT !.ok = ok]
  BY DEF Started
<1> HIDE DEF ok
<1>3. /\ [r EXCEPT !.ok = ok] \in Running /\ [r EXCEPT !.ok = ok].ok = ok
      /\ [r EXCEPT !.ok = ok].seen = r.seen /\ [r EXCEPT !.ok = ok].balances = r.balances
      /\ [r EXCEPT !.ok = ok].nonces = r.nonces
  BY <1>1 DEF Running
<1> QED  BY <1>2, <1>3 DEF ok

VerifyRun(auths, keys, r, b, isGenesis, run) ==
    /\ run \in [0 .. Len(b.txs) -> Running]
    /\ run[0] = Started(auths, keys, r, b, isGenesis)
    /\ \A i \in 1 .. Len(b.txs) : run[i] = ApplyTransaction(keys, run[i - 1], b.txs[i])
    /\ VerifyBlock(auths, keys, r, b, isGenesis) = run[Len(b.txs)]

LEMMA VerifyLoop ==
    ASSUME NEW auths, NEW keys, NEW r \in Running, NEW b \in Block, NEW isGenesis
    PROVE  \E run : VerifyRun(auths, keys, r, b, isGenesis, run)
<1> DEFINE n     == Len(b.txs)
           start == Started(auths, keys, r, b, isGenesis)
           step  == [x \in Running \X (1 .. n) |-> ApplyTransaction(keys, x[1], b.txs[x[2]])]
           Loop(run) == run = [i \in 0 .. n |-> IF i = 0 THEN start
                                 ELSE ApplyTransaction(keys, run[i - 1], b.txs[i])]
           run   == CHOOSE run : Loop(run)
<1>1. n \in Nat /\ \A i \in 1 .. n : b.txs[i] \in Txs
  BY DEF Block
<1>2. start \in Running
  BY StartedType
<1>3. VerifyBlock(auths, keys, r, b, isGenesis) = run[n]
  BY DEF VerifyBlock, Started
<1> HIDE DEF n, start
<1>4. ASSUME NEW v \in Running, NEW i \in 1 .. n PROVE step[<<v, i>>] \in Running
  <2>1. step[<<v, i>>] = ApplyTransaction(keys, v, b.txs[i])
    OBVIOUS
  <2> QED  BY <1>1, <2>1, ApplyType
<1>5. PICK f \in [0 .. n -> Running] :
        f[0] = start /\ \A i \in 1 .. n : f[i] = step[<<f[i - 1], i>>]
  <2> HIDE DEF step, Loop, run
  <2>1. n \in Nat /\ StaysIn(n, Running, start, step)
    BY <1>1, <1>2, <1>4 DEF StaysIn
  <2> QED  BY <2>1, LoopDefined
<1>6. \A i \in 1 .. n : step[<<f[i - 1], i>>] = ApplyTransaction(keys, f[i - 1], b.txs[i])
  <2>1. \A i \in 1 .. n : f[i - 1] \in Running
    BY <1>1
  <2> QED  BY <2>1
<1>7. Loop(f)
  <2> HIDE DEF step
  <2>1. f[0] = start /\ \A i \in 1 .. n : f[i] = ApplyTransaction(keys, f[i - 1], b.txs[i])
    BY <1>5, <1>6
  <2>2. \A i \in 0 .. n : i # 0 => i \in 1 .. n
    BY <1>1
  <2>3. \A i \in 0 .. n : f[i] = IF i = 0 THEN start
                                ELSE ApplyTransaction(keys, f[i - 1], b.txs[i])
    BY <2>1, <2>2
  <2>4. f = [i \in 0 .. n |-> f[i]]
    OBVIOUS
  <2> QED  BY <2>3, <2>4
<1>8. Loop(run)
  <2> HIDE DEF Loop
  <2> QED  BY <1>7
<1> HIDE DEF run, step
<1>9. /\ run[0] = start
      /\ \A i \in 1 .. n : run[i] = ApplyTransaction(keys, run[i - 1], b.txs[i])
  BY <1>1, <1>8
<1>10. run \in [0 .. n -> Running]
  <2> DEFINE C == {i \in Nat : i <= n => run[i] \in Running}
  <2>1. 0 \in C
    BY <1>2, <1>9
  <2>2. ASSUME NEW i \in Nat, i \in C PROVE i + 1 \in C
    <3> SUFFICES ASSUME i + 1 <= n PROVE run[i + 1] \in Running
      OBVIOUS
    <3>1. run[i] \in Running /\ i + 1 \in 1 .. n /\ (i + 1) - 1 = i
      BY <1>1, <2>2
    <3>2. run[i + 1] = ApplyTransaction(keys, run[i], b.txs[i + 1])
      BY <1>9, <3>1
    <3> QED  BY <1>1, <3>1, <3>2, ApplyType
  <2> HIDE DEF C
  <2>3. \A i \in Nat : i \in C
    BY <2>1, <2>2, NumbersInduction
  <2>4. \A i \in 0 .. n : run[i] \in Running
    BY <1>1, <2>3 DEF C
  <2>5. run = [i \in 0 .. n |-> run[i]]
    BY <1>8
  <2> QED  BY <2>4, <2>5
<1>11. VerifyRun(auths, keys, r, b, isGenesis, run)
  BY <1>3, <1>9, <1>10 DEF n, start, VerifyRun
<1> QED  BY <1>11

\* The block that ends after its first i transactions.
FirstTxs(b, i) == [b EXCEPT !.txs = SubSeq(b.txs, 1, i)]

LEMMA FirstTxsGrow ==
    ASSUME NEW b \in Block
    PROVE  /\ \A i \in 0 .. Len(b.txs) :
                FirstTxs(b, i) \in Block /\ FirstTxs(b, i).txs = SubSeq(b.txs, 1, i)
           /\ FirstTxs(b, 0).txs = <<>> /\ FirstTxs(b, Len(b.txs)) = b
           /\ \A i \in 0 .. Len(b.txs) - 1 :
                FirstTxs(b, i + 1).txs = Append(FirstTxs(b, i).txs, b.txs[i + 1])
<1> DEFINE s == b.txs
<1>1. s \in Seq(Txs)
  BY DEF Block
<1>2. ASSUME NEW i \in 0 .. Len(s)
      PROVE  FirstTxs(b, i) \in Block /\ FirstTxs(b, i).txs = SubSeq(s, 1, i)
  <2> DEFINE cut == SubSeq(s, 1, i)
  <2>1. cut \in Seq(Txs)
    BY <1>1
  <2> HIDE DEF cut
  <2>2. [b EXCEPT !.txs = cut] \in Block /\ [b EXCEPT !.txs = cut].txs = cut
    BY <2>1 DEF Block
  <2> QED  BY <2>2 DEF FirstTxs, cut
<1>3. SubSeq(s, 1, 0) = <<>> /\ SubSeq(s, 1, Len(s)) = s /\ Len(s) \in Nat
  BY <1>1
<1>4. FirstTxs(b, Len(s)) = b
  <2>1. FirstTxs(b, Len(s)) = [b EXCEPT !.txs = s]
    BY <1>3 DEF FirstTxs
  <2> QED  BY <2>1 DEF Block
<1>5. ASSUME NEW i \in 0 .. Len(s) - 1
      PROVE  FirstTxs(b, i + 1).txs = Append(FirstTxs(b, i).txs, s[i + 1])
  <2>1. i \in 0 .. Len(s) /\ i + 1 \in 0 .. Len(s)
    BY <1>3
  <2> DEFINE less == SubSeq(s, 1, i)
             more == SubSeq(s, 1, i + 1)
  <2>2. more = Append(less, s[i + 1])
    BY <1>1, <1>3, <2>1
  <2>3. FirstTxs(b, i).txs = less /\ FirstTxs(b, i + 1).txs = more
    BY <1>2, <2>1
  <2> HIDE DEF less, more, s
  <2> QED  BY <2>2, <2>3, Zenon
<1>6. FirstTxs(b, 0).txs = <<>>
  <2>1. FirstTxs(b, 0).txs = SubSeq(s, 1, 0)
    BY <1>2, <1>3
  <2> QED  BY <1>3, <2>1
<1> QED  BY <1>2, <1>4, <1>5, <1>6, Zenon

\* verify_block accepts a block behind bs exactly when bs with the block applies.
LEMMA VerifyMirrors ==
    ASSUME NEW auths, NEW keys, NEW r \in Running, NEW b \in Block,
           NEW isGenesis, NEW bs \in Seq(Block), NEW st \in LedgerState,
           NEW seen, NEW sealed,
           Mirrors(Started(auths, keys, r, b, isGenesis), sealed, keys, seen, st, bs)
    PROVE  Mirrors(VerifyBlock(auths, keys, r, b, isGenesis), sealed, keys, seen, st,
                   Append(bs, b))
<1> DEFINE n == Len(b.txs)
           at(i) == Append(bs, FirstTxs(b, i))
<1>1. n \in Nat /\ \A i \in 1 .. n : b.txs[i] \in Txs
  BY DEF Block
<1>0. PICK run : VerifyRun(auths, keys, r, b, isGenesis, run)
  BY VerifyLoop
<1>2. /\ run \in [0 .. n -> Running]
      /\ run[0] = Started(auths, keys, r, b, isGenesis)
      /\ \A i \in 1 .. n : run[i] = ApplyTransaction(keys, run[i - 1], b.txs[i])
      /\ VerifyBlock(auths, keys, r, b, isGenesis) = run[n]
  BY <1>0 DEF VerifyRun
<1> DEFINE C == {i \in Nat : i <= n => Mirrors(run[i], sealed, keys, seen, st, at(i))}
<1>3. 0 \in C
  <2>1. FirstTxs(b, 0) \in Block /\ FirstTxs(b, 0).txs = <<>>
    BY <1>1, FirstTxsGrow
  <2>2. /\ Ids(at(0)) = Ids(bs) /\ StateAfter(st, at(0)) = StateAfter(st, bs)
        /\ TransactionsApply(keys, seen, st, at(0)) <=> TransactionsApply(keys, seen, st, bs)
    BY <2>1, EmptyBlock
  <2> HIDE DEF at
  <2>3. Mirrors(run[0], sealed, keys, seen, st, at(0))
    BY <1>2, <2>2 DEF Mirrors
  <2> QED  BY <2>3
<1>4. ASSUME NEW i \in Nat, i \in C PROVE i + 1 \in C
  <2> SUFFICES ASSUME i + 1 <= n
               PROVE  Mirrors(run[i + 1], sealed, keys, seen, st, at(i + 1))
    OBVIOUS
  <2>1. /\ i \in 0 .. n /\ i + 1 \in 0 .. n /\ i \in 0 .. n - 1
        /\ i + 1 \in 1 .. n /\ (i + 1) - 1 = i
    BY <1>1
  <2> DEFINE c == FirstTxs(b, i)
             d == FirstTxs(b, i + 1)
             t == b.txs[i + 1]
  <2>2. c \in Block /\ d \in Block /\ d.txs = Append(c.txs, t) /\ t \in Txs
    BY <1>1, <2>1, FirstTxsGrow
  <2>3. Mirrors(run[i], sealed, keys, seen, st, at(i))
    BY <1>4, <2>1
  <2>4. at(i) = Append(bs, c) /\ at(i + 1) = Append(bs, d)
    OBVIOUS
  <2>5. run[i + 1] = ApplyTransaction(keys, run[i], t)
    BY <1>2, <2>1
  <2> HIDE DEF c, d, t, at
  <2>6. OneMore(Append(bs, c), Append(bs, d), t)
    <3>1. /\ Len(Append(bs, c)) = Len(bs) + 1 /\ Len(Append(bs, d)) = Len(bs) + 1
          /\ Len(bs) \in Nat
          /\ \A k \in 1 .. Len(bs) : Append(bs, c)[k] = bs[k] /\ Append(bs, d)[k] = bs[k]
          /\ Append(bs, c)[Len(bs) + 1] = c /\ Append(bs, d)[Len(bs) + 1] = d
      BY <2>2
    <3>2. \A k \in 1 .. Len(bs) + 1 : k # Len(bs) + 1 => k \in 1 .. Len(bs)
      BY <3>1
    <3> QED  BY <2>2, <3>1, <3>2 DEF OneMore
  <2>7. Append(bs, c) \in Seq(Block) /\ Append(bs, d) \in Seq(Block)
    BY <2>2
  <2>8. Mirrors(ApplyTransaction(keys, run[i], t), sealed, keys, seen, st, Append(bs, d))
    BY <2>2, <2>3, <2>4, <2>6, <2>7, ApplyMirrors
  <2> QED  BY <2>4, <2>5, <2>8
<1> HIDE DEF C
<1>5. n \in C
  BY <1>1, <1>3, <1>4, NumbersInduction
<1>6. Mirrors(run[n], sealed, keys, seen, st, at(n))
  BY <1>1, <1>5 DEF C
<1>7. at(n) = Append(bs, b)
  BY FirstTxsGrow
<1> QED  BY <1>2, <1>6, <1>7

\* replay is a loop over the blocks.
ReplayStart == [ok |-> TRUE, seen |-> {}, balances |-> InitialBalances,
                nonces |-> [a \in Accounts |-> 0]]

LEMMA VerifyType ==
    ASSUME NEW auths, NEW keys, NEW r \in Running, NEW b \in Block, NEW isGenesis
    PROVE  VerifyBlock(auths, keys, r, b, isGenesis) \in Running
<1>1. PICK run : VerifyRun(auths, keys, r, b, isGenesis, run)
  BY VerifyLoop
<1>2. Len(b.txs) \in Nat
  BY DEF Block
<1> QED  BY <1>1, <1>2 DEF VerifyRun

ReplayRun(auths, keys, bs, run) ==
    /\ run \in [0 .. Len(bs) -> Running]
    /\ run[0] = ReplayStart
    /\ \A n \in 1 .. Len(bs) : run[n] = VerifyBlock(auths, keys, run[n - 1], bs[n], n = 1)
    /\ Replay(auths, keys, bs) = run[Len(bs)]

LEMMA ReplayLoop ==
    ASSUME NEW auths, NEW keys, NEW bs \in Seq(Block)
    PROVE  \E run : ReplayRun(auths, keys, bs, run)
<1> DEFINE len  == Len(bs)
           step == [x \in Running \X (1 .. len) |->
                        VerifyBlock(auths, keys, x[1], bs[x[2]], x[2] = 1)]
           Loop(run) == run = [n \in 0 .. len |-> IF n = 0 THEN ReplayStart
                                 ELSE VerifyBlock(auths, keys, run[n - 1], bs[n], n = 1)]
           run   == CHOOSE run : Loop(run)
<1>1. len \in Nat /\ \A n \in 1 .. len : bs[n] \in Block
  OBVIOUS
<1>2. ReplayStart \in Running
  BY AllocationAssumption DEF ReplayStart, Running
<1>3. Replay(auths, keys, bs) = run[len]
  BY DEF Replay, ReplayStart
<1> HIDE DEF len
<1>4. ASSUME NEW v \in Running, NEW n \in 1 .. len PROVE step[<<v, n>>] \in Running
  <2>1. step[<<v, n>>] = VerifyBlock(auths, keys, v, bs[n], n = 1)
    OBVIOUS
  <2>2. (n = 1) \in BOOLEAN
    OBVIOUS
  <2> HIDE DEF step
  <2> QED  BY <1>1, <2>1, <2>2, VerifyType
<1>5. PICK f \in [0 .. len -> Running] :
        f[0] = ReplayStart /\ \A n \in 1 .. len : f[n] = step[<<f[n - 1], n>>]
  <2> HIDE DEF step, Loop, run
  <2>1. len \in Nat /\ StaysIn(len, Running, ReplayStart, step)
    BY <1>1, <1>2, <1>4 DEF StaysIn
  <2> QED  BY <2>1, LoopDefined
<1>6. \A n \in 1 .. len : step[<<f[n - 1], n>>] = VerifyBlock(auths, keys, f[n - 1], bs[n], n = 1)
  <2>1. \A n \in 1 .. len : f[n - 1] \in Running
    BY <1>1
  <2> QED  BY <2>1
<1>7. Loop(f)
  <2> HIDE DEF step
  <2>1. f[0] = ReplayStart
        /\ \A n \in 1 .. len : f[n] = VerifyBlock(auths, keys, f[n - 1], bs[n], n = 1)
    BY <1>5, <1>6
  <2>2. \A n \in 0 .. len : n # 0 => n \in 1 .. len
    BY <1>1
  <2>3. \A n \in 0 .. len : f[n] = IF n = 0 THEN ReplayStart
                                ELSE VerifyBlock(auths, keys, f[n - 1], bs[n], n = 1)
    BY <2>1, <2>2
  <2>4. f = [n \in 0 .. len |-> f[n]]
    OBVIOUS
  <2> QED  BY <2>3, <2>4
<1>8. Loop(run)
  <2> HIDE DEF Loop
  <2> QED  BY <1>7
<1> HIDE DEF run, step
<1>9. /\ run[0] = ReplayStart
      /\ \A n \in 1 .. len : run[n] = VerifyBlock(auths, keys, run[n - 1], bs[n], n = 1)
  BY <1>1, <1>8
<1>10. run \in [0 .. len -> Running]
  <2> DEFINE C == {n \in Nat : n <= len => run[n] \in Running}
  <2>1. 0 \in C
    BY <1>2, <1>9
  <2>2. ASSUME NEW n \in Nat, n \in C PROVE n + 1 \in C
    <3> SUFFICES ASSUME n + 1 <= len PROVE run[n + 1] \in Running
      OBVIOUS
    <3>1. run[n] \in Running /\ n + 1 \in 1 .. len /\ (n + 1) - 1 = n
      BY <1>1, <2>2
    <3>2. run[n + 1] = VerifyBlock(auths, keys, run[n], bs[n + 1], n + 1 = 1)
      BY <1>9, <3>1
    <3>3. (n + 1 = 1) \in BOOLEAN
      OBVIOUS
    <3> QED  BY <1>1, <3>1, <3>2, <3>3, VerifyType
  <2> HIDE DEF C
  <2>3. \A n \in Nat : n \in C
    BY <2>1, <2>2, NumbersInduction
  <2>4. \A n \in 0 .. len : run[n] \in Running
    BY <1>1, <2>3 DEF C
  <2>5. run = [n \in 0 .. len |-> run[n]]
    BY <1>8
  <2> QED  BY <2>4, <2>5
<1>11. ReplayRun(auths, keys, bs, run)
  BY <1>3, <1>9, <1>10 DEF len, ReplayRun
<1> QED  BY <1>11

\* Behind n blocks the loop of replay stands where ChainValid says.
SealedUpTo(auths, keys, bs, n) == \A m \in 2 .. n : SealedBy(auths, keys, bs[m])

LEMMA ReplayMirrors ==
    ASSUME NEW auths, NEW keys, NEW bs \in Seq(Block), NEW run,
           ReplayRun(auths, keys, bs, run), NEW n \in 0 .. Len(bs)
    PROVE  Mirrors(run[n], SealedUpTo(auths, keys, bs, n), keys, {}, InitialState,
                   SubSeq(bs, 1, n))
<1> DEFINE len == Len(bs)
           first(m) == SubSeq(bs, 1, m)
           sealed(m) == SealedUpTo(auths, keys, bs, m)
           C == {m \in Nat : m <= len =>
                    Mirrors(run[m], sealed(m), keys, {}, InitialState, first(m))}
<1>1. /\ len \in Nat /\ \A m \in 1 .. len : bs[m] \in Block
      /\ \A m \in 0 .. len : first(m) \in Seq(Block)
      /\ first(0) = <<>>
      /\ \A m \in 0 .. len - 1 : first(m + 1) = Append(first(m), bs[m + 1])
  OBVIOUS
<1>2. /\ run \in [0 .. len -> Running]
      /\ run[0] = ReplayStart
      /\ \A m \in 1 .. len : run[m] = VerifyBlock(auths, keys, run[m - 1], bs[m], m = 1)
  BY DEF ReplayRun
<1>3. 0 \in C
  <2>1. /\ ReplayStart.ok /\ ReplayStart.seen = {}
        /\ ReplayStart.balances = InitialState.balances
        /\ ReplayStart.nonces = InitialState.nonces
        /\ ReplayStart \in Running
    BY AllocationAssumption DEF ReplayStart, InitialState, Running
  <2>2. /\ Ids(<<>>) = {} /\ TransactionsApply(keys, {}, InitialState, <<>>)
        /\ StateAfter(InitialState, <<>>).balances = InitialState.balances
        /\ StateAfter(InitialState, <<>>).nonces = InitialState.nonces
    BY InitialStateType, NoBlocks
  <2>3. {} = {} \cup Ids(<<>>)
    BY <2>2
  <2>4. sealed(0)
    BY DEF SealedUpTo
  <2> HIDE DEF sealed, first
  <2>5. Mirrors(ReplayStart, sealed(0), keys, {}, InitialState, <<>>)
    BY <2>1, <2>2, <2>3, <2>4 DEF Mirrors
  <2>6. Mirrors(run[0], sealed(0), keys, {}, InitialState, first(0))
    BY <1>1, <1>2, <2>5
  <2> QED  BY <2>6
<1>4. ASSUME NEW m \in Nat, m \in C PROVE m + 1 \in C
  <2> SUFFICES ASSUME m + 1 <= len
               PROVE  Mirrors(run[m + 1], sealed(m + 1), keys, {}, InitialState, first(m + 1))
    OBVIOUS
  <2> DEFINE b == bs[m + 1]
             isGenesis == m + 1 = 1
             r == run[m]
             s == Started(auths, keys, r, b, isGenesis)
  <2>1. /\ m \in 0 .. len /\ m + 1 \in 1 .. len /\ (m + 1) - 1 = m /\ m \in 0 .. len - 1
        /\ b \in Block /\ r \in Running
    BY <1>1, <1>2
  <2>2. Mirrors(r, sealed(m), keys, {}, InitialState, first(m))
    BY <1>4, <2>1
  <2>3. run[m + 1] = VerifyBlock(auths, keys, r, b, isGenesis)
    BY <1>2, <2>1
  <2>4. sealed(m + 1) <=> sealed(m) /\ (isGenesis \/ SealedBy(auths, keys, b))
    <3>1. CASE m = 0
      BY <3>1 DEF SealedUpTo
    <3>2. CASE m # 0
      <4>1. \A k \in 2 .. m + 1 : k \in 2 .. m \/ k = m + 1
        OBVIOUS
      <4>2. m + 1 \in 2 .. m + 1 /\ ~ isGenesis /\ \A k \in 2 .. m : k \in 2 .. m + 1
        BY <3>2
      <4> HIDE DEF isGenesis
      <4> QED  BY <4>1, <4>2 DEF SealedUpTo
    <3> QED  BY <3>1, <3>2
  <2>5. first(m) \in Seq(Block) /\ first(m + 1) = Append(first(m), b)
    BY <1>1, <2>1
  <2> HIDE DEF b, isGenesis, r, sealed, first
  <2>6. /\ s \in Running
        /\ s.ok <=> r.ok /\ (isGenesis \/ SealedBy(auths, keys, b))
        /\ s.seen = r.seen /\ s.balances = r.balances /\ s.nonces = r.nonces
    BY <2>1, StartedType
  <2>7. Mirrors(s, sealed(m + 1), keys, {}, InitialState, first(m))
    <3> HIDE DEF s
    <3> QED  BY <2>2, <2>4, <2>6 DEF Mirrors
  <2>8. Mirrors(VerifyBlock(auths, keys, r, b, isGenesis), sealed(m + 1), keys, {},
                InitialState, Append(first(m), b))
    BY <2>1, <2>5, <2>7, VerifyMirrors, InitialStateType
  <2> QED  BY <2>3, <2>5, <2>8
<1> HIDE DEF C
<1>5. \A m \in Nat : m \in C
  BY <1>3, <1>4, NumbersInduction
<1>6. n \in Nat /\ n <= len
  BY <1>1
<1> QED  BY <1>5, <1>6 DEF C

LEMMA SealedAll ==
    ASSUME NEW auths, NEW keys, NEW bs \in Seq(Block)
    PROVE  ChainValid(auths, keys, bs)
             <=> /\ SealedUpTo(auths, keys, bs, Len(bs))
                 /\ TransactionsApply(keys, {}, InitialState, bs)
<1>1. \A n : n \in DOMAIN bs \ {1} <=> n \in 2 .. Len(bs)
  OBVIOUS
<1> QED  BY <1>1 DEF ChainValid, SealedUpTo

\* replay accepts the chains that are valid, and ends in the state they leave.
LEMMA ReplayIs ==
    ASSUME NEW auths, NEW keys, NEW bs \in Seq(Block)
    PROVE  LET r == Replay(auths, keys, bs)
           IN  /\ r.ok <=> ChainValid(auths, keys, bs)
               /\ r.ok => [balances |-> r.balances, nonces |-> r.nonces]
                            = StateAfter(InitialState, bs)
<1> DEFINE r == Replay(auths, keys, bs)
<1>1. PICK run : ReplayRun(auths, keys, bs, run)
  BY ReplayLoop
<1>2. r = run[Len(bs)] /\ Len(bs) \in 0 .. Len(bs) /\ SubSeq(bs, 1, Len(bs)) = bs
  BY <1>1 DEF ReplayRun
<1> HIDE DEF r
<1>3. Mirrors(r, SealedUpTo(auths, keys, bs, Len(bs)), keys, {}, InitialState, bs)
  <2>1. Mirrors(run[Len(bs)], SealedUpTo(auths, keys, bs, Len(bs)), keys, {}, InitialState,
                SubSeq(bs, 1, Len(bs)))
    BY <1>1, <1>2, ReplayMirrors
  <2> QED  BY <1>2, <2>1
<1>4. r.ok <=> ChainValid(auths, keys, bs)
  BY <1>3, SealedAll DEF Mirrors
<1>5. r.ok => [balances |-> r.balances, nonces |-> r.nonces] = StateAfter(InitialState, bs)
  <2>1. StateAfter(InitialState, bs) =
          [balances |-> StateAfter(InitialState, bs).balances,
           nonces |-> StateAfter(InitialState, bs).nonces]
    BY DEF StateAfter
  <2> QED  BY <1>3, <2>1 DEF Mirrors
<1> QED  BY <1>4, <1>5 DEF r

\* Checking one block against the state of a valid chain and replaying the
\* chain with the block come to the same.
LEMMA AppendIs ==
    ASSUME NEW auths, NEW keys, NEW bs \in Seq(Block), Len(bs) > 1
    PROVE  LET prefix == SubSeq(bs, 1, Len(bs) - 1)
           IN  ChainValid(auths, keys, prefix) =>
                 (BlockValid(auths, keys, Ids(prefix), StateAfter(InitialState, prefix),
                             bs[Len(bs)])
                    <=> Replay(auths, keys, bs).ok)
<1> DEFINE n == Len(bs)
           prefix == SubSeq(bs, 1, n - 1)
           b == bs[n]
           st == StateAfter(InitialState, prefix)
<1> SUFFICES ASSUME ChainValid(auths, keys, prefix)
             PROVE  BlockValid(auths, keys, Ids(prefix), st, b) <=> Replay(auths, keys, bs).ok
  OBVIOUS
<1>1. /\ n \in Nat /\ n - 1 \in 0 .. n /\ n \in 1 .. n /\ n # 1 /\ b \in Block
      /\ prefix \in Seq(Block) /\ Len(prefix) = n - 1
      /\ \A m \in 1 .. n - 1 : prefix[m] = bs[m]
  OBVIOUS
<1>2. PICK run : ReplayRun(auths, keys, bs, run)
  BY ReplayLoop
<1> DEFINE r == run[n - 1]
           s == Started(auths, keys, r, b, n = 1)
           v == VerifyBlock(auths, keys, r, b, n = 1)
<1> HIDE DEF n, prefix, b
<1>3. Replay(auths, keys, bs) = v /\ r \in Running
  BY <1>1, <1>2 DEF ReplayRun, n, b
<1>4. st \in LedgerState
  BY <1>1, InitialStateType, StateAfterType DEF ChainValid
<1>5. r.ok /\ r.seen = Ids(prefix) /\ r.balances = st.balances /\ r.nonces = st.nonces
  <2>1. Mirrors(r, SealedUpTo(auths, keys, bs, n - 1), keys, {}, InitialState, prefix)
    BY <1>1, <1>2, ReplayMirrors DEF n, prefix
  <2>2. SealedUpTo(auths, keys, bs, n - 1)
    <3>1. SealedUpTo(auths, keys, prefix, n - 1)
      BY <1>1, SealedAll
    <3> QED  BY <1>1, <3>1 DEF SealedUpTo
  <2>3. {} \cup Ids(prefix) = Ids(prefix)
    OBVIOUS
  <2> HIDE DEF r
  <2> QED  BY <2>1, <2>2, <2>3 DEF Mirrors, ChainValid
<1> HIDE DEF st, r
<1>6. /\ s \in Running
      /\ s.ok <=> SealedBy(auths, keys, b)
      /\ s.seen = Ids(prefix) /\ s.balances = st.balances /\ s.nonces = st.nonces
  BY <1>1, <1>3, <1>5, StartedType
<1>7. Mirrors(s, SealedBy(auths, keys, b), keys, Ids(prefix), st, <<>>)
  <2>1. /\ Ids(<<>>) = {} /\ TransactionsApply(keys, Ids(prefix), st, <<>>)
        /\ StateAfter(st, <<>>).balances = st.balances
        /\ StateAfter(st, <<>>).nonces = st.nonces
    BY <1>4, NoBlocks
  <2>2. Ids(prefix) = Ids(prefix) \cup Ids(<<>>)
    BY <2>1
  <2> HIDE DEF s
  <2> QED  BY <1>6, <2>1, <2>2 DEF Mirrors
<1>8. Mirrors(v, SealedBy(auths, keys, b), keys, Ids(prefix), st, Append(<<>>, b))
  <2>1. <<>> \in Seq(Block)
    OBVIOUS
  <2> QED  BY <1>1, <1>3, <1>4, <1>7, <2>1, VerifyMirrors
<1>9. Append(<<>>, b) = <<b>>
  OBVIOUS
<1>10. v.ok <=> BlockValid(auths, keys, Ids(prefix), st, b)
  <2> HIDE DEF v
  <2> QED  BY <1>8, <1>9 DEF Mirrors, BlockValid
<1> QED  BY <1>3, <1>10

-----------------------------------------------------------------------------
(***************************************************************************)
(* The order of drain.  A pool whose senders use no nonce twice can be     *)
(* drained: any two of its transactions are in order, so a part of the     *)
(* pool has a last one, and the rest is drained before it.                 *)
(***************************************************************************)
DistinctNonces(S) ==
    \A a \in Accounts : \A t, u \in QueuedBy(S, a) : t.nonce = u.nonce => t = u

Before(t, u) ==
    \/ Rank[t.sender] < Rank[u.sender]
    \/ t.sender = u.sender /\ t.nonce < u.nonce

LEMMA BeforeOrders ==
    ASSUME NEW S \in SUBSET Txs, DistinctNonces(S)
    PROVE  /\ \A t, u \in S : t # u => Before(t, u) \/ Before(u, t)
           /\ \A t, u, v \in S : Before(t, u) /\ Before(u, v) => Before(t, v)
<1>1. \A t \in S : t.sender \in Accounts /\ t.nonce \in Nat /\ Rank[t.sender] \in Nat
  BY TxFields, AccountAssumption
<1>2. ASSUME NEW t \in S, NEW u \in S, t # u PROVE Before(t, u) \/ Before(u, t)
  <2>1. CASE t.sender = u.sender
    <3>1. t.nonce # u.nonce
      BY <1>1, <1>2, <2>1 DEF DistinctNonces, QueuedBy
    <3> QED  BY <1>1, <2>1, <3>1 DEF Before
  <2>2. CASE t.sender # u.sender
    <3>1. Rank[t.sender] # Rank[u.sender]
      BY <1>1, <2>2, AccountAssumption
    <3> QED  BY <1>1, <3>1 DEF Before
  <2> QED  BY <2>1, <2>2
<1>3. ASSUME NEW t \in S, NEW u \in S, NEW v \in S, Before(t, u), Before(u, v)
      PROVE  Before(t, v)
  <2>1. /\ Rank[t.sender] \in Nat /\ Rank[u.sender] \in Nat /\ Rank[v.sender] \in Nat
        /\ t.nonce \in Nat /\ u.nonce \in Nat /\ v.nonce \in Nat
    BY <1>1
  <2> QED  BY <1>3, <2>1 DEF Before
<1> QED  BY <1>2, <1>3

LEMMA LastInOrder ==
    ASSUME NEW S \in SUBSET Txs, IsFiniteSet(S), DistinctNonces(S)
    PROVE  \A s \in SUBSET S : s # {} => \E x \in s : \A u \in s \ {x} : Before(u, x)
<1> DEFINE C == {s \in SUBSET S : s # {} => \E x \in s : \A u \in s \ {x} : Before(u, x)}
<1>1. ASSUME NEW s \in SUBSET S, \A x \in s : s \ {x} \in C PROVE s \in C
  <2> SUFFICES ASSUME s # {} PROVE \E x \in s : \A u \in s \ {x} : Before(u, x)
    OBVIOUS
  <2>1. PICK y \in s : TRUE
    OBVIOUS
  <2>2. CASE s \ {y} = {}
    BY <2>1, <2>2
  <2>3. CASE s \ {y} # {}
    <3>1. PICK x \in s \ {y} : \A u \in (s \ {y}) \ {x} : Before(u, x)
      BY <1>1, <2>3
    <3>2. CASE Before(y, x)
      <4>1. \A u \in s \ {x} : Before(u, x)
        BY <3>1, <3>2
      <4> QED  BY <4>1
    <3>3. CASE Before(x, y)
      <4>1. \A u \in s \ {y} : Before(u, y)
        BY <3>1, <3>3, BeforeOrders
      <4> QED  BY <4>1
    <3> QED  BY <3>1, <3>2, <3>3, BeforeOrders
  <2> QED  BY <2>2, <2>3
<1> HIDE DEF C
<1>2. \A s \in SUBSET S : s \in C
  BY <1>1, SubsetsInduction
<1> QED  BY <1>2 DEF C

LEMMA DrainExists ==
    ASSUME NEW S \in SUBSET Txs, IsFiniteSet(S), DistinctNonces(S)
    PROVE  \E batch : batch \in Drained(S)
<1> DEFINE C == {s \in SUBSET S : \E batch : batch \in Drained(s)}
<1>1. ASSUME NEW s \in SUBSET S, \A x \in s : s \ {x} \in C PROVE s \in C
  <2>1. IsFiniteSet(s)
    BY FS_Subset
  <2>2. CASE s = {}
    <3>1. Cardinality(s) = 0
      BY <2>2, FS_EmptySet
    <3> DEFINE none == [i \in 1 .. 0 |-> i]
    <3>2. none \in [1 .. Cardinality(s) -> s] /\ DOMAIN none = {}
      BY <3>1
    <3>3. none \in Drained(s)
      BY <3>2 DEF Drained
    <3> QED  BY <3>3
  <2>3. CASE s # {}
    <3>1. PICK x \in s : \A u \in s \ {x} : Before(u, x)
      BY <2>3, LastInOrder
    <3> DEFINE k == Cardinality(s \ {x})
    <3>2. k \in Nat /\ Cardinality(s) = k + 1
      <4>1. IsFiniteSet(s \ {x}) /\ Cardinality(s \ {x}) = Cardinality(s) - 1
        BY <2>1, FS_RemoveElement
      <4>2. Cardinality(s) \in Nat /\ Cardinality(s \ {x}) \in Nat
        BY <2>1, <4>1, FS_CardinalityType
      <4> QED  BY <4>1, <4>2
    <3>3. PICK old : old \in Drained(s \ {x})
      BY <1>1
    <3>4. /\ old \in [1 .. k -> s \ {x}]
          /\ \A i, j \in 1 .. k : i < j => Before(old[i], old[j])
      BY <3>3 DEF Drained, Before
    <3> HIDE DEF k
    <3> DEFINE batch == [i \in 1 .. k + 1 |-> IF i <= k THEN old[i] ELSE x]
    <3>5. batch \in [1 .. Cardinality(s) -> s]
      BY <3>2, <3>4
    <3>6. ASSUME NEW i \in 1 .. k + 1, NEW j \in 1 .. k + 1, i < j
          PROVE  Before(batch[i], batch[j])
      <4>1. i \in 1 .. k /\ batch[i] = old[i]
        BY <3>2, <3>6
      <4>2. CASE j <= k
        <5>1. batch[j] = old[j] /\ j \in 1 .. k
          BY <3>2, <4>2
        <5> HIDE DEF batch
        <5> QED  BY <3>4, <3>6, <4>1, <5>1
      <4>3. CASE j = k + 1
        <5>1. batch[j] = x /\ old[i] \in s \ {x}
          BY <3>2, <3>4, <4>1, <4>3
        <5> HIDE DEF batch
        <5> QED  BY <3>1, <4>1, <5>1
      <4> QED  BY <3>2, <4>2, <4>3
    <3> HIDE DEF batch
    <3>7. DOMAIN batch = 1 .. k + 1
      BY <3>2, <3>5
    <3>8. batch \in Drained(s)
      BY <3>5, <3>6, <3>7 DEF Drained, Before
    <3> QED  BY <3>8
  <2> QED  BY <2>2, <2>3
<1> HIDE DEF C
<1>2. \A s \in SUBSET S : s \in C
  BY <1>1, SubsetsInduction
<1> QED  BY <1>2 DEF C

-----------------------------------------------------------------------------
(***************************************************************************)
(* Requeueing.  A pool as it was admitted, drained and queued again: the   *)
(* transactions of one sender come in the order of their nonces, so the    *)
(* first that is refused leaves a gap no later one can close.              *)
(***************************************************************************)
Poolable(S) ==
    /\ S \subseteq Txs /\ IsFiniteSet(S) /\ DistinctNonces(S)
    /\ TotalWeight(S) <= MaxMempoolBytes
    /\ \A t \in S : t.sender # Mint /\ t.wellFormed

LEMMA QueueAgainIs ==
    ASSUME NEW keys, NEW seen, NEW st \in LedgerState, NEW S, Poolable(S),
           NEW t \in S, NEW K,
           K \subseteq Requeued(keys, seen, st, S),
           \A u \in QueuedBy(Requeued(keys, seen, st, S), t.sender) :
               u \in K <=> u.nonce < t.nonce
    PROVE  QueueAgain(keys, seen, st, K, t) =
             IF t \in Requeued(keys, seen, st, S) THEN K \cup {t} ELSE K
<1> DEFINE R == Requeued(keys, seen, st, S)
           a == t.sender
           n == st.nonces[a]
           W == QueuedBy(R, a)
           V == QueuedBy(K, a)
<1>1. /\ S \in SUBSET Txs /\ IsFiniteSet(S) /\ DistinctNonces(S)
      /\ t \in Txs /\ a \in Accounts /\ t.nonce \in Nat /\ t.amount \in Nat /\ t.weight \in Nat
      /\ t.sender # Mint /\ t.wellFormed /\ TotalWeight(S) <= MaxMempoolBytes
      /\ MaxMempoolBytes \in Nat
  BY TxFields, LimitAssumption DEF Poolable
<1>2. n \in Nat /\ st.balances[a] \in Nat
  BY <1>1, AllocationAssumption DEF LedgerState
<1>3. /\ R \subseteq S /\ K \subseteq R /\ V = {u \in W : u.nonce < t.nonce}
      /\ V \subseteq S /\ W \subseteq S /\ V \subseteq W /\ V \subseteq K
      /\ \A u \in W : u.sender = a
  <2>1. R \subseteq S
    BY RequeuedSubset
  <2>2. K \subseteq R
    OBVIOUS
  <2>3. \A u \in W : u \in K <=> u.nonce < t.nonce
    OBVIOUS
  <2> HIDE DEF R
  <2>4. \A u : (u \in V <=> u \in K /\ u.sender = a) /\ (u \in W <=> u \in R /\ u.sender = a)
    BY DEF QueuedBy
  <2> HIDE DEF V, W
  <2>5. \A u : u \in V <=> u \in W /\ u.nonce < t.nonce
    BY <2>2, <2>3, <2>4
  <2> QED  BY <2>1, <2>2, <2>4, <2>5
<1>4. \A u, v \in QueuedBy(S, a) : u.nonce = v.nonce => u = v
  BY <1>1 DEF DistinctNonces
<1>5. IsRun(W, n)
  BY <1>1, <1>4, RequeuedIsRun
<1>6. t \in QueuedBy(S, a) /\ W \subseteq QueuedBy(S, a)
  BY <1>3 DEF QueuedBy
<1>7. \A u \in S : u.nonce \in Nat
  BY <1>1, TxFields
<1>8. /\ IsFiniteSet(K) /\ IsFiniteSet(V) /\ IsFiniteSet(W)
      /\ Cardinality(V) \in Nat /\ Cardinality(W) \in Nat /\ Cardinality(V) <= Cardinality(W)
  <2>1. IsFiniteSet(W) /\ IsFiniteSet(K) /\ IsFiniteSet(V)
    <3>1. K \subseteq S
      BY <1>3
    <3> HIDE DEF R, W, V
    <3> QED  BY <1>1, <1>3, <3>1, FS_Subset
  <2> HIDE DEF R, W, V
  <2> QED  BY <1>3, <2>1, FS_Subset, FS_CardinalityType
<1>9. \A u \in R : /\ Signed(keys, u) /\ Id(u) \notin seen
                   /\ TotalAmount(Lead(st, S, u)) <= st.balances[u.sender]
  BY <1>1, RequeuedFits DEF DistinctNonces
<1>10. t \notin K /\ t \notin V
  <2>1. ~ (t.nonce < t.nonce)
    BY <1>1
  <2>2. t \in K => t \in W
    BY <1>3 DEF QueuedBy
  <2> QED  BY <1>3, <2>1, <2>2
<1>11. /\ TotalAmount(V \cup {t}) = TotalAmount(V) + t.amount /\ TotalAmount(V) \in Nat
       /\ TotalWeight(K \cup {t}) = TotalWeight(K) + t.weight /\ TotalWeight(K) \in Nat
  <2>1. V \subseteq Txs /\ K \subseteq Txs
    BY <1>1, <1>3
  <2> HIDE DEF V
  <2> QED  BY <1>1, <1>8, <1>10, <2>1, TotalsAdd, TotalsType
<1>12. TotalWeight(K) + t.weight <= MaxMempoolBytes
  <2>1. K \cup {t} \in SUBSET S
    BY <1>3
  <2>2. TotalWeight(K \cup {t}) <= TotalWeight(S) /\ TotalWeight(S) \in Nat
    BY <1>1, <2>1, TotalsLess, TotalsType
  <2> QED  BY <1>1, <1>11, <2>2
<1>13. QueueAgain(keys, seen, st, K, t) = IF Refused(keys, seen, st, K, t) THEN K ELSE K \cup {t}
  <2>1. ~ (TotalWeight(K) + t.weight > MaxMempoolBytes)
    BY <1>1, <1>11, <1>12
  <2> QED  BY <2>1 DEF QueueAgain
<1>14. \A u \in K : Id(u) # Id(t)
  <2> SUFFICES ASSUME NEW u \in K, Id(u) = Id(t) PROVE FALSE
    OBVIOUS
  <2>1. u.sender = t.sender /\ u.nonce = t.nonce
    BY DEF Id
  <2>2. u \in QueuedBy(S, a)
    BY <1>3, <2>1 DEF QueuedBy
  <2> QED  BY <1>4, <1>6, <1>10, <2>1, <2>2
<1>15. Affordable(st, K, t) <=> TotalAmount(V) + t.amount <= st.balances[a]
  <2> DEFINE spent == TotalAmount(V)
             balance == st.balances[a]
             sum == t.amount
             available == IF spent <= balance THEN balance - spent ELSE 0
  <2>1. Affordable(st, K, t) <=> sum <= available
    BY DEF Affordable
  <2>2. spent \in Nat /\ balance \in Nat /\ sum \in Nat
    BY <1>1, <1>2, <1>11
  <2>3. spent <= balance
    <3>1. TotalAmount(W) <= balance
      BY <1>1, RequeuedFunded DEF DistinctNonces
    <3>2. TotalAmount(V) <= TotalAmount(W) /\ TotalAmount(W) \in Nat
      <4>1. W \subseteq Txs /\ V \in SUBSET W
        BY <1>1, <1>3
      <4> HIDE DEF W, V
      <4> QED  BY <1>8, <4>1, TotalsLess, TotalsType
    <3> HIDE DEF W, V
    <3> QED  BY <2>2, <3>1, <3>2 DEF spent
  <2> HIDE DEF spent, balance, sum
  <2>4. available = balance - spent
    BY <2>3
  <2> HIDE DEF available
  <2>5. Affordable(st, K, t) <=> spent + sum <= balance
    BY <2>1, <2>2, <2>4
  <2> QED  BY <2>5 DEF spent, balance, sum
<1>16. Refused(keys, seen, st, K, t)
          <=> ~ /\ Id(t) \notin seen /\ Signed(keys, t)
                /\ t.nonce = n + Cardinality(V)
                /\ TotalAmount(V) + t.amount <= st.balances[a]
  BY <1>1, <1>14, <1>15 DEF Refused, ExpectedNonce
<1> HIDE DEF R, W, V, n
<1>17. ASSUME t \in R PROVE ~ Refused(keys, seen, st, K, t)
  <2>1. Id(t) \notin seen /\ Signed(keys, t)
    BY <1>9, <1>17
  <2>2. t \in W /\ n <= t.nonce
    <3>1. t \in W
      BY <1>17 DEF W, QueuedBy
    <3>2. n <= t.nonce
      BY <1>17 DEF R, Requeued, n
    <3> QED  BY <3>1, <3>2
  <2>3. IsRun(V, n)
    <3>1. \A u \in V : u.nonce \in Nat /\ n <= u.nonce
      <4>1. \A u \in R : st.nonces[u.sender] <= u.nonce
        BY DEF R, Requeued
      <4>2. \A u \in V : u \in R /\ u.sender = a /\ u \in S
        BY <1>3
      <4> QED  BY <1>7, <4>1, <4>2 DEF n
    <3>2. \A u, v \in V : u.nonce = v.nonce => u = v
      BY <1>3, <1>4, <1>6
    <3>3. ASSUME NEW u \in V, NEW m \in n .. u.nonce PROVE \E v \in V : v.nonce = m
      <4>1. u \in W /\ u.nonce < t.nonce /\ u.nonce \in Nat
        BY <1>3, <1>7
      <4>2. u.nonce \in n .. n + Cardinality(W) - 1
        BY <1>5, <4>1 DEF IsRun
      <4>3. m \in n .. n + Cardinality(W) - 1 /\ m < t.nonce
        BY <1>1, <1>2, <1>8, <4>1, <4>2
      <4>4. PICK v \in W : v.nonce = m
        BY <1>5, <4>3 DEF IsRun
      <4> QED  BY <1>3, <4>3, <4>4
    <3> QED  BY <1>2, <1>8, <3>1, <3>2, <3>3, GaplessIsRun
  <2>4. \A m \in n .. t.nonce - 1 : \E v \in V : v.nonce = m
    <3> SUFFICES ASSUME NEW m \in n .. t.nonce - 1 PROVE \E v \in V : v.nonce = m
      OBVIOUS
    <3>1. t.nonce \in n .. n + Cardinality(W) - 1
      BY <1>5, <2>2 DEF IsRun
    <3>2. m \in n .. n + Cardinality(W) - 1 /\ m < t.nonce
      BY <1>1, <1>2, <1>8, <3>1
    <3>3. PICK v \in W : v.nonce = m
      BY <1>5, <3>2 DEF IsRun
    <3> QED  BY <1>3, <3>2, <3>3
  <2>5. t.nonce = n + Cardinality(V)
    <3>1. ~ (t.nonce < n + Cardinality(V))
      <4> SUFFICES ASSUME t.nonce < n + Cardinality(V) PROVE FALSE
        OBVIOUS
      <4>1. t.nonce \in n .. n + Cardinality(V) - 1
        BY <1>1, <1>2, <1>8, <2>2
      <4>2. PICK v \in V : v.nonce = t.nonce
        BY <2>3, <4>1 DEF IsRun
      <4> QED  BY <1>1, <1>3, <4>2
    <3>2. ~ (n + Cardinality(V) < t.nonce)
      <4> SUFFICES ASSUME n + Cardinality(V) < t.nonce PROVE FALSE
        OBVIOUS
      <4> DEFINE m == n + Cardinality(V)
      <4>1. m \in n .. t.nonce - 1 /\ m \notin n .. n + Cardinality(V) - 1
        BY <1>1, <1>2, <1>8
      <4>2. PICK v \in V : v.nonce = m
        BY <2>4, <4>1
      <4>3. v.nonce \in n .. n + Cardinality(V) - 1
        BY <2>3 DEF IsRun
      <4> QED  BY <4>1, <4>2, <4>3
    <3> QED  BY <1>1, <1>2, <1>8, <3>1, <3>2
  <2>6. TotalAmount(V) + t.amount <= st.balances[a]
    <3> DEFINE L == Lead(st, S, t)
    <3>1. V \cup {t} \subseteq L
      <4>1. \A u \in V : u \in QueuedBy(S, a) /\ u.nonce \in n .. t.nonce
        <5>1. \A u \in V : u \in W /\ u \in S /\ u.nonce < t.nonce /\ u.nonce \in Nat
          BY <1>3, <1>7
        <5>2. \A u \in V : u.nonce \in n .. n + Cardinality(W) - 1
          BY <1>5, <5>1 DEF IsRun
        <5> QED  BY <1>1, <1>2, <1>6, <1>8, <5>1, <5>2
      <4>2. t.nonce \in n .. t.nonce
        BY <1>1, <1>2, <2>2
      <4> QED  BY <1>6, <4>1, <4>2 DEF Lead, n
    <3>2. L \subseteq S
      BY DEF Lead, QueuedBy
    <3>3. IsFiniteSet(L) /\ L \subseteq Txs
      BY <1>1, <3>2, FS_Subset
    <3>4. TotalAmount(L) <= st.balances[a]
      BY <1>9, <1>17
    <3> HIDE DEF L
    <3>5. TotalAmount(V \cup {t}) <= TotalAmount(L) /\ TotalAmount(L) \in Nat
      BY <3>1, <3>3, TotalsLess, TotalsType
    <3> QED  BY <1>1, <1>2, <1>11, <3>4, <3>5
  <2> QED  BY <1>16, <2>1, <2>5, <2>6
<1>18. ASSUME ~ Refused(keys, seen, st, K, t) PROVE t \in R
  <2>1. /\ Id(t) \notin seen /\ Signed(keys, t) /\ t.nonce = n + Cardinality(V)
        /\ TotalAmount(V) + t.amount <= st.balances[a]
    BY <1>16, <1>18
  <2>2. ASSUME NEW m \in n .. t.nonce, m # t.nonce
        PROVE  \E u \in V : u.nonce = m
    <3>1. m \in n .. n + Cardinality(W) - 1 /\ m < t.nonce
      BY <1>1, <1>2, <1>8, <2>1, <2>2
    <3>2. PICK u \in W : u.nonce = m
      BY <1>5, <3>1 DEF IsRun
    <3> QED  BY <1>3, <3>1, <3>2
  <2>3. Lead(st, S, t) \subseteq V \cup {t}
    <3> SUFFICES ASSUME NEW u \in QueuedBy(S, a), u.nonce \in n .. t.nonce
                 PROVE  u \in V \cup {t}
      BY DEF Lead, n
    <3>1. CASE u.nonce = t.nonce
      BY <1>4, <1>6, <3>1
    <3>2. CASE u.nonce # t.nonce
      <4>1. PICK v \in V : v.nonce = u.nonce
        BY <2>2, <3>2
      <4>2. v \in QueuedBy(S, a)
        BY <1>3, <1>6
      <4> QED  BY <1>4, <4>1, <4>2
    <3> QED  BY <3>1, <3>2
  <2>4. TotalAmount(Lead(st, S, t)) <= st.balances[a]
    <3>1. V \cup {t} \subseteq S
      BY <1>3
    <3>2. IsFiniteSet(V \cup {t}) /\ V \cup {t} \subseteq Txs
      BY <1>1, <3>1, FS_Subset
    <3>3. TotalAmount(Lead(st, S, t)) <= TotalAmount(V \cup {t})
      BY <2>3, <3>2, TotalsLess
    <3>4. TotalAmount(Lead(st, S, t)) \in Nat
      <4>1. Lead(st, S, t) \subseteq Txs /\ IsFiniteSet(Lead(st, S, t))
        BY <2>3, <3>2, FS_Subset
      <4> QED  BY <4>1, TotalsType
    <3> QED  BY <1>1, <1>2, <1>11, <2>1, <3>3, <3>4
  <2>5. ASSUME NEW m \in n .. t.nonce
        PROVE  \E u \in QueuedBy(S, a) :
                 /\ u.nonce = m
                 /\ Signed(keys, u) /\ Id(u) \notin seen
                 /\ TotalAmount(Lead(st, S, u)) <= st.balances[u.sender]
    <3>1. CASE m = t.nonce
      BY <1>6, <2>1, <2>4, <3>1
    <3>2. CASE m # t.nonce
      <4>1. PICK u \in V : u.nonce = m
        BY <2>2, <3>2
      <4>2. u \in R /\ u \in QueuedBy(S, a)
        BY <1>3, <1>6
      <4> QED  BY <1>9, <4>1, <4>2
    <3> QED  BY <3>1, <3>2
  <2>6. n <= t.nonce
    BY <1>2, <1>8, <2>1
  <2> QED  BY <2>5, <2>6 DEF R, Requeued, n
<1>19. QueueAgain(keys, seen, st, K, t) = IF t \in R THEN K \cup {t} ELSE K
  BY <1>13, <1>17, <1>18
<1> QED  BY <1>19 DEF R

\* reconcile_mempool is a loop over the drained transactions.
KeptRun(keys, seen, st, batch, kept) ==
    /\ kept[0] = {}
    /\ \A i \in 1 .. Len(batch) :
            kept[i] = QueueAgain(keys, seen, st, kept[i - 1], batch[i])

LEMMA ReconcileLoop ==
    ASSUME NEW keys, NEW seen, NEW st, NEW S, Poolable(S)
    PROVE  \E batch, kept :
             /\ batch \in Drained(S) /\ KeptRun(keys, seen, st, batch, kept)
             /\ ReconcileMempool(keys, seen, st, S) = kept[Len(batch)]
<1> DEFINE batch == CHOOSE batch \in Drained(S) : TRUE
           n     == Len(batch)
           step  == [x \in (SUBSET S) \X (1 .. n) |-> QueueAgain(keys, seen, st, x[1], batch[x[2]])]
           Loop(kept) == kept = [i \in 0 .. n |-> IF i = 0 THEN {}
                                   ELSE QueueAgain(keys, seen, st, kept[i - 1], batch[i])]
           kept  == CHOOSE kept : Loop(kept)
<1>1. ReconcileMempool(keys, seen, st, S) = kept[n]
  BY DEF ReconcileMempool
<1>2. batch \in Drained(S)
  BY DrainExists DEF Poolable
<1> HIDE DEF batch
<1>3. n \in Nat /\ \A i \in 1 .. n : batch[i] \in S
  <2>1. IsFiniteSet(S) /\ S \subseteq Txs
    BY DEF Poolable
  <2> QED  BY <1>2, <2>1, DrainedOrder
<1> HIDE DEF n
<1>4. ASSUME NEW K \in SUBSET S, NEW i \in 1 .. n PROVE step[<<K, i>>] \in SUBSET S
  <2>1. step[<<K, i>>] = QueueAgain(keys, seen, st, K, batch[i])
    OBVIOUS
  <2>2. QueueAgain(keys, seen, st, K, batch[i]) \in {K, K \cup {batch[i]}}
    BY DEF QueueAgain
  <2> HIDE DEF step
  <2> QED  BY <1>3, <2>1, <2>2
<1>5. PICK f \in [0 .. n -> SUBSET S] :
        f[0] = {} /\ \A i \in 1 .. n : f[i] = step[<<f[i - 1], i>>]
  <2> HIDE DEF step, Loop, kept
  <2>1. {} \in SUBSET S
    OBVIOUS
  <2>2. StaysIn(n, SUBSET S, {}, step)
    BY <1>4, <2>1 DEF StaysIn
  <2> QED  BY <1>3, <2>2, LoopDefined
<1>6. \A i \in 1 .. n : step[<<f[i - 1], i>>] = QueueAgain(keys, seen, st, f[i - 1], batch[i])
  <2>1. \A i \in 1 .. n : f[i - 1] \in SUBSET S
    BY <1>3
  <2> QED  BY <2>1
<1>7. Loop(f)
  <2> HIDE DEF step
  <2>1. f[0] = {} /\ \A i \in 1 .. n : f[i] = QueueAgain(keys, seen, st, f[i - 1], batch[i])
    BY <1>5, <1>6
  <2>2. \A i \in 0 .. n : i # 0 => i \in 1 .. n
    BY <1>3
  <2>3. \A i \in 0 .. n : f[i] = IF i = 0 THEN {}
                                ELSE QueueAgain(keys, seen, st, f[i - 1], batch[i])
    BY <2>1, <2>2
  <2>4. f = [i \in 0 .. n |-> f[i]]
    OBVIOUS
  <2> QED  BY <2>3, <2>4
<1>8. Loop(kept)
  <2> HIDE DEF Loop
  <2> QED  BY <1>7
<1> HIDE DEF kept, step
<1>9. /\ kept[0] = {}
      /\ \A i \in 1 .. n : kept[i] = QueueAgain(keys, seen, st, kept[i - 1], batch[i])
  <2>1. \A i \in 0 .. n : kept[i] = IF i = 0 THEN {}
                                  ELSE QueueAgain(keys, seen, st, kept[i - 1], batch[i])
    BY <1>8
  <2>2. 0 \in 0 .. n /\ \A i \in 1 .. n : i \in 0 .. n /\ i # 0
    BY <1>3
  <2> HIDE DEF Loop
  <2>3. kept[0] = {}
    BY <2>1, <2>2
  <2>4. \A i \in 1 .. n : kept[i] = QueueAgain(keys, seen, st, kept[i - 1], batch[i])
    BY <2>1, <2>2
  <2> QED  BY <2>3, <2>4
<1> HIDE DEF Loop
<1>10. KeptRun(keys, seen, st, batch, kept)
  BY <1>9 DEF KeptRun, n
<1> QED  BY <1>1, <1>2, <1>10 DEF n

\* Requeueing one by one, in the order of drain, keeps what Requeued says.
LEMMA ReconcileIs ==
    ASSUME NEW keys, NEW seen, NEW st \in LedgerState, NEW S, Poolable(S)
    PROVE  ReconcileMempool(keys, seen, st, S) = Requeued(keys, seen, st, S)
<1> DEFINE R == Requeued(keys, seen, st, S)
<1>1. PICK batch, kept :
        /\ batch \in Drained(S) /\ KeptRun(keys, seen, st, batch, kept)
        /\ ReconcileMempool(keys, seen, st, S) = kept[Len(batch)]
  BY ReconcileLoop
<1> DEFINE n == Len(batch)
           first(i) == {u \in R : \E j \in 1 .. i : batch[j] = u}
           C == {i \in Nat : i <= n => kept[i] = first(i)}
<1>2. IsFiniteSet(S) /\ S \subseteq Txs /\ R \subseteq S
  BY RequeuedSubset DEF Poolable
<1>3. /\ n \in Nat /\ \A i \in 1 .. n : batch[i] \in S
      /\ \A t \in S : \E i \in 1 .. n : batch[i] = t
      /\ \A i, j \in 1 .. n : batch[i] = batch[j] => i = j
      /\ \A i, j \in 1 .. n :
            batch[i].sender = batch[j].sender => (i < j <=> batch[i].nonce < batch[j].nonce)
  BY <1>1, <1>2, DrainedOrder
<1>4. /\ kept[0] = {}
      /\ \A i \in 1 .. n : kept[i] = QueueAgain(keys, seen, st, kept[i - 1], batch[i])
  BY <1>1 DEF KeptRun
<1> HIDE DEF n, R
<1>5. 0 \in C
  <2>1. first(0) = {}
    OBVIOUS
  <2> QED  BY <1>4, <2>1
<1>6. ASSUME NEW i \in Nat, i \in C PROVE i + 1 \in C
  <2> SUFFICES ASSUME i + 1 <= n PROVE kept[i + 1] = first(i + 1)
    OBVIOUS
  <2> DEFINE t == batch[i + 1]
             K == first(i)
  <2>1. /\ i <= n /\ i + 1 \in 1 .. n /\ (i + 1) - 1 = i /\ t \in S
        /\ \A j \in 1 .. i : j \in 1 .. n
    BY <1>3
  <2>2. kept[i] = K
    BY <1>6, <2>1
  <2>3. kept[i + 1] = QueueAgain(keys, seen, st, K, t)
    BY <1>4, <2>1, <2>2
  <2>4. ASSUME NEW u \in QueuedBy(R, t.sender) PROVE u \in K <=> u.nonce < t.nonce
    <3>1. u \in R /\ u \in S /\ u.sender = t.sender
      BY <1>2 DEF QueuedBy
    <3>2. PICK j \in 1 .. n : batch[j] = u
      BY <1>3, <3>1
    <3>3. j < i + 1 <=> u.nonce < t.nonce
      BY <1>3, <2>1, <3>1, <3>2
    <3>4. u \in K <=> j \in 1 .. i
      BY <1>3, <2>1, <3>1, <3>2
    <3>5. j \in 1 .. i <=> j < i + 1
      BY <1>3
    <3> QED  BY <3>3, <3>4, <3>5
  <2>5. K \subseteq R
    OBVIOUS
  <2>6. first(i + 1) = IF t \in R THEN K \cup {t} ELSE K
    <3>1. \A j : j \in 1 .. i + 1 <=> j \in 1 .. i \/ j = i + 1
      OBVIOUS
    <3>2. \A u : u \in first(i + 1) <=> u \in K \/ (u = t /\ t \in R)
      BY <3>1
    <3> HIDE DEF first, t
    <3> QED  BY <3>2
  <2> HIDE DEF K, t, first
  <2>7. QueueAgain(keys, seen, st, K, t) = IF t \in R THEN K \cup {t} ELSE K
    <3>1. /\ K \subseteq Requeued(keys, seen, st, S)
          /\ \A u \in QueuedBy(Requeued(keys, seen, st, S), t.sender) :
                u \in K <=> u.nonce < t.nonce
      BY <2>4, <2>5 DEF R
    <3>2. QueueAgain(keys, seen, st, K, t) =
            IF t \in Requeued(keys, seen, st, S) THEN K \cup {t} ELSE K
      BY <2>1, <3>1, QueueAgainIs
    <3> QED  BY <3>2 DEF R
  <2> QED  BY <2>3, <2>6, <2>7
<1> HIDE DEF C
<1>7. n \in C
  BY <1>3, <1>5, <1>6, NumbersInduction
<1>8. kept[n] = first(n)
  BY <1>3, <1>7 DEF C
<1>9. first(n) = R
  BY <1>2, <1>3
<1> QED  BY <1>1, <1>8, <1>9 DEF R, n

-----------------------------------------------------------------------------
(***************************************************************************)
(* The machine: its pool is always one that admission built.               *)
(***************************************************************************)
Grown == SubSeq(chain, 1, base)

RefInv ==
    /\ chain \in Seq(Block) /\ base \in 1 .. Len(chain)
    /\ queue \subseteq Txs /\ IsFiniteSet(queue)
    /\ TotalWeight(queue) <= MaxMempoolBytes
    /\ queue # {} => Valid(Grown) /\ Admitted(AuthorKeys, StateOf(Grown), queue)

LEMMA PoolIsPoolable == ASSUME RefInv PROVE Poolable(queue)
<1>1. CASE queue = {}
  BY <1>1, FS_EmptySet DEF RefInv, Poolable, DistinctNonces, QueuedBy
<1>2. CASE queue # {}
  <2>1. \A t \in queue : t.sender # Mint /\ t.wellFormed
    BY <1>2 DEF RefInv, Admitted
  <2>2. DistinctNonces(queue)
    BY <1>2 DEF RefInv, Admitted, IsRun, DistinctNonces
  <2> QED  BY <2>1, <2>2 DEF RefInv, Poolable
<1> QED  BY <1>1, <1>2

LEMMA RefStarts == RefInit => RefInv
<1> SUFFICES ASSUME RefInit PROVE RefInv
  OBVIOUS
<1>1. chain = <<Genesis>> /\ base = 1 /\ queue = {}
  BY DEF RefInit
<1>2. chain \in Seq(Block) /\ base \in 1 .. Len(chain)
  BY <1>1, GenesisType
<1>3. TotalWeight(queue) <= MaxMempoolBytes
  BY <1>1, TotalsNone, LimitAssumption
<1> QED  BY <1>1, <1>2, <1>3, FS_EmptySet DEF RefInv

LEMMA RefStep == RefInv /\ [RefNext]_refVars => RefInv'
<1> SUFFICES ASSUME RefInv, [RefNext]_refVars PROVE RefInv'
  OBVIOUS
<1>1. /\ chain \in Seq(Block) /\ base \in 1 .. Len(chain) /\ Len(chain) \in Nat
      /\ queue \subseteq Txs /\ IsFiniteSet(queue) /\ TotalWeight(queue) <= MaxMempoolBytes
      /\ queue # {} => Valid(Grown) /\ Admitted(AuthorKeys, StateOf(Grown), queue)
  BY DEF RefInv
<1>2. ASSUME chain' \in Seq(Block), base' = base, queue' = queue, base <= Len(chain'),
             \A n \in 1 .. base : chain'[n] = chain[n]
      PROVE  RefInv'
  <2>1. Len(chain') \in Nat /\ base \in 1 .. Len(chain')
    BY <1>1, <1>2
  <2>2. SubSeq(chain', 1, base) = SubSeq(chain, 1, base)
    BY <1>1, <1>2, <2>1
  <2>3. Grown' = Grown
    BY <1>2, <2>2 DEF Grown
  <2> QED  BY <1>1, <1>2, <2>1, <2>3 DEF RefInv
<1>3. ASSUME NEW a \in Writers, NEW t \in Txs, OpenBlock(a, t) PROVE RefInv'
  <2> DEFINE b == [author |-> a, key |-> AuthorKeys[a], txs |-> <<t>>]
  <2>1. b \in Block
    <3>1. a \in Accounts /\ AuthorKeys[a] \in Keys \cup {NoKey} /\ <<t>> \in Seq(Txs)
      BY AuthorAssumption DEF KeyMap
    <3> QED  BY <3>1 DEF Block
  <2>2. chain' = Append(chain, b) /\ base' = base /\ queue' = queue
    BY <1>3 DEF OpenBlock
  <2> HIDE DEF b
  <2>3. /\ Append(chain, b) \in Seq(Block) /\ Len(Append(chain, b)) = Len(chain) + 1
        /\ \A n \in 1 .. Len(chain) : Append(chain, b)[n] = chain[n]
    BY <1>1, <2>1
  <2>4. base <= Len(chain) + 1 /\ \A n \in 1 .. base : n \in 1 .. Len(chain)
    <3>1. base \in Nat /\ base <= Len(chain) /\ Len(chain) \in Nat
      BY <1>1
    <3> QED  BY <3>1
  <2> QED  BY <1>2, <2>2, <2>3, <2>4
<1>4. ASSUME NEW t \in Txs, ExtendBlock(t) PROVE RefInv'
  <2> DEFINE k == Len(chain)
             b == [chain[k] EXCEPT !.txs = Append(chain[k].txs, t)]
  <2>1. /\ k > base /\ chain' = [chain EXCEPT ![k] = b]
        /\ base' = base /\ queue' = queue
    BY <1>4 DEF ExtendBlock
  <2>2. k \in 1 .. Len(chain) /\ chain[k] \in Block
    BY <1>1, <2>1
  <2>3. b \in Block
    <3>1. chain[k].txs \in Seq(Txs)
      BY <2>2 DEF Block
    <3>2. Append(chain[k].txs, t) \in Seq(Txs)
      BY <3>1
    <3> QED  BY <2>2, <3>2 DEF Block
  <2> HIDE DEF b
  <2>4. chain' \in Seq(Block) /\ Len(chain') = Len(chain)
    BY <1>1, <2>1, <2>2, <2>3
  <2>5. \A n \in 1 .. base : chain'[n] = chain[n]
    BY <1>1, <2>1
  <2>6. base <= Len(chain')
    BY <1>1, <2>1, <2>4
  <2>7. base' = base /\ queue' = queue
    BY <2>1
  <2> QED  BY <1>2, <2>4, <2>5, <2>6, <2>7
<1>5. ASSUME NEW t \in Txs, Admit(t) PROVE RefInv'
  <2> DEFINE st == StateOf(chain)
  <2>1. /\ base = Len(chain) /\ Valid(chain)
        /\ ~ Refused(AuthorKeys, Ids(chain), st, queue, t)
        /\ TotalWeight(queue) + t.weight <= MaxMempoolBytes
        /\ queue' = queue \cup {t} /\ chain' = chain /\ base' = base
    BY <1>5 DEF Admit
  <2>2. Grown = chain /\ Grown' = chain
    BY <1>1, <2>1 DEF Grown
  <2>3. st \in LedgerState
    BY <1>1, <2>1, InitialStateType, StateAfterType DEF Valid, ChainValid, StateOf
  <2>4. Admitted(AuthorKeys, st, queue)
    <3>1. CASE queue = {}
      BY <2>3, <3>1, AdmittedEmpty
    <3>2. CASE queue # {}
      BY <1>1, <2>2, <3>2
    <3> QED  BY <3>1, <3>2
  <2> HIDE DEF st
  <2>5. Admitted(AuthorKeys, st, queue \cup {t})
    <3>1. KeepsKeys(AuthorKeys, AuthorKeys)
      BY DEF KeepsKeys
    <3> QED  BY <1>1, <2>1, <2>3, <2>4, <3>1, AdmittedMore
  <2>6. queue' \subseteq Txs /\ IsFiniteSet(queue') /\ t \notin queue
    <3>1. IsFiniteSet(queue \cup {t})
      BY <1>1, FS_AddElement
    <3>2. t \notin queue
      BY <2>1 DEF Refused
    <3> QED  BY <1>1, <2>1, <3>1, <3>2
  <2>7. TotalWeight(queue') <= MaxMempoolBytes
    BY <1>1, <2>1, <2>6, TotalsAdd
  <2> QED  BY <1>1, <2>1, <2>2, <2>5, <2>6, <2>7 DEF RefInv, st, Valid, StateOf
<1>6. CASE Rebase
  <2>1. queue' = {} /\ base' \in 1 .. Len(chain') /\ chain' = chain /\ queue' = queue
    BY <1>1, <1>6 DEF Rebase
  <2> QED  BY <1>1, <2>1 DEF RefInv
<1>7. CASE UNCHANGED refVars
  <2>1. chain' = chain /\ base' = base /\ queue' = queue
    BY <1>7 DEF refVars
  <2> QED  BY <1>1, <1>2, <2>1
<1> QED  BY <1>3, <1>4, <1>5, <1>6, <1>7 DEF RefNext

LEMMA RefAlways == RefSpec => []RefInv
BY RefStarts, RefStep, PTL DEF RefSpec

LEMMA LoopsAgree == RefInv => ReplayAgrees /\ AppendAgrees /\ RequeueAgrees
<1> SUFFICES ASSUME RefInv PROVE ReplayAgrees /\ AppendAgrees /\ RequeueAgrees
  OBVIOUS
<1>1. chain \in Seq(Block)
  BY DEF RefInv
<1>2. ReplayAgrees
  BY <1>1, ReplayIs DEF ReplayAgrees, Valid, StateOf
<1>3. AppendAgrees
  BY <1>1, AppendIs DEF AppendAgrees, Valid, StateOf
<1>4. ASSUME Valid(chain), NEW c \in {chain, <<Genesis>>}
      PROVE  StateOf(c) \in LedgerState
  <2>1. CASE c = chain
    BY <1>1, <1>4, <2>1, InitialStateType, StateAfterType DEF Valid, ChainValid, StateOf
  <2>2. CASE c = <<Genesis>>
    <3>1. /\ TransactionsApply(AuthorKeys, {}, InitialState, Append(<<>>, Genesis))
          /\ <<>> \in Seq(Block) /\ Genesis \in Block
      <4>1. Genesis.txs = <<>> /\ Genesis \in Block /\ <<>> \in Seq(Block)
        BY GenesisType DEF Genesis
      <4> QED  BY <4>1, InitialStateType, NoBlocks, EmptyBlock
    <3>2. c = Append(<<>>, Genesis) /\ c \in Seq(Block)
      BY <2>2, <3>1
    <3> QED  BY <3>1, <3>2, InitialStateType, StateAfterType DEF StateOf
  <2> QED  BY <2>1, <2>2
<1>5. RequeueAgrees
  BY <1>4, PoolIsPoolable, ReconcileIs DEF RequeueAgrees
<1> QED  BY <1>2, <1>3, <1>5

\* The running state of replay may be read off positions: on any chain, valid
\* or not, of any length, replay accepts and ends as ChainValid and StateAfter
\* say.
THEOREM LoopsReplay == RefSpec => []ReplayAgrees
BY RefAlways, LoopsAgree, PTL

\* try_append_block on a valid chain accepts a block exactly when a peer that
\* replays the longer chain does.
THEOREM LoopsAppend == RefSpec => []AppendAgrees
BY RefAlways, LoopsAgree, PTL

\* reconcile_mempool, which drains the pool and queues each transaction again
\* against those requeued before it, keeps exactly what Requeued describes
\* without an order.
THEOREM LoopsRequeue == RefSpec => []RequeueAgrees
BY RefAlways, LoopsAgree, PTL

=============================================================================
