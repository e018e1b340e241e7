------------------------------- MODULE MCSync -------------------------------
(***************************************************************************)
(* Instances of Sync: three nodes in a cycle, or two.                      *)
(***************************************************************************)
EXTENDS Sync, TLC

CONSTANTS System, alice, bob, node1, node2, node3, kAlice, kBob, kNode1, kNode2, kNode3

MCAccounts == {System, alice, bob, node1, node2, node3}
MCKeys == {kAlice, kBob, kNode1, kNode2, kNode3}
ThreeNodes == {node1, node2, node3}
TwoNodes == {node1, node2}
MCRank == alice :> 1 @@ bob :> 2 @@ node1 :> 3 @@ node2 :> 4 @@ node3 :> 5 @@ System :> 6
ThreeKeys == node1 :> kNode1 @@ node2 :> kNode2 @@ node3 :> kNode3
TwoKeys == node1 :> kNode1 @@ node2 :> kNode2
MCInitialBalances ==
    [a \in MCAccounts |-> CASE a = alice -> 3 [] a = bob -> 1 [] OTHER -> 0]
Triangle == {{node1, node2}, {node2, node3}, {node1, node3}}

\* Two messages lost; or one link dropped or node restarted.
TwoLosses == (0 .. 2) \X {0} \X (0 .. Cardinality(Txs))
OneDrop == {0} \X (0 .. 1) \X (0 .. Cardinality(Txs))

\* alice pays node3 again and again; bob pays it once.
Pay(n) == [sender |-> alice, receiver |-> node3, amount |-> 1, nonce |-> n,
           weight |-> 1, key |-> kAlice, wellFormed |-> TRUE]
BobPays == [Pay(0) EXCEPT !.sender = bob, !.key = kBob]
TwoTxs == {Pay(0), Pay(1)}
ForkTxs == {Pay(0), Pay(1), Pay(2), BobPays}

\* Every file comes from the one that node1 created. alice is registered where
\* she submits.
OneFounder == [n \in Nodes |-> node1]
NoKeys == [a \in MCAccounts |-> NoKey]
OneAuthority == [n \in Nodes |-> {node1}]
KeysOfOne == [n \in Nodes |->
    IF n = node1 THEN [NoKeys EXCEPT ![node1] = kNode1, ![alice] = kAlice]
    ELSE [NoKeys EXCEPT ![node1] = kNode1]]
AtNode1 == [n \in Nodes |-> IF n = node1 THEN Txs ELSE {}]

\* node1 and node2 both seal and know everybody; alice submits at one of them,
\* bob at the other.
TwoAuthorities == [n \in Nodes |-> {node1, node2}]
KeysOfAll == [n \in Nodes |->
    [NoKeys EXCEPT ![node1] = kNode1, ![node2] = kNode2, ![alice] = kAlice, ![bob] = kBob]]
EachAtHome == [n \in Nodes |->
    CASE n = node1 -> {t \in Txs : t.sender = alice}
      [] n = node2 -> {t \in Txs : t.sender = bob}
      [] OTHER -> {}]
=============================================================================
