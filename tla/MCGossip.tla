------------------------------ MODULE MCGossip ------------------------------
(***************************************************************************)
(* Instances of Gossip: two nodes that are connected, of which only node1  *)
(* can seal.                                                               *)
(***************************************************************************)
EXTENDS MCSync, OneSealer, Gossip

GossipAccounts == {System, alice, bob, node1, node2}
GossipBalances == [a \in GossipAccounts |-> MCInitialBalances[a]]
OneLink == {{node1, node2}}

AlicePays(n) == [Pay(n) EXCEPT !.receiver = bob]

\* alice pays twice at node2.
OrderedTxs == {AlicePays(0), AlicePays(1)}

\* alice pays at node2, and bob fills the pool of node1.
CrowdingTxs == {AlicePays(0), [BobPays EXCEPT !.receiver = alice, !.weight = 2]}

AtHome == [n \in Nodes |-> {t \in Txs : (t.sender = bob) = (n = node1)}]

\* Two transactions and a message lost; or one transaction, and besides a link
\* dropped, a request timed out or a node restarted.
OneFaultOfEachKind ==
    ((0 .. 1) \X {0} \X (0 .. 2)) \cup ((0 .. 1) \X (0 .. 1) \X (0 .. 1))

KeysAtHome == [n \in Nodes |->
    [a \in Accounts |->
        CASE a = node1 -> kNode1
          [] a = alice /\ n = node2 -> kAlice
          [] a = bob /\ n = node1 -> kBob
          [] OTHER -> NoKey]]
=============================================================================
