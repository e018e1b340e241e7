-------------------------- MODULE MCLedgerReference --------------------------
(***************************************************************************)
(* Inputs on which the loops and the positional rules are compared.        *)
(***************************************************************************)
EXTENDS LedgerReference

CONSTANTS System, alice, bob, node1, kAlice, kBob, kNode1

MCAccounts == {System, alice, bob, node1}
MCKeys == {kAlice, kBob, kNode1}
MCRank == [a \in MCAccounts |->
             CASE a = alice -> 1 [] a = bob -> 2 [] a = node1 -> 3 [] OTHER -> 4]
MCInitialBalances ==
    [a \in MCAccounts |-> CASE a = alice -> 3 [] a = bob -> 1 [] OTHER -> 0]
MCAuthorKeys ==
    [a \in MCAccounts |-> CASE a = alice -> kAlice [] a = bob -> kBob
                            [] a = node1 -> kNode1 [] OTHER -> NoKey]

Tx(from, to, amount, nonce, key) ==
    [sender |-> from, receiver |-> to, amount |-> amount, nonce |-> nonce,
     weight |-> 1, key |-> key, wellFormed |-> TRUE]

\* Transfers that compete for a nonce or for funds, one that waits for an
\* income, a self transfer, a mint that can overflow or be repeated, a bad
\* signature.
MCTxs ==
    {Tx(alice, bob, 2, 0, kAlice), Tx(alice, bob, 1, 1, kAlice),
     Tx(alice, alice, 3, 0, kAlice), Tx(alice, bob, 1, 2, kAlice),
     Tx(bob, alice, 2, 0, kBob), Tx(System, bob, 1, 0, kNode1),
     Tx(bob, alice, 1, 0, kAlice)}
=============================================================================
