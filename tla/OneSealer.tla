------------------------------ MODULE OneSealer ------------------------------
(***************************************************************************)
(* The network of Sync when one node alone seals and its writes succeed:   *)
(* one authority, and followers that got their files from it.              *)
(***************************************************************************)
EXTENDS Sync

CONSTANT Leader   \* the node that seals

ASSUME OneSealerAssumption ==
    /\ Leader \in Nodes
    /\ \A n \in Nodes :
        /\ InitialAuthorities[n] = {Leader}
        /\ Founder[n] = Founder[Leader]

Log == INSTANCE ReplicatedLog
         WITH Replicas <- Nodes, Entries <- Block, First <- GenesisOf(Leader),
              copies <- blocks

\* The network is one log that every node holds a growing prefix of, whatever
\* is lost, overtaken, dropped or restarted.
IsOneLog == Log!LogSpec
=============================================================================
