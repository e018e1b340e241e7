---------------------------- MODULE ReplicatedLog ----------------------------
(***************************************************************************)
(* What a network with one sealing node promises its clients: one history, *)
(* written by the leader, of which every other replica holds a prefix that *)
(* only grows, through restarts, lost messages and adopted chains.         *)
(***************************************************************************)
EXTENDS Sequences, Naturals

CONSTANTS Replicas, Leader, Entries, First

VARIABLE copies   \* the history each replica holds; the leader's is the log

LogInit == copies = [n \in Replicas |-> <<First>>]

\* The leader makes history, one entry at a time.
Write ==
    LET log == copies'[Leader]
        old == copies[Leader]
    IN  /\ Len(log) = Len(old) + 1
        /\ SubSeq(log, 1, Len(old)) = old
        /\ log[Len(log)] \in Entries
        /\ copies' = [copies EXCEPT ![Leader] = log]

\* Another replica learns more of it.
Learn(n, k) ==
    /\ Len(copies[n]) < k
    /\ copies' = [copies EXCEPT ![n] = SubSeq(copies[Leader], 1, k)]

LogNext ==
    \/ Write
    \/ \E n \in Replicas \ {Leader}, k \in DOMAIN copies[Leader] : Learn(n, k)

LogSpec == LogInit /\ [][LogNext]_copies
=============================================================================
