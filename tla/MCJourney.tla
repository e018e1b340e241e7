------------------------------ MODULE MCJourney ------------------------------
(***************************************************************************)
(* Instances of Journey: one browser with one tab or two.                  *)
(***************************************************************************)
EXTENDS Journey

CONSTANTS tab1, tab2, home, first, second

EachItsOwn == [t \in Tabs |-> IF t = tab1 THEN {first} ELSE {second}]
InOneBrowser == [t \in Tabs |-> home]
=============================================================================
