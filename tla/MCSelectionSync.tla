--------------------------- MODULE MCSelectionSync ---------------------------
(* SelectionSync on a small room.                                          *)
EXTENDS SelectionSync

\* Every panel's wall clock is ahead of any Lamport count the bounds allow, and
\* no two of them agree.
SkewedClocks == [p \in Panels |-> {20 - p}]
=============================================================================
