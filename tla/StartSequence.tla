--------------------------- MODULE StartSequence ---------------------------
(***************************************************************************)
(* What the panels owe a race, abstractly: an armed start sequence is owed *)
(* one GO, issued for the scheduled instant whenever a late timer gets to  *)
(* it; once cancelled, or once the GO is out, nothing more is owed until   *)
(* that panel arms again.                                                  *)
(***************************************************************************)
EXTENDS Naturals, Sequences

CONSTANTS
    Panels,
    GoOffset    \* from the anchor of a sequence to its GO

VARIABLES
    owed,     \* per panel: a GO is owed
    anchor,   \* per panel: the instant its sequence was armed
    goes      \* per panel: the GOs issued, by the race epoch each carried

vars == <<owed, anchor, goes>>

Init ==
    /\ owed = [p \in Panels |-> FALSE]
    /\ anchor = [p \in Panels |-> 0]
    /\ goes = [p \in Panels |-> <<>>]

\* Armed, or armed anew.
Arm(p) ==
    /\ owed' = [owed EXCEPT ![p] = TRUE]
    /\ anchor'[p] \in Nat /\ anchor' = [anchor EXCEPT ![p] = anchor'[p]]
    /\ UNCHANGED goes

Cancel(p) ==
    /\ owed[p]
    /\ owed' = [owed EXCEPT ![p] = FALSE]
    /\ UNCHANGED <<anchor, goes>>

Go(p) ==
    /\ owed[p]
    /\ owed' = [owed EXCEPT ![p] = FALSE]
    /\ goes' = [goes EXCEPT ![p] = Append(@, anchor[p] + GoOffset)]
    /\ UNCHANGED anchor

Next == \E p \in Panels : Arm(p) \/ Cancel(p) \/ Go(p)

Spec == Init /\ [][Next]_vars
=============================================================================
