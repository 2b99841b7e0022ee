---------------------------- MODULE SelectionLww ----------------------------
(***************************************************************************)
(* The last-writer-wins stamp of `updateSelection`                         *)
(* (web/src/app/util/selectionLww.ts).  A stamp ranks by its sequence      *)
(* number, then by authority (a claim beats a re-statement of it), then by *)
(* the id of the page that sent it.  Page ids are natural numbers here:    *)
(* the code compares UUID strings and uses nothing of them but their order.*)
(***************************************************************************)
EXTENDS Integers

CONSTANT Panels   \* the ids of the control pages that ever open

\* 0 stands for the empty `by` of a panel that has seen no stamp.
ASSUME PanelsAssumption == Panels \subseteq Nat \ {0}

Stamp == [seq : Nat, by : Panels \union {0}, echo : BOOLEAN]

InitialStamp == [seq |-> 0, by |-> 0, echo |-> FALSE]

\* The rank of the stamp: seq, then authority, then sender.
Outranks(s, t) ==
    \/ s.seq > t.seq
    \/ s.seq = t.seq /\ ~s.echo /\ t.echo
    \/ s.seq = t.seq /\ (s.echo <=> t.echo) /\ s.by > t.by

\* A fresh claim by `self`, minted past everything seen.  Until the room's
\* selection has been seen the wall clock is left out of it.
Minted(self, last, anchored, now) ==
    [seq  |-> IF anchored /\ now > last.seq + 1 THEN now ELSE last.seq + 1,
     by   |-> self,
     echo |-> FALSE]

\* A re-statement numbered like a claim.
MutRestated(self, held) == [seq |-> held.seq + 1, by |-> self, echo |-> TRUE]

\* The stamp on a frame that re-states a value `self` merely holds under `held`.
Restated(self, held) == [seq |-> held.seq, by |-> self, echo |-> TRUE]
=============================================================================
