----------------------------- MODULE ScoreEntry -----------------------------
(***************************************************************************)
(* The entry machine of one athlete slot of the Freestyle scoring console  *)
(* (web/src/app/util/scoreInput.ts) as functions of the slot's state, and  *)
(* the winner two persisted results resolve to.  A judged panel is one     *)
(* mark: 0 is a blank panel, and the mark is the overall it computes.      *)
(***************************************************************************)
EXTENDS Integers

CONSTANTS Athletes, Marks

ASSUME MarksAssumption == Marks \subseteq Nat /\ 0 \in Marks
ASSUME AthletesAssumption == Athletes \subseteq Nat \ {0}

Slots == {1, 2}
OtherSlot(s) == 3 - s
Nobody == 0

Dnf == -1                    \* the result of a DNF: below every overall
Result == Marks \union {Dnf}

\* The row a slot has persisted: its scoreId, whose it is, what it records.
Record == [id : Nat, athlete : Athletes, result : Result \ {0}]
NoRecord == [id |-> 0, athlete |-> Nobody, result |-> 0]

Entry == [status : {"empty", "editing", "pending", "saved", "error"},
          draft : Marks, result : Result, live : BOOLEAN]

EmptyEntry == [status |-> "empty", draft |-> 0, result |-> 0, live |-> FALSE]

HasDraft(e) == e.draft # 0

\* A panel holding nothing of its own takes a persisted score in.
AwaitsRestore(e) == e.status \in {"empty", "editing"} /\ ~HasDraft(e)

IsEntryOpen(e) == e.status \notin {"pending", "saved"}

-----------------------------------------------------------------------------
(* The replies and restores, on the slot they are dispatched to.           *)

Edited(e, mark) == [EmptyEntry EXCEPT !.status = "editing", !.draft = mark]

\* The entry was locked when it was submitted.
MutSubmitted(e, result) == [e EXCEPT !.status = "saved", !.result = result, !.live = TRUE]

Submitted(e, result) == [e EXCEPT !.status = "pending", !.result = result]

Failed(e) == IF e.status = "pending" THEN [e EXCEPT !.status = "error"] ELSE e

Restored(record) ==
    [status |-> "saved", draft |-> IF record.result = Dnf THEN 0 ELSE record.result,
     result |-> record.result, live |-> FALSE]

\* The move's reply locks the panel on the moved row.
Moved(record) == [Restored(record) EXCEPT !.live = TRUE]

Saved(e, record) == [e EXCEPT !.status = "saved", !.result = record.result, !.live = TRUE]

-----------------------------------------------------------------------------
(* The winner.                                                             *)

Keep == -1   \* no write

\* deriveFreestyleMatchWinner, of two persisted results: a tie or two DNFs clear
\* the winner, and an unassigned winner is not written.
Winner(athletes, results) ==
    IF results[1] = results[2] THEN Nobody
    ELSE LET best == IF results[1] > results[2] THEN athletes[1] ELSE athletes[2]
         IN  IF best = Nobody THEN Keep ELSE best

\* Any two results will do, a POST still in flight included.
MutResolve(athletes, entries) ==
    IF \A s \in Slots : entries[s].status \in {"pending", "saved"}
    THEN Winner(athletes, [s \in Slots |-> entries[s].result]) ELSE Keep

\* ... of the two panels, once both are saved.
Resolve(athletes, entries) ==
    IF \A s \in Slots : entries[s].status = "saved"
    THEN Winner(athletes, [s \in Slots |-> entries[s].result]) ELSE Keep
=============================================================================
