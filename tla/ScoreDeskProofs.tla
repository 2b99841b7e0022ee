-------------------------- MODULE ScoreDeskProofs --------------------------
(***************************************************************************)
(* What holds of the scoring desks for any number of desks, athletes and   *)
(* marks and any number of presses and refusals: recorders, rows and       *)
(* requests keep their types, nothing without a result is ever sent, no    *)
(* panel waits for a request that nobody makes, a locked panel shows the   *)
(* server's row, and Match.winnerId is what the two rows resolve to.       *)
(***************************************************************************)
EXTENDS ScoreDesk, FiniteSetTheorems, TLAPS

RowOrNone == Record \union {NoRecord}
Rows == [Athletes -> RowOrNone]

\* A panel that submitted, or failed to, has something to submit.
SoundEntry(e) == e.status \in {"pending", "error"} => e.result = Dnf \/ e.draft # 0
SoundDesk(k) == \A s \in Slots : SoundEntry(k.entry[s])

\* The inductive invariant behind the type invariant.
DeskInv == TypeOK /\ \A d \in Desks : SoundDesk(desk[d])

-----------------------------------------------------------------------------
(* The operators.                                                          *)

\* The initial board: two contenders, nothing entered.
LEMMA FreshTypes ==
    /\ FirstPair \in [Slots -> Athletes]
    /\ EmptyEntry \in Entry
    /\ FreshDesk \in Recorder /\ SoundDesk(FreshDesk)
    /\ [FreshDesk EXCEPT !.seeded = FirstPair] \in Recorder
    /\ SoundDesk([FreshDesk EXCEPT !.seeded = FirstPair])
<1>1. \E pair \in [Slots -> Athletes] : pair[1] < pair[2]
  <2>1. PICK a \in Athletes, b \in Athletes : a < b
    BY ContendersAssumption
  <2> DEFINE pair == [s \in Slots |-> IF s = 1 THEN a ELSE b]
  <2>2. pair \in [Slots -> Athletes] /\ pair[1] = a /\ pair[2] = b
    BY DEF Slots
  <2> QED  BY <2>1, <2>2
<1>2. FirstPair \in [Slots -> Athletes]
  BY <1>1 DEF FirstPair
<1>3. EmptyEntry \in Entry
  BY MarksAssumption DEF EmptyEntry, Entry, Result
<1>4. FreshDesk \in Recorder
  BY <1>2, <1>3 DEF FreshDesk, Recorder
<1>5. /\ \A s \in Slots : FreshDesk.entry[s] = EmptyEntry
      /\ [FreshDesk EXCEPT !.seeded = FirstPair].entry = FreshDesk.entry
  BY DEF FreshDesk
<1>6. SoundEntry(EmptyEntry)
  BY DEF SoundEntry, EmptyEntry
<1>7. [FreshDesk EXCEPT !.seeded = FirstPair] \in Recorder
  BY <1>2, <1>4 DEF Recorder
<1> QED  BY <1>2, <1>3, <1>4, <1>5, <1>6, <1>7 DEF SoundDesk

\* Other slots are slots.
LEMMA OtherSlots == \A s \in Slots : OtherSlot(s) \in Slots
BY DEF Slots, OtherSlot

\* A row restored or moved is an entry of its own.
LEMMA RestoredTypes ==
    ASSUME NEW r \in Record
    PROVE  /\ Restored(r) \in Entry /\ Restored(r).status = "saved"
           /\ Moved(r) \in Entry /\ Moved(r).status = "saved"
<1>1. Restored(r) \in Entry
  BY MarksAssumption DEF Restored, Entry, Record, Result
<1> QED  BY <1>1 DEF Restored, Moved, Entry

\* The seeding effect keeps a recorder's type; what it changes of an entry, it locks.
LEMMA SeededTypes ==
    ASSUME NEW k \in Recorder, NEW rows \in Rows
    PROVE  /\ Seeded(k, rows) \in Recorder
           /\ \A s \in Slots : \/ Seeded(k, rows).entry[s] = k.entry[s]
                               \/ Seeded(k, rows).entry[s].status = "saved"
<1> DEFINE in == Restorable(k, rows)
           entries == [s \in Slots |-> IF s \in in THEN Restored(rows[k.athletes[s]]) ELSE k.entry[s]]
           records == [s \in Slots |-> IF s \in in THEN rows[k.athletes[s]] ELSE k.record[s]]
           seeded == [k EXCEPT !.seeded = k.athletes, !.entry = entries, !.record = records]
<1>1. \A s \in in : s \in Slots /\ rows[k.athletes[s]] \in Record
  BY DEF Restorable, Recorder, Rows, RowOrNone
<1>2. \A s \in Slots : s \in in => /\ Restored(rows[k.athletes[s]]) \in Entry
                                   /\ Restored(rows[k.athletes[s]]).status = "saved"
  BY <1>1, RestoredTypes
<1>3. entries \in [Slots -> Entry] /\ records \in [Slots -> RowOrNone]
  BY <1>1, <1>2 DEF Recorder, RowOrNone
<1>4. k.athletes \in [Slots -> Athletes \union {Nobody}]
  BY DEF Recorder
<1>5. seeded \in Recorder
  BY <1>3, <1>4 DEF Recorder, RowOrNone
<1>6. Seeded(k, rows) = seeded
  BY DEF Seeded
<1>7. seeded.entry = entries
  BY DEF Recorder
<1> QED  BY <1>2, <1>5, <1>6, <1>7

\* The winner written is a contender or none.
LEMMA ResolveTypes ==
    ASSUME NEW k \in Recorder, Resolve(k.athletes, k.entry) # Keep
    PROVE  Resolve(k.athletes, k.entry) \in Athletes \union {Nobody}
<1>1. k.athletes[1] \in Athletes /\ k.athletes[2] \in Athletes
  BY DEF Recorder, Slots
<1> QED  BY <1>1 DEF Resolve, Winner

\* A commit keeps the types, the other desks and the panels' soundness, and leaves
\* no panel waiting that did not wait.
LEMMA CommitKeeps ==
    ASSUME DeskInv, NEW d \in Desks, NEW k \in Recorder, SoundDesk(k), NEW rows \in Rows,
           NEW resolves \in BOOLEAN, Commit(d, k, rows, resolves)
    PROVE  /\ desk' \in [Desks -> Recorder]
           /\ cache' \in [Desks -> Rows]
           /\ puts' \in [Desks -> Seq(Athletes \union {Nobody})]
           /\ \A e \in Desks : SoundDesk(desk'[e])
           /\ \A e \in Desks \ {d} : desk'[e] = desk[e]
           /\ \A s \in Slots : desk'[d].entry[s].status = "pending" => k.entry[s].status = "pending"
<1> DEFINE seeded == Seeded(k, rows)
           put == Resolve(seeded.athletes, seeded.entry)
<1>1. seeded \in Recorder
  BY SeededTypes
<1>2. \A s \in Slots : seeded.entry[s] = k.entry[s] \/ seeded.entry[s].status = "saved"
  BY SeededTypes
<1>3. desk' = [desk EXCEPT ![d] = seeded] /\ cache' = [cache EXCEPT ![d] = rows]
  BY DEF Commit
<1>4. desk \in [Desks -> Recorder] /\ cache \in [Desks -> Rows]
  BY DEF DeskInv, TypeOK, Rows, RowOrNone
<1>5. desk' \in [Desks -> Recorder] /\ cache' \in [Desks -> Rows] /\ desk'[d] = seeded
      /\ \A e \in Desks \ {d} : desk'[e] = desk[e]
  BY <1>1, <1>3, <1>4
<1>6. puts' \in [Desks -> Seq(Athletes \union {Nobody})]
  <2>1. puts \in [Desks -> Seq(Athletes \union {Nobody})]
    BY DEF DeskInv, TypeOK
  <2>2. CASE puts' = puts
    BY <2>1, <2>2
  <2>3. CASE put # Keep /\ puts' = [puts EXCEPT ![d] = Append(@, put)]
    <3>1. put \in Athletes \union {Nobody}
      BY <1>1, <2>3, ResolveTypes
    <3>2. Append(puts[d], put) \in Seq(Athletes \union {Nobody})
      BY <2>1, <3>1
    <3> QED  BY <2>1, <2>3, <3>2
  <2> QED  BY <2>2, <2>3 DEF Commit
<1>7. SoundDesk(seeded)
  BY <1>2 DEF SoundDesk, SoundEntry
<1>8. \A e \in Desks : SoundDesk(desk'[e])
  BY <1>5, <1>7 DEF DeskInv
<1>9. \A s \in Slots : seeded.entry[s].status = "pending" => k.entry[s].status = "pending"
  BY <1>2
<1> QED  BY <1>5, <1>6, <1>8, <1>9

-----------------------------------------------------------------------------
(* The presses.                                                            *)

Counts == [saves : Nat, moves : Nat, board : Nat, refused : Nat]

\* A press is counted.
LEMMA PressedTypes ==
    ASSUME count \in Counts, NEW what \in {"saves", "moves", "board", "refused"}, NEW bound,
           Pressed(what, bound)
    PROVE  count' \in Counts /\ count.saves + 1 \in Nat
<1>1. count.saves \in Nat /\ count.moves \in Nat /\ count.board \in Nat /\ count.refused \in Nat
  BY DEF Counts
<1>2. count' = [count EXCEPT ![what] = count[what] + 1]
  BY DEF Pressed
<1>3. count[what] + 1 \in Nat
  BY <1>1
<1> QED  BY <1>1, <1>2, <1>3 DEF Counts

\* An entry changed on one slot.
LEMMA EntryTypes ==
    ASSUME NEW k \in Recorder, NEW s \in Slots, NEW e \in Entry, SoundDesk(k), SoundEntry(e)
    PROVE  /\ [k EXCEPT !.entry[s] = e] \in Recorder
           /\ SoundDesk([k EXCEPT !.entry[s] = e])
           /\ [k EXCEPT !.entry[s] = e].entry = [k.entry EXCEPT ![s] = e]
<1>1. [k.entry EXCEPT ![s] = e] \in [Slots -> Entry]
  BY DEF Recorder
<1>2. [k EXCEPT !.entry[s] = e].entry = [k.entry EXCEPT ![s] = e]
  BY DEF Recorder
<1>3. [k EXCEPT !.entry[s] = e] \in Recorder
  BY <1>1 DEF Recorder
<1>4. \A t \in Slots : [k.entry EXCEPT ![s] = e][t] = IF t = s THEN e ELSE k.entry[t]
  BY DEF Recorder
<1> QED  BY <1>2, <1>3, <1>4 DEF SoundDesk

\* Typing and its edits.
LEMMA EditKeeps ==
    ASSUME DeskInv, UNCHANGED pace, NEW d \in Desks, NEW s \in Slots, Edit(d, s)
    PROVE  DeskInv'
<1>1. PICK mark \in Marks :
        /\ Commit(d, [desk[d] EXCEPT !.entry[s] = Edited(@, mark)], cache[d], FALSE)
        /\ UNCHANGED <<sel, scores, rest, winner, count>>
  BY DEF Edit
<1> DEFINE e == Edited(desk[d].entry[s], mark)
           k == [desk[d] EXCEPT !.entry[s] = e]
<1>2. e \in Entry /\ SoundEntry(e)
  BY MarksAssumption DEF Edited, EmptyEntry, Entry, Result, SoundEntry
<1>3. desk[d] \in Recorder /\ SoundDesk(desk[d]) /\ cache[d] \in Rows
  BY DEF DeskInv, TypeOK, Rows, RowOrNone
<1>4. k \in Recorder /\ SoundDesk(k)
  BY <1>2, <1>3, EntryTypes
<1>5. Commit(d, k, cache[d], FALSE)
  BY <1>1, <1>3 DEF Recorder
<1>6. /\ desk' \in [Desks -> Recorder] /\ cache' \in [Desks -> Rows]
      /\ puts' \in [Desks -> Seq(Athletes \union {Nobody})]
      /\ \A f \in Desks : SoundDesk(desk'[f])
  BY <1>3, <1>4, <1>5, CommitKeeps
<1> QED  BY <1>1, <1>6 DEF DeskInv, TypeOK, Rows, RowOrNone

\* A save sends a result.
LEMMA SaveKeeps ==
    ASSUME DeskInv, UNCHANGED pace, NEW d \in Desks, NEW s \in Slots, NEW result \in Result,
           result = Dnf \/ (result # 0 /\ desk[d].entry[s].draft # 0),
           Save(d, s, result)
    PROVE  DeskInv'
<1> DEFINE e == Submitted(desk[d].entry[s], result)
           k == [desk[d] EXCEPT !.entry[s] = e]
           x == [by |-> d, slot |-> s, nr |-> count.saves + 1, move |-> FALSE, stage |-> "sent",
                 record |-> [id |-> count.saves + 1, athlete |-> desk[d].athletes[s],
                             result |-> result]]
<1>1. desk[d] \in Recorder /\ SoundDesk(desk[d]) /\ cache[d] \in Rows /\ desk[d].entry[s] \in Entry
  BY DEF DeskInv, TypeOK, Rows, RowOrNone, Recorder
<1>2. e \in Entry /\ SoundEntry(e)
  BY <1>1 DEF Submitted, Entry, SoundEntry
<1>3. k \in Recorder /\ SoundDesk(k)
  BY <1>1, <1>2, EntryTypes
<1>4. /\ Commit(d, k, cache[d], FALSE) /\ rest' = rest \union {x}
      /\ UNCHANGED <<sel, scores, winner>>
  BY <1>1 DEF Save, Recorder
<1>5. /\ desk' \in [Desks -> Recorder] /\ cache' \in [Desks -> Rows]
      /\ puts' \in [Desks -> Seq(Athletes \union {Nobody})]
      /\ \A f \in Desks : SoundDesk(desk'[f])
  BY <1>1, <1>3, <1>4, CommitKeeps
<1>6. count' \in Counts /\ count.saves + 1 \in Nat
  BY PressedTypes DEF DeskInv, TypeOK, Counts, Save
<1>7. result # 0 /\ desk[d].athletes[s] \in Athletes
  BY <1>1 DEF Dnf, Recorder
<1>8. x \in Request
  BY <1>6, <1>7 DEF Request, Record
<1>9. rest' \subseteq Request
  BY <1>4, <1>8 DEF DeskInv, TypeOK
<1> QED  BY <1>4, <1>5, <1>6, <1>9 DEF DeskInv, TypeOK, Rows, RowOrNone, Counts

\* Record takes the typed score or repeats the DNF, so either way it sends a result.
LEMMA RecordKeeps ==
    ASSUME DeskInv, UNCHANGED pace, NEW d \in Desks, NEW s \in Slots, RecordScore(d, s) \/ RecordDnf(d, s)
    PROVE  DeskInv'
<1>1. desk[d].entry[s] \in Entry /\ SoundEntry(desk[d].entry[s])
  BY DEF DeskInv, TypeOK, Recorder, SoundDesk
<1>2. CASE RecordScore(d, s)
  <2>1. desk[d].entry[s].draft # 0
    BY <1>1, <1>2 DEF RecordScore, RetriesDnf, HasDraft, SoundEntry
  <2>2. desk[d].entry[s].draft \in Result /\ Save(d, s, desk[d].entry[s].draft)
    BY <1>1, <1>2 DEF RecordScore, Entry, Result
  <2> QED  BY <2>1, <2>2, SaveKeeps
<1>3. CASE RecordDnf(d, s)
  BY <1>3, SaveKeeps DEF RecordDnf, Result
<1> QED  BY <1>2, <1>3

\* A move sends the row it has.
LEMMA MoveKeeps ==
    ASSUME DeskInv, UNCHANGED pace, NEW d \in Desks, NEW s \in Slots, MoveScore(d, s)
    PROVE  DeskInv'
<1> DEFINE k == [desk[d] EXCEPT !.moving = s]
           r == [desk[d].record[s] EXCEPT !.athlete = desk[d].athletes[s]]
           x == [by |-> d, slot |-> s, nr |-> desk[d].record[s].id, move |-> TRUE, stage |-> "sent",
                 record |-> r]
<1>1. desk[d] \in Recorder /\ SoundDesk(desk[d]) /\ cache[d] \in Rows
  BY DEF DeskInv, TypeOK, Rows, RowOrNone
<1>2. k \in Recorder /\ k.entry = desk[d].entry
  BY <1>1 DEF Recorder, Slots
<1>3. SoundDesk(k)
  BY <1>1, <1>2 DEF SoundDesk
<1>4. /\ Commit(d, k, cache[d], FALSE) /\ rest' = rest \union {x}
      /\ UNCHANGED <<sel, scores, winner>>
      /\ desk[d].record[s] # NoRecord
  BY DEF MoveScore
<1>5. /\ desk' \in [Desks -> Recorder] /\ cache' \in [Desks -> Rows]
      /\ puts' \in [Desks -> Seq(Athletes \union {Nobody})]
      /\ \A f \in Desks : SoundDesk(desk'[f])
  BY <1>1, <1>2, <1>3, <1>4, CommitKeeps
<1>6. desk[d].record[s] \in Record /\ desk[d].athletes[s] \in Athletes
  BY <1>1, <1>4 DEF Recorder
<1>7. r \in Record /\ desk[d].record[s].id \in Nat
  BY <1>6 DEF Record
<1>8. x \in Request
  BY <1>7 DEF Request
<1>9. rest' \subseteq Request
  BY <1>4, <1>8 DEF DeskInv, TypeOK
<1>10. count' \in Counts
  BY PressedTypes DEF DeskInv, TypeOK, Counts, MoveScore
<1> QED  BY <1>4, <1>5, <1>9, <1>10 DEF DeskInv, TypeOK, Rows, RowOrNone, Counts

-----------------------------------------------------------------------------
(* The board.                                                              *)

\* An athlete placed on a slot, athletes that change sides, a match picked anew.
LEMMA BoardTypes ==
    ASSUME NEW k \in Recorder, SoundDesk(k)
    PROVE  /\ \A s \in Slots, a \in Athletes : Placed(k, s, a) \in Recorder /\ SoundDesk(Placed(k, s, a))
           /\ Swapped(k) \in Recorder /\ SoundDesk(Swapped(k))
           /\ \A match \in Nat : Cleared(k, match) \in Recorder /\ SoundDesk(Cleared(k, match))
<1>1. ASSUME NEW s \in Slots, NEW a \in Athletes
      PROVE  Placed(k, s, a) \in Recorder /\ SoundDesk(Placed(k, s, a))
  <2>1. EmptyEntry \in Entry /\ SoundEntry(EmptyEntry)
    BY FreshTypes DEF SoundEntry, EmptyEntry
  <2>2. Placed(k, s, a).entry = [k.entry EXCEPT ![s] = EmptyEntry]
    BY DEF Placed, Recorder
  <2>3. Placed(k, s, a) \in Recorder
    BY <2>1 DEF Placed, Recorder
  <2>4. \A t \in Slots : [k.entry EXCEPT ![s] = EmptyEntry][t] = IF t = s THEN EmptyEntry ELSE k.entry[t]
    BY DEF Recorder
  <2> QED  BY <2>1, <2>2, <2>3, <2>4 DEF SoundDesk
<1>2. Swapped(k) \in Recorder /\ SoundDesk(Swapped(k))
  <2>1. /\ Exchanged(k.athletes) \in [Slots -> Athletes]
        /\ Exchanged(k.seeded) \in [Slots -> Athletes \union {Nobody}]
        /\ Exchanged(k.entry) \in [Slots -> Entry]
        /\ Exchanged(k.record) \in [Slots -> Record \union {NoRecord}]
    BY OtherSlots DEF Exchanged, Recorder
  <2>2. Swapped(k) \in Recorder
    BY <2>1 DEF Swapped, Recorder
  <2>3. \A s \in Slots : Swapped(k).entry[s] = k.entry[OtherSlot(s)]
    BY DEF Swapped, Recorder, Exchanged
  <2> QED  BY <2>2, <2>3, OtherSlots DEF SoundDesk
<1>3. ASSUME NEW match \in Nat
      PROVE  Cleared(k, match) \in Recorder /\ SoundDesk(Cleared(k, match))
  <2>1. Cleared(k, match) \in Recorder
    BY FreshTypes DEF Cleared, Recorder
  <2>2. Cleared(k, match).entry = FreshDesk.entry
    BY DEF Cleared, FreshDesk
  <2> QED  BY <2>1, <2>2, FreshTypes DEF SoundDesk
<1> QED  BY <1>1, <1>2, <1>3

\* What a change of the board commits keeps the types, whatever the selection.
LEMMA BoardCommits ==
    ASSUME DeskInv, UNCHANGED pace, NEW d \in Desks, NEW k \in Recorder, SoundDesk(k),
           Commit(d, k, cache[d], FALSE),
           sel' \in [match : Nat, athletes : [Slots -> Athletes]],
           UNCHANGED <<scores, rest, winner>>,
           Pressed("board", MaxBoard) \/ UNCHANGED count
    PROVE  DeskInv'
<1>1. cache[d] \in Rows /\ count \in Counts
  BY DEF DeskInv, TypeOK, Rows, RowOrNone, Counts
<1>2. /\ desk' \in [Desks -> Recorder] /\ cache' \in [Desks -> Rows]
      /\ puts' \in [Desks -> Seq(Athletes \union {Nobody})]
      /\ \A f \in Desks : SoundDesk(desk'[f])
  BY <1>1, CommitKeeps
<1>3. count' \in Counts
  BY <1>1, PressedTypes
<1> QED  BY <1>2, <1>3 DEF DeskInv, TypeOK, Rows, RowOrNone, Counts

\* A board change, the operator's own or a peer's that is adopted, keeps the invariant.
LEMMA BoardKeeps ==
    ASSUME DeskInv, UNCHANGED pace, NEW d \in Desks,
           (\E s \in Slots : SetAthlete(d, s)) \/ Swap(d) \/ SelectMatch(d) \/ Adopt(d)
    PROVE  DeskInv'
<1>1. desk[d] \in Recorder /\ SoundDesk(desk[d]) /\ sel \in [match : Nat, athletes : [Slots -> Athletes]]
  BY DEF DeskInv, TypeOK
<1>2. ASSUME NEW s \in Slots, SetAthlete(d, s) PROVE DeskInv'
  <2>1. PICK a \in Athletes :
          /\ Commit(d, Placed(desk[d], s, a), cache[d], FALSE) /\ Pressed("board", MaxBoard)
          /\ sel' = [match |-> desk[d].match, athletes |-> [desk[d].athletes EXCEPT ![s] = a]]
          /\ UNCHANGED <<scores, rest, winner>>
    BY <1>2 DEF SetAthlete
  <2>2. sel' \in [match : Nat, athletes : [Slots -> Athletes]]
    BY <1>1, <2>1 DEF Recorder
  <2> QED  BY <1>1, <2>1, <2>2, BoardTypes, BoardCommits
<1>3. CASE Swap(d)
  <2>1. sel' \in [match : Nat, athletes : [Slots -> Athletes]]
    BY <1>1, <1>3, OtherSlots DEF Swap, Recorder, Exchanged
  <2> QED  BY <1>1, <1>3, <2>1, BoardTypes, BoardCommits DEF Swap
<1>4. CASE SelectMatch(d)
  <2>1. sel' \in [match : Nat, athletes : [Slots -> Athletes]] /\ sel.match + 1 \in Nat
    BY <1>1, <1>4, FreshTypes DEF SelectMatch
  <2> QED  BY <1>1, <1>4, <2>1, BoardTypes, BoardCommits DEF SelectMatch
<1>5. CASE Adopt(d)
  <2> DEFINE k == IF desk[d].match = sel.match THEN desk[d] ELSE Cleared(desk[d], sel.match)
             one == IF k.athletes[1] # sel.athletes[1] THEN Placed(k, 1, sel.athletes[1]) ELSE k
             two == IF k.athletes[2] # sel.athletes[2] THEN Placed(one, 2, sel.athletes[2]) ELSE one
  <2>1. sel.match \in Nat /\ sel.athletes[1] \in Athletes /\ sel.athletes[2] \in Athletes
    BY <1>1 DEF Slots
  <2>2. k \in Recorder /\ SoundDesk(k)
    BY <1>1, <2>1, BoardTypes
  <2>3. one \in Recorder /\ SoundDesk(one)
    BY <2>1, <2>2, BoardTypes DEF Slots
  <2>4. two \in Recorder /\ SoundDesk(two)
    BY <2>1, <2>3, BoardTypes DEF Slots
  <2>5. Commit(d, two, cache[d], FALSE) /\ UNCHANGED <<sel, scores, rest, winner, count>>
    BY <1>5 DEF Adopt
  <2> HIDE DEF two
  <2> QED  BY <1>1, <2>4, <2>5, BoardCommits
<1> QED  BY <1>2, <1>3, <1>4, <1>5

-----------------------------------------------------------------------------
(* The server.                                                             *)

\* What a request writes is rows, and the row of its athlete is one.
LEMMA WrittenTypes ==
    ASSUME NEW x \in Request, scores \in Rows
    PROVE  Written(x) \in Rows /\ Written(x)[x.record.athlete] \in Record
<1> DEFINE r == x.record
           a == r.athlete
           row == [r EXCEPT !.id = IF scores[a] = NoRecord THEN @ ELSE scores[a].id]
<1>1. r \in Record /\ a \in Athletes
  BY DEF Request, Record
<1>2. scores[a] # NoRecord => scores[a].id \in Nat
  BY <1>1 DEF Rows, RowOrNone, Record
<1>3. row \in Record
  BY <1>1, <1>2 DEF Record
<1>4. CASE ~x.move
  <2>1. Written(x) = [scores EXCEPT ![a] = row]
    BY <1>4 DEF Written
  <2> QED  BY <1>1, <1>3, <2>1 DEF Rows, RowOrNone
<1>5. CASE x.move
  <2> DEFINE held == {b \in Athletes : scores[b].id = r.id}
  <2>1. Written(x) = [b \in Athletes |-> IF b = a THEN r ELSE IF b \in held THEN NoRecord ELSE scores[b]]
    BY <1>5 DEF Written
  <2> QED  BY <1>1, <2>1 DEF Rows, RowOrNone
<1> QED  BY <1>4, <1>5

\* What a landed request writes is rows of records.
LEMMA LandKeeps ==
    ASSUME DeskInv, UNCHANGED pace, NEW x \in rest, Land(x)
    PROVE  DeskInv'
<1>1. x \in Request /\ scores \in Rows /\ rest \subseteq Request
  BY DEF DeskInv, TypeOK, Rows, RowOrNone
<1>2. scores' = Written(x) /\ UNCHANGED <<sel, desk, cache, puts, winner, count>>
  BY DEF Land
<1>3. scores' \in Rows /\ scores'[x.record.athlete] \in Record
  BY <1>1, <1>2, WrittenTypes
<1>4. [x EXCEPT !.stage = "landed", !.record = scores'[x.record.athlete]] \in Request
  BY <1>1, <1>3 DEF Request
<1>5. rest' \subseteq Request
  BY <1>1, <1>4 DEF Land
<1> QED  BY <1>2, <1>3, <1>5 DEF DeskInv, TypeOK, Rows, RowOrNone

\* A refetch puts the server's rows in one desk's cache.
LEMMA RefetchKeeps ==
    ASSUME DeskInv, UNCHANGED pace, NEW d \in Desks, Refetch(d)
    PROVE  DeskInv'
<1>1. desk[d] \in Recorder /\ SoundDesk(desk[d]) /\ scores \in Rows /\ rest \subseteq Request
  BY DEF DeskInv, TypeOK, Rows, RowOrNone
<1>2. /\ desk' \in [Desks -> Recorder] /\ cache' \in [Desks -> Rows]
      /\ puts' \in [Desks -> Seq(Athletes \union {Nobody})]
      /\ \A f \in Desks : SoundDesk(desk'[f])
  BY <1>1, CommitKeeps DEF Refetch
<1>3. \A x \in Request : [x EXCEPT !.stage = "seen"] \in Request
  BY DEF Request
<1>4. rest' \subseteq Request
  BY <1>1, <1>3 DEF Refetch
<1> QED  BY <1>2, <1>4 DEF Refetch, DeskInv, TypeOK, Rows, RowOrNone

\* The recorder a reply is dispatched to, before the dispatch.
LEMMA MovingTypes ==
    ASSUME NEW k \in Recorder, SoundDesk(k), NEW moving \in 0..2
    PROVE  /\ [k EXCEPT !.moving = moving] \in Recorder
           /\ SoundDesk([k EXCEPT !.moving = moving])
           /\ [k EXCEPT !.moving = moving].entry = k.entry
           /\ [k EXCEPT !.moving = moving].record = k.record
BY DEF Recorder, SoundDesk

\* An answer locks the slot that waits for it, or changes nothing but the move's flag.
LEMMA ReplyKeeps ==
    ASSUME DeskInv, UNCHANGED pace, NEW x \in rest, Reply(x)
    PROVE  DeskInv'
<1> DEFINE d == x.by
           s == x.slot
           k == [desk[d] EXCEPT !.moving = IF x.move THEN 0 ELSE @]
           taken == IF x.move THEN k.record[s] # NoRecord ELSE k.entry[s].status = "pending"
           entry == IF x.move THEN Moved(x.record) ELSE Saved(k.entry[s], x.record)
           after == IF taken THEN [k EXCEPT !.entry[s] = entry, !.record[s] = x.record] ELSE k
<1>1. /\ x \in Request /\ d \in Desks /\ s \in Slots /\ x.record \in Record /\ rest \subseteq Request
      /\ x.move \in BOOLEAN
  BY DEF DeskInv, TypeOK, Request
<1>2. desk[d] \in Recorder /\ SoundDesk(desk[d]) /\ cache[d] \in Rows
  BY <1>1 DEF DeskInv, TypeOK, Rows, RowOrNone
<1>3. k \in Recorder /\ SoundDesk(k)
  <2>1. (IF x.move THEN 0 ELSE desk[d].moving) \in 0..2
    BY <1>2 DEF Recorder
  <2>2. k = [desk[d] EXCEPT !.moving = IF x.move THEN 0 ELSE desk[d].moving]
    OBVIOUS
  <2> QED  BY <1>2, <2>1, <2>2, MovingTypes
<1>4. entry \in Entry /\ entry.status = "saved"
  <2>1. CASE x.move
    BY <1>1, <2>1, RestoredTypes
  <2>2. CASE ~x.move
    <3>1. x.record.result \in Result /\ k.entry[s] \in Entry
      BY <1>1, <1>3 DEF Record, Recorder
    <3> QED  BY <2>2, <3>1 DEF Saved, Entry
  <2> QED  BY <2>1, <2>2
<1>5. after \in Recorder /\ SoundDesk(after)
  <2> DEFINE locked == [k EXCEPT !.entry[s] = entry]
  <2>1. locked \in Recorder /\ SoundDesk(locked)
    <3>1. SoundEntry(entry)
      BY <1>4 DEF SoundEntry
    <3> HIDE DEF entry, k
    <3> QED  BY <1>1, <1>3, <1>4, <3>1, EntryTypes
  <2> HIDE DEF entry, k
  <2> DEFINE row == [locked EXCEPT !.record[s] = x.record]
  <2>2. row \in Recorder /\ row.entry = locked.entry
    BY <1>1, <2>1 DEF Recorder
  <2>3. SoundDesk(row)
    BY <2>1, <2>2 DEF SoundDesk
  <2>4. row = [k EXCEPT !.entry[s] = entry, !.record[s] = x.record]
    BY <1>3, <1>4 DEF Recorder
  <2> QED  BY <1>3, <2>2, <2>3, <2>4
<1>6. Commit(d, after, cache[d], taken) /\ rest' = rest \ {x} /\ UNCHANGED <<sel, scores, winner, count>>
  BY DEF Reply
<1>7. taken \in BOOLEAN
  OBVIOUS
<1> HIDE DEF after, taken
<1>8. /\ desk' \in [Desks -> Recorder] /\ cache' \in [Desks -> Rows]
      /\ puts' \in [Desks -> Seq(Athletes \union {Nobody})]
      /\ \A f \in Desks : SoundDesk(desk'[f])
  BY <1>1, <1>2, <1>5, <1>6, <1>7, CommitKeeps
<1> QED  BY <1>1, <1>6, <1>8 DEF DeskInv, TypeOK, Rows, RowOrNone

\* A refusal leaves the panel its result to submit again.
LEMMA RefuseKeeps ==
    ASSUME DeskInv, UNCHANGED pace, NEW x \in rest, Refuse(x)
    PROVE  DeskInv'
<1> DEFINE d == x.by
           s == x.slot
           failed == Failed(desk[d].entry[s])
           after == IF x.move THEN [desk[d] EXCEPT !.moving = 0] ELSE [desk[d] EXCEPT !.entry[s] = failed]
<1>1. x \in Request /\ d \in Desks /\ s \in Slots /\ rest \subseteq Request
  BY DEF DeskInv, TypeOK, Request
<1>2. desk[d] \in Recorder /\ SoundDesk(desk[d]) /\ cache[d] \in Rows /\ count \in Counts
  BY <1>1 DEF DeskInv, TypeOK, Rows, RowOrNone, Counts
<1>3. failed \in Entry /\ SoundEntry(failed)
  <2>1. desk[d].entry[s] \in Entry /\ SoundEntry(desk[d].entry[s])
    BY <1>1, <1>2 DEF Recorder, SoundDesk
  <2> QED  BY <2>1 DEF Failed, Entry, SoundEntry
<1>4. after \in Recorder /\ SoundDesk(after)
  <2>1. [desk[d] EXCEPT !.moving = 0] \in Recorder /\ SoundDesk([desk[d] EXCEPT !.moving = 0])
    <3>1. 0 \in 0..2
      OBVIOUS
    <3> QED  BY <1>2, <3>1, MovingTypes
  <2> HIDE DEF failed
  <2>2. [desk[d] EXCEPT !.entry[s] = failed] \in Recorder /\ SoundDesk([desk[d] EXCEPT !.entry[s] = failed])
    BY <1>1, <1>2, <1>3, EntryTypes
  <2> QED  BY <2>1, <2>2
<1>5. /\ Commit(d, after, cache[d], FALSE) /\ rest' = rest \ {x} /\ UNCHANGED <<sel, scores, winner>>
      /\ Pressed("refused", MaxRefused) \/ UNCHANGED count
  BY <1>1, <1>2 DEF Refuse, Recorder
<1> HIDE DEF after
<1>6. /\ desk' \in [Desks -> Recorder] /\ cache' \in [Desks -> Rows]
      /\ puts' \in [Desks -> Seq(Athletes \union {Nobody})]
      /\ \A f \in Desks : SoundDesk(desk'[f])
  BY <1>1, <1>2, <1>4, <1>5, CommitKeeps
<1>7. count' \in Counts
  BY <1>2, <1>5, PressedTypes
<1> QED  BY <1>1, <1>5, <1>6, <1>7 DEF DeskInv, TypeOK, Rows, RowOrNone, Counts

\* A winner stored is one that was queued.
LEMMA PutKeeps ==
    ASSUME DeskInv, UNCHANGED pace, NEW d \in Desks, PutWinner(d)
    PROVE  DeskInv'
<1>1. puts[d] \in Seq(Athletes \union {Nobody}) /\ puts[d] # <<>>
  BY DEF PutWinner, DeskInv, TypeOK
<1>2. Head(puts[d]) \in Athletes \union {Nobody} /\ Tail(puts[d]) \in Seq(Athletes \union {Nobody})
  BY <1>1
<1>3. puts' \in [Desks -> Seq(Athletes \union {Nobody})] /\ winner' \in Athletes \union {Nobody}
  BY <1>2 DEF PutWinner, DeskInv, TypeOK
<1> QED  BY <1>3 DEF PutWinner, DeskInv, TypeOK

-----------------------------------------------------------------------------
(* The theorems.                                                           *)

\* Desks open typed, with nothing entered.
LEMMA InitTyped == Init => DeskInv
<1> SUFFICES ASSUME Init PROVE DeskInv
  OBVIOUS
<1>1. NoRows \in Rows
  BY DEF NoRows, Rows, RowOrNone
<1>2. puts \in [Desks -> Seq(Athletes \union {Nobody})]
  BY DEF Init
<1>3. desk \in [Desks -> Recorder] /\ \A d \in Desks : SoundDesk(desk[d])
  BY FreshTypes DEF Init
<1> QED  BY <1>1, <1>2, <1>3, FreshTypes, PacesAssumption DEF Init, DeskInv, TypeOK, Rows, RowOrNone

\* Every step keeps the types and the panels' soundness.
LEMMA StepTyped == DeskInv /\ [Next]_vars => DeskInv'
<1> SUFFICES ASSUME DeskInv, [Next]_vars PROVE DeskInv'
  OBVIOUS
<1>0. UNCHANGED pace
  BY DEF Next, vars
<1>1. ASSUME NEW d \in Desks, Swap(d) \/ SelectMatch(d) \/ Adopt(d) PROVE DeskInv'
  BY <1>0, <1>1, BoardKeeps
<1>2. ASSUME NEW d \in Desks, Refetch(d) PROVE DeskInv'
  BY <1>0, <1>2, RefetchKeeps
<1>3. ASSUME NEW d \in Desks, PutWinner(d) PROVE DeskInv'
  BY <1>0, <1>3, PutKeeps
<1>4. ASSUME NEW d \in Desks, NEW s \in Slots, Edit(d, s) PROVE DeskInv'
  BY <1>0, <1>4, EditKeeps
<1>5. ASSUME NEW d \in Desks, NEW s \in Slots, RecordScore(d, s) \/ RecordDnf(d, s) PROVE DeskInv'
  BY <1>0, <1>5, RecordKeeps
<1>6. ASSUME NEW d \in Desks, NEW s \in Slots, MoveScore(d, s) PROVE DeskInv'
  BY <1>0, <1>6, MoveKeeps
<1>7. ASSUME NEW d \in Desks, NEW s \in Slots, SetAthlete(d, s) PROVE DeskInv'
  BY <1>0, <1>7, BoardKeeps
<1>8. ASSUME NEW x \in rest, Land(x) PROVE DeskInv'
  BY <1>0, <1>8, LandKeeps
<1>9. ASSUME NEW x \in rest, Reply(x) PROVE DeskInv'
  BY <1>0, <1>9, ReplyKeeps
<1>10. ASSUME NEW x \in rest, Refuse(x) PROVE DeskInv'
  BY <1>0, <1>10, RefuseKeeps
<1>11. CASE UNCHANGED vars
  BY <1>11 DEF vars, DeskInv, TypeOK
<1> QED  BY <1>1, <1>2, <1>3, <1>4, <1>5, <1>6, <1>7, <1>8, <1>9, <1>10, <1>11 DEF Next

\* Type correctness for any desks, athletes and marks: recorders, rows and requests
\* keep their types, and no request carries a blank panel as a judged zero.
THEOREM DesksTypeCorrect == Spec => []TypeOK
<1>1. DeskInv => TypeOK
  BY DEF DeskInv
<1> QED  BY InitTyped, StepTyped, <1>1, PTL DEF Spec

-----------------------------------------------------------------------------
(* No panel waits in vain.                                                 *)

Asks(x, d, s) == x.by = d /\ x.slot = s /\ ~x.move

\* PendingIsAsked, at any pace.
Asked ==
    \A d \in Desks, s \in Slots :
        desk[d].entry[s].status = "pending" => \E x \in rest : Asks(x, d, s)

\* A commit on desk d strands nobody when what waits there is asked for, and the
\* requests of the others stand.
LEMMA CommitAsked ==
    ASSUME DeskInv, Asked, NEW d \in Desks, NEW k \in Recorder, SoundDesk(k),
           NEW rows \in Rows, NEW resolves \in BOOLEAN, Commit(d, k, rows, resolves),
           \A s \in Slots : k.entry[s].status = "pending" => \E x \in rest' : Asks(x, d, s),
           \A e \in Desks \ {d}, s \in Slots :
               (\E x \in rest : Asks(x, e, s)) => \E x \in rest' : Asks(x, e, s)
    PROVE  Asked'
<1> SUFFICES ASSUME NEW e \in Desks, NEW s \in Slots, desk'[e].entry[s].status = "pending"
             PROVE  \E x \in rest' : Asks(x, e, s)
  BY DEF Asked, Asks
<1>1. CASE e = d
  <2>1. k.entry[s].status = "pending"
    BY <1>1, CommitKeeps
  <2> QED  BY <1>1, <2>1
<1>2. CASE e # d
  <2>1. desk[e].entry[s].status = "pending"
    BY <1>2, CommitKeeps
  <2>2. \E x \in rest : Asks(x, e, s)
    BY <2>1 DEF Asked, Asks
  <2> QED  BY <1>2, <2>2
<1> QED  BY <1>1, <1>2

\* ... in particular when it leaves no panel waiting that did not wait, and every
\* request stands.
LEMMA QuietCommit ==
    ASSUME DeskInv, Asked, NEW d \in Desks, NEW k \in Recorder, SoundDesk(k),
           NEW rows \in Rows, NEW resolves \in BOOLEAN, Commit(d, k, rows, resolves),
           \A s \in Slots : k.entry[s].status = "pending" => desk[d].entry[s].status = "pending",
           \A e \in Desks, s \in Slots :
               (\E x \in rest : Asks(x, e, s)) => \E x \in rest' : Asks(x, e, s)
    PROVE  Asked'
<1>1. \A s \in Slots : k.entry[s].status = "pending" => \E x \in rest : Asks(x, d, s)
  BY DEF Asked, Asks
<1>2. \A s \in Slots : k.entry[s].status = "pending" => \E x \in rest' : Asks(x, d, s)
  BY <1>1
<1> QED  BY <1>2, CommitAsked

\* Typing ends no request and starts no wait.
LEMMA EditAsked ==
    ASSUME DeskInv, Asked, NEW d \in Desks, NEW s \in Slots, Edit(d, s)
    PROVE  Asked'
<1>1. PICK mark \in Marks :
        /\ Commit(d, [desk[d] EXCEPT !.entry[s] = Edited(@, mark)], cache[d], FALSE)
        /\ UNCHANGED rest
  BY DEF Edit
<1> DEFINE e == Edited(desk[d].entry[s], mark)
           k == [desk[d] EXCEPT !.entry[s] = e]
<1>2. e \in Entry /\ SoundEntry(e) /\ e.status = "editing"
  BY MarksAssumption DEF Edited, EmptyEntry, Entry, Result, SoundEntry
<1>3. desk[d] \in Recorder /\ SoundDesk(desk[d]) /\ cache[d] \in Rows
  BY DEF DeskInv, TypeOK, Rows, RowOrNone
<1>4. k \in Recorder /\ SoundDesk(k) /\ k.entry = [desk[d].entry EXCEPT ![s] = e]
  BY <1>2, <1>3, EntryTypes
<1>5. Commit(d, k, cache[d], FALSE)
  BY <1>1, <1>3 DEF Recorder
<1>6. \A t \in Slots : k.entry[t].status = "pending" => desk[d].entry[t].status = "pending"
  BY <1>2, <1>3, <1>4 DEF Recorder
<1> HIDE DEF k
<1> QED  BY <1>1, <1>3, <1>4, <1>5, <1>6, QuietCommit

\* A save waits for the request it makes.
LEMMA SaveAsked ==
    ASSUME DeskInv, Asked, NEW d \in Desks, NEW s \in Slots, NEW result \in Result,
           result = Dnf \/ (result # 0 /\ desk[d].entry[s].draft # 0), Save(d, s, result)
    PROVE  Asked'
<1> DEFINE e == Submitted(desk[d].entry[s], result)
           k == [desk[d] EXCEPT !.entry[s] = e]
           x == [by |-> d, slot |-> s, nr |-> count.saves + 1, move |-> FALSE, stage |-> "sent",
                 record |-> [id |-> count.saves + 1, athlete |-> desk[d].athletes[s],
                             result |-> result]]
<1>1. desk[d] \in Recorder /\ SoundDesk(desk[d]) /\ cache[d] \in Rows /\ desk[d].entry[s] \in Entry
  BY DEF DeskInv, TypeOK, Rows, RowOrNone, Recorder
<1>2. e \in Entry /\ SoundEntry(e)
  BY <1>1 DEF Submitted, Entry, SoundEntry
<1>3. k \in Recorder /\ SoundDesk(k) /\ k.entry = [desk[d].entry EXCEPT ![s] = e]
  BY <1>1, <1>2, EntryTypes
<1>4. Commit(d, k, cache[d], FALSE) /\ rest' = rest \union {x}
  BY <1>1 DEF Save, Recorder
<1>5. x \in rest' /\ Asks(x, d, s)
  BY <1>4 DEF Asks
<1>6. \A t \in Slots \ {s} : k.entry[t] = desk[d].entry[t]
  BY <1>1, <1>3 DEF Recorder
<1> HIDE DEF k, x
<1>9. \A t \in Slots \ {s} : k.entry[t].status = "pending" => \E y \in rest : Asks(y, d, t)
  BY <1>6 DEF Asked, Asks
<1>7. \A t \in Slots : k.entry[t].status = "pending" => \E y \in rest' : Asks(y, d, t)
  BY <1>4, <1>5, <1>9
<1>8. \A f \in Desks, t \in Slots : (\E y \in rest : Asks(y, f, t)) => \E y \in rest' : Asks(y, f, t)
  BY <1>4
<1> QED  BY <1>1, <1>3, <1>4, <1>7, <1>8, CommitAsked

\* Both ways to record make the request they wait for.
LEMMA RecordAsked ==
    ASSUME DeskInv, Asked, NEW d \in Desks, NEW s \in Slots,
           RecordScore(d, s) \/ RecordDnf(d, s)
    PROVE  Asked'
<1>1. desk[d].entry[s] \in Entry /\ SoundEntry(desk[d].entry[s])
  BY DEF DeskInv, TypeOK, Recorder, SoundDesk
<1>2. CASE RecordScore(d, s)
  <2>1. desk[d].entry[s].draft # 0
    BY <1>1, <1>2 DEF RecordScore, RetriesDnf, HasDraft, SoundEntry
  <2>2. desk[d].entry[s].draft \in Result /\ Save(d, s, desk[d].entry[s].draft)
    BY <1>1, <1>2 DEF RecordScore, Entry, Result
  <2> QED  BY <2>1, <2>2, SaveAsked
<1>3. CASE RecordDnf(d, s)
  BY <1>3, SaveAsked DEF RecordDnf, Result
<1> QED  BY <1>2, <1>3

\* A move leaves the entries alone.
LEMMA MoveAsked ==
    ASSUME DeskInv, Asked, NEW d \in Desks, NEW s \in Slots, MoveScore(d, s)
    PROVE  Asked'
<1> DEFINE k == [desk[d] EXCEPT !.moving = s]
<1>1. desk[d] \in Recorder /\ SoundDesk(desk[d]) /\ cache[d] \in Rows
  BY DEF DeskInv, TypeOK, Rows, RowOrNone
<1>2. k \in Recorder /\ SoundDesk(k) /\ k.entry = desk[d].entry
  <2>1. s \in 0..2
    BY DEF Slots
  <2> QED  BY <1>1, <2>1, MovingTypes
<1>3. Commit(d, k, cache[d], FALSE) /\ rest \subseteq rest'
  BY DEF MoveScore
<1> HIDE DEF k
<1> QED  BY <1>1, <1>2, <1>3, QuietCommit

\* The sides change when nobody waits on this desk.
LEMMA SwapAsked ==
    ASSUME pace # "hasty", DeskInv, Asked, NEW d \in Desks, Swap(d)
    PROVE  Asked'
<1>1. desk[d] \in Recorder /\ SoundDesk(desk[d]) /\ cache[d] \in Rows
  BY DEF DeskInv, TypeOK, Rows, RowOrNone
<1>2. Swapped(desk[d]) \in Recorder /\ SoundDesk(Swapped(desk[d]))
  BY <1>1, BoardTypes
<1>3. \A s \in Slots : desk[d].entry[s].status # "pending"
  BY DEF Swap, Asked, Asks
<1>4. \A s \in Slots : Swapped(desk[d]).entry[s] = desk[d].entry[OtherSlot(s)]
  BY <1>1 DEF Swapped, Recorder, Exchanged
<1>5. \A s \in Slots : Swapped(desk[d]).entry[s].status # "pending"
  BY <1>3, <1>4, OtherSlots
<1>6. Commit(d, Swapped(desk[d]), cache[d], FALSE) /\ UNCHANGED rest
  BY DEF Swap
<1> QED  BY <1>1, <1>2, <1>5, <1>6, QuietCommit

\* A panel cleared waits for nothing.
LEMMA ClearedAsked ==
    ASSUME NEW k \in Recorder
    PROVE  /\ \A s, t \in Slots, a \in Athletes :
                 Placed(k, s, a).entry[t].status = "pending" => k.entry[t].status = "pending"
           /\ \A match \in Nat, t \in Slots : Cleared(k, match).entry[t].status # "pending"
<1>1. ASSUME NEW s \in Slots, NEW a \in Athletes
      PROVE  Placed(k, s, a).entry = [k.entry EXCEPT ![s] = EmptyEntry]
  BY DEF Placed, Recorder
<1>2. EmptyEntry.status # "pending"
  BY DEF EmptyEntry
<1>3. \A s, t \in Slots : [k.entry EXCEPT ![s] = EmptyEntry][t] = IF t = s THEN EmptyEntry ELSE k.entry[t]
  BY DEF Recorder
<1>4. \A match \in Nat : Cleared(k, match).entry = [s \in Slots |-> EmptyEntry]
  BY DEF Cleared, FreshDesk
<1>5. ASSUME NEW s \in Slots, NEW t \in Slots, NEW a \in Athletes,
             Placed(k, s, a).entry[t].status = "pending"
      PROVE  k.entry[t].status = "pending"
  <2> DEFINE placed == [k.entry EXCEPT ![s] = EmptyEntry]
  <2>1. Placed(k, s, a).entry = placed
    BY <1>1
  <2>2. placed[t] = IF t = s THEN EmptyEntry ELSE k.entry[t]
    BY <1>3
  <2> HIDE DEF placed
  <2> QED  BY <1>2, <1>5, <2>1, <2>2
<1>6. ASSUME NEW match \in Nat, NEW t \in Slots
      PROVE  Cleared(k, match).entry[t].status # "pending"
  BY <1>2, <1>4
<1> QED  BY <1>5, <1>6

\* A board change clears panels; those it leaves keep their requests.
LEMMA BoardAsked ==
    ASSUME DeskInv, Asked, NEW d \in Desks,
           (\E s \in Slots : SetAthlete(d, s)) \/ SelectMatch(d) \/ Adopt(d)
    PROVE  Asked'
<1>1. /\ desk[d] \in Recorder /\ SoundDesk(desk[d]) /\ cache[d] \in Rows
      /\ sel.match \in Nat /\ sel.athletes[1] \in Athletes /\ sel.athletes[2] \in Athletes
  BY DEF DeskInv, TypeOK, Rows, RowOrNone, Slots
<1>2. ASSUME NEW s \in Slots, SetAthlete(d, s) PROVE Asked'
  <2>1. PICK a \in Athletes : Commit(d, Placed(desk[d], s, a), cache[d], FALSE) /\ UNCHANGED rest
    BY <1>2 DEF SetAthlete
  <2>2. Placed(desk[d], s, a) \in Recorder /\ SoundDesk(Placed(desk[d], s, a))
    BY <1>1, BoardTypes
  <2>3. \A t \in Slots : Placed(desk[d], s, a).entry[t].status = "pending"
                           => desk[d].entry[t].status = "pending"
    BY <1>1, ClearedAsked
  <2> QED  BY <1>1, <2>1, <2>2, <2>3, QuietCommit
<1>3. CASE SelectMatch(d)
  <2>1. sel.match + 1 \in Nat
    BY <1>1
  <2>2. /\ Cleared(desk[d], sel.match + 1) \in Recorder /\ SoundDesk(Cleared(desk[d], sel.match + 1))
        /\ \A t \in Slots : Cleared(desk[d], sel.match + 1).entry[t].status # "pending"
    BY <1>1, <2>1, BoardTypes, ClearedAsked
  <2> QED  BY <1>1, <1>3, <2>2, QuietCommit DEF SelectMatch
<1>4. CASE Adopt(d)
  <2> DEFINE k == IF desk[d].match = sel.match THEN desk[d] ELSE Cleared(desk[d], sel.match)
             one == IF k.athletes[1] # sel.athletes[1] THEN Placed(k, 1, sel.athletes[1]) ELSE k
             two == IF k.athletes[2] # sel.athletes[2] THEN Placed(one, 2, sel.athletes[2]) ELSE one
  <2>1. /\ k \in Recorder /\ SoundDesk(k)
        /\ \A t \in Slots : k.entry[t].status = "pending" => desk[d].entry[t].status = "pending"
    BY <1>1, BoardTypes, ClearedAsked
  <2>2. /\ one \in Recorder /\ SoundDesk(one)
        /\ \A t \in Slots : one.entry[t].status = "pending" => k.entry[t].status = "pending"
    <3> HIDE DEF k
    <3> QED  BY <1>1, <2>1, BoardTypes, ClearedAsked DEF Slots
  <2>3. /\ two \in Recorder /\ SoundDesk(two)
        /\ \A t \in Slots : two.entry[t].status = "pending" => one.entry[t].status = "pending"
    <3> HIDE DEF one
    <3> QED  BY <1>1, <2>2, BoardTypes, ClearedAsked DEF Slots
  <2>4. Commit(d, two, cache[d], FALSE) /\ UNCHANGED rest
    BY <1>4 DEF Adopt
  <2> HIDE DEF two, one, k
  <2> QED  BY <1>1, <2>1, <2>2, <2>3, <2>4, QuietCommit
<1> QED  BY <1>2, <1>3, <1>4

\* A request that lands is still under way for its panel.
LEMMA LandAsked ==
    ASSUME DeskInv, Asked, NEW x \in rest, Land(x)
    PROVE  Asked'
<1> DEFINE y == [x EXCEPT !.stage = "landed", !.record = scores'[x.record.athlete]]
<1>1. x \in Request
  BY DEF DeskInv, TypeOK
<1>2. y.by = x.by /\ y.slot = x.slot /\ y.move = x.move
  BY <1>1 DEF Request
<1> HIDE DEF y
<1>3. rest' = (rest \ {x}) \union {y} /\ UNCHANGED desk
  BY DEF Land, y
<1>4. \A d \in Desks, s \in Slots : (\E z \in rest : Asks(z, d, s)) => \E z \in rest' : Asks(z, d, s)
  BY <1>2, <1>3 DEF Asks
<1> QED  BY <1>3, <1>4 DEF Asked, Asks

\* A refetch marks requests seen and ends none.
LEMMA RefetchAsked ==
    ASSUME DeskInv, Asked, NEW d \in Desks, Refetch(d)
    PROVE  Asked'
<1> DEFINE Marked(x) == IF x.by = d /\ x.stage = "landed" THEN [x EXCEPT !.stage = "seen"] ELSE x
<1>1. desk[d] \in Recorder /\ SoundDesk(desk[d]) /\ scores \in Rows /\ rest \subseteq Request
  BY DEF DeskInv, TypeOK, Rows, RowOrNone
<1>2. \A x \in rest : Marked(x).by = x.by /\ Marked(x).slot = x.slot /\ Marked(x).move = x.move
  BY <1>1 DEF Request
<1>3. rest' = {Marked(x) : x \in rest} /\ Commit(d, desk[d], scores, FALSE)
  BY DEF Refetch
<1> HIDE DEF Marked
<1>4. \A e \in Desks, s \in Slots : (\E z \in rest : Asks(z, e, s)) => \E z \in rest' : Asks(z, e, s)
  BY <1>2, <1>3 DEF Asks
<1> QED  BY <1>1, <1>3, <1>4, QuietCommit

\* An answer, or a refusal, goes to the slot that asked: the panel it leaves has
\* nothing to wait for, and the requests of the others stand.
LEMMA AnsweredAsked ==
    ASSUME DeskInv, Asked, NEW x \in rest, NEW k \in Recorder, SoundDesk(k),
           NEW resolves \in BOOLEAN, Commit(x.by, k, cache[x.by], resolves),
           rest' = rest \ {x},
           ~x.move => k.entry[x.slot].status # "pending",
           \A t \in Slots : k.entry[t].status = "pending" => desk[x.by].entry[t].status = "pending"
    PROVE  Asked'
<1>1. x.by \in Desks /\ x.slot \in Slots /\ x.move \in BOOLEAN /\ cache[x.by] \in Rows
  BY DEF DeskInv, TypeOK, Request, Rows, RowOrNone
<1>2. ASSUME NEW t \in Slots, k.entry[t].status = "pending"
      PROVE  \E y \in rest' : Asks(y, x.by, t)
  <2>1. PICK y \in rest : Asks(y, x.by, t)
    BY <1>1, <1>2 DEF Asked, Asks
  <2>2. y # x
    BY <1>2, <2>1 DEF Asks
  <2> QED  BY <2>1, <2>2
<1>3. ASSUME NEW e \in Desks \ {x.by}, NEW s \in Slots, \E y \in rest : Asks(y, e, s)
      PROVE  \E y \in rest' : Asks(y, e, s)
  BY <1>3 DEF Asks
<1> QED  BY <1>1, <1>2, <1>3, CommitAsked

\* The panel that is answered waits no more.
LEMMA ReplyAsked ==
    ASSUME DeskInv, Asked, NEW x \in rest, Reply(x)
    PROVE  Asked'
<1> DEFINE d == x.by
           s == x.slot
           k == [desk[d] EXCEPT !.moving = IF x.move THEN 0 ELSE @]
           taken == IF x.move THEN k.record[s] # NoRecord ELSE k.entry[s].status = "pending"
           entry == IF x.move THEN Moved(x.record) ELSE Saved(k.entry[s], x.record)
           after == IF taken THEN [k EXCEPT !.entry[s] = entry, !.record[s] = x.record] ELSE k
<1>1. /\ x \in Request /\ d \in Desks /\ s \in Slots /\ x.record \in Record /\ x.move \in BOOLEAN
      /\ desk[d] \in Recorder /\ SoundDesk(desk[d])
  BY DEF DeskInv, TypeOK, Request
<1>2. k \in Recorder /\ SoundDesk(k) /\ k.entry = desk[d].entry
  <2>1. (IF x.move THEN 0 ELSE desk[d].moving) \in 0..2
    BY <1>1 DEF Recorder
  <2>2. k = [desk[d] EXCEPT !.moving = IF x.move THEN 0 ELSE desk[d].moving]
    OBVIOUS
  <2> QED  BY <1>1, <2>1, <2>2, MovingTypes
<1>3. entry \in Entry /\ entry.status = "saved"
  <2>1. CASE x.move
    BY <1>1, <2>1, RestoredTypes
  <2>2. CASE ~x.move
    <3>1. x.record.result \in Result /\ k.entry[s] \in Entry
      BY <1>1, <1>2 DEF Record, Recorder
    <3> QED  BY <2>2, <3>1 DEF Saved, Entry
  <2> QED  BY <2>1, <2>2
<1>4. CASE taken
  <2> DEFINE locked == [k EXCEPT !.entry[s] = entry]
             row == [locked EXCEPT !.record[s] = x.record]
  <2>1. /\ locked \in Recorder /\ SoundDesk(locked)
        /\ locked.entry = [k.entry EXCEPT ![s] = entry]
    <3>1. SoundEntry(entry)
      BY <1>3 DEF SoundEntry
    <3> HIDE DEF entry, k
    <3> QED  BY <1>1, <1>2, <1>3, <3>1, EntryTypes
  <2>2. \A t \in Slots : [k.entry EXCEPT ![s] = entry][t] = IF t = s THEN entry ELSE k.entry[t]
    BY <1>2 DEF Recorder
  <2>3. row = after
    BY <1>2, <1>4 DEF Recorder
  <2> HIDE DEF entry, k, taken, after
  <2>4. row \in Recorder /\ row.entry = locked.entry
    BY <1>1, <2>1 DEF Recorder
  <2>5. SoundDesk(row)
    BY <2>1, <2>4 DEF SoundDesk
  <2>6. Commit(d, after, cache[d], taken) /\ rest' = rest \ {x} /\ taken \in BOOLEAN
    BY DEF Reply, after, taken, entry, k
  <2>7. /\ row.entry[s].status # "pending"
        /\ \A t \in Slots : row.entry[t].status = "pending" => desk[d].entry[t].status = "pending"
    BY <1>1, <1>2, <1>3, <2>1, <2>2, <2>4
  <2> HIDE DEF row
  <2> QED  BY <2>3, <2>4, <2>5, <2>6, <2>7, AnsweredAsked
<1>5. CASE ~taken
  <2>1. after = k
    BY <1>5
  <2>2. ~x.move => k.entry[s].status # "pending"
    BY <1>5
  <2>3. Commit(d, k, cache[d], FALSE) /\ rest' = rest \ {x}
    BY <1>5, <2>1 DEF Reply
  <2>4. \A t \in Slots : k.entry[t].status = "pending" => desk[d].entry[t].status = "pending"
    BY <1>2
  <2> HIDE DEF k, taken, after
  <2> QED  BY <1>2, <2>2, <2>3, <2>4, AnsweredAsked
<1> QED  BY <1>4, <1>5

\* The panel that is refused waits no more.
LEMMA RefuseAsked ==
    ASSUME DeskInv, Asked, NEW x \in rest, Refuse(x)
    PROVE  Asked'
<1> DEFINE d == x.by
           s == x.slot
           failed == Failed(desk[d].entry[s])
<1>1. /\ x \in Request /\ d \in Desks /\ s \in Slots /\ rest' = rest \ {x}
      /\ desk[d] \in Recorder /\ SoundDesk(desk[d]) /\ desk[d].entry[s] \in Entry
      /\ SoundEntry(desk[d].entry[s])
  BY DEF Refuse, DeskInv, TypeOK, Request, Recorder, SoundDesk
<1>2. CASE x.move
  <2> DEFINE k == [desk[d] EXCEPT !.moving = 0]
  <2>1. 0 \in 0..2
    OBVIOUS
  <2>2. k \in Recorder /\ SoundDesk(k) /\ k.entry = desk[d].entry
    BY <1>1, <2>1, MovingTypes
  <2>3. Commit(d, k, cache[d], FALSE)
    BY <1>2 DEF Refuse
  <2> HIDE DEF k
  <2> QED  BY <1>1, <1>2, <2>2, <2>3, AnsweredAsked
<1>3. CASE ~x.move
  <2> DEFINE k == [desk[d] EXCEPT !.entry[s] = failed]
  <2>1. failed \in Entry /\ SoundEntry(failed) /\ failed.status # "pending"
    BY <1>1 DEF Failed, Entry, SoundEntry
  <2>2. Commit(d, k, cache[d], FALSE)
    BY <1>1, <1>3 DEF Refuse, Recorder
  <2>3. \A t \in Slots : [desk[d].entry EXCEPT ![s] = failed][t] = IF t = s THEN failed ELSE desk[d].entry[t]
    BY <1>1 DEF Recorder
  <2> HIDE DEF failed
  <2>4. k \in Recorder /\ SoundDesk(k) /\ k.entry = [desk[d].entry EXCEPT ![s] = failed]
    BY <1>1, <2>1, EntryTypes
  <2> HIDE DEF k
  <2>5. /\ k.entry[s].status # "pending"
        /\ \A t \in Slots : k.entry[t].status = "pending" => desk[d].entry[t].status = "pending"
    BY <1>1, <2>1, <2>3, <2>4
  <2> QED  BY <1>1, <2>2, <2>4, <2>5, AnsweredAsked
<1> QED  BY <1>2, <1>3

\* A step keeps every waiting panel a request of its own.
LEMMA StepAsked == pace # "hasty" /\ DeskInv /\ Asked /\ [Next]_vars => Asked'
<1> SUFFICES ASSUME pace # "hasty", DeskInv, Asked, [Next]_vars PROVE Asked'
  OBVIOUS
<1>1. ASSUME NEW d \in Desks, Swap(d) PROVE Asked'
  BY <1>1, SwapAsked
<1>2. ASSUME NEW d \in Desks, SelectMatch(d) \/ Adopt(d) PROVE Asked'
  BY <1>2, BoardAsked
<1>3. ASSUME NEW d \in Desks, Refetch(d) PROVE Asked'
  BY <1>3, RefetchAsked
<1>4. ASSUME NEW d \in Desks, PutWinner(d) PROVE Asked'
  BY <1>4 DEF PutWinner, Asked
<1>5. ASSUME NEW d \in Desks, NEW s \in Slots, Edit(d, s) PROVE Asked'
  BY <1>5, EditAsked
<1>6. ASSUME NEW d \in Desks, NEW s \in Slots, RecordScore(d, s) \/ RecordDnf(d, s)
      PROVE  Asked'
  BY <1>6, RecordAsked
<1>7. ASSUME NEW d \in Desks, NEW s \in Slots, MoveScore(d, s) PROVE Asked'
  BY <1>7, MoveAsked
<1>8. ASSUME NEW d \in Desks, NEW s \in Slots, SetAthlete(d, s) PROVE Asked'
  BY <1>8, BoardAsked
<1>9. ASSUME NEW x \in rest, Land(x) PROVE Asked'
  BY <1>9, LandAsked
<1>10. ASSUME NEW x \in rest, Reply(x) PROVE Asked'
  BY <1>10, ReplyAsked
<1>11. ASSUME NEW x \in rest, Refuse(x) PROVE Asked'
  BY <1>11, RefuseAsked
<1>12. CASE UNCHANGED vars
  BY <1>12 DEF vars, Asked
<1> QED  BY <1>1, <1>2, <1>3, <1>4, <1>5, <1>6, <1>7, <1>8, <1>9, <1>10, <1>11, <1>12 DEF Next

\* Operators may press on while anything is in flight, pick other athletes and matches
\* and take in what other desks put on the board; as long as a desk's own saves are
\* answered before its sides change, no panel of any desk is stranded on "SAVING...":
\* whatever is refused, lost, moved, restored or cleared meanwhile, a submitted panel has
\* a request of its own under way.
THEOREM NobodyWaitsInVain == Spec => []PendingIsAsked
<1> DEFINE Inv == DeskInv /\ (pace # "hasty" => Asked)
<1>1. Init => Inv
  <2>1. \A s \in Slots : FreshDesk.entry[s].status # "pending"
    BY DEF FreshDesk, EmptyEntry
  <2>2. [FreshDesk EXCEPT !.seeded = FirstPair].entry = FreshDesk.entry
    BY DEF FreshDesk
  <2>3. Init => Asked
    BY <2>1, <2>2 DEF Init, Asked
  <2> QED  BY <2>3, InitTyped
<1>2. Inv /\ [Next]_vars => Inv'
  <2>1. [Next]_vars => UNCHANGED pace
    BY DEF Next, vars
  <2> QED  BY <2>1, StepTyped, StepAsked
<1>3. Inv => PendingIsAsked
  BY DEF PendingIsAsked, Asked, Asks
<1> QED  BY <1>1, <1>2, <1>3, PTL DEF Spec

-----------------------------------------------------------------------------
(* Locked panels are the server's rows, and the winner is theirs.  The     *)
(* operators are unhurried; what they press, and how many desks there are, *)
(* does not matter.                                                        *)

\* Every row is filed under its athlete and has an identifier of its own.
Keyed ==
    /\ \A a \in Athletes : scores[a] # NoRecord => scores[a].athlete = a /\ scores[a].id \in 1..count.saves
    /\ \A a, b \in Athletes : scores[a] # NoRecord /\ scores[a].id = scores[b].id => a = b

\* The seeding effect has nothing left to do.
Rests(k, rows) ==
    /\ k.seeded = k.athletes
    /\ \A s \in Slots : AwaitsRestore(k.entry[s]) => rows[k.athletes[s]] = NoRecord

\* A locked panel holds its athlete's row.
Holds(k, table) ==
    \A s \in Slots : k.entry[s].status = "saved" =>
        /\ k.record[s] # NoRecord /\ table[k.athletes[s]] = k.record[s]
        /\ k.record[s].result = k.entry[s].result

\* Old rows of these athletes lack some of the new ones, and say nothing else.
Lags(rows, table, athletes) == \A s \in Slots : rows[athletes[s]] \in {NoRecord, table[athletes[s]]}

\* Nobody changes the board while something is asked, nor asks while it changes.
PanelsFit ==
    /\ \A d \in Desks : /\ desk[d].athletes[1] # desk[d].athletes[2]
                        /\ Rests(desk[d], cache[d]) /\ Holds(desk[d], scores)
    /\ sel.athletes[1] # sel.athletes[2]
    /\ \A d \in Desks : Lags(cache[d], scores, sel.athletes)
    /\ (\E d \in Desks : ~Shows(d)) => rest = {} /\ \A d \in Desks : cache[d] = scores

OnBoard(a) == \E s \in Slots : sel.athletes[s] = a

\* A POST on its way brings a new row, or a row's result once more.
PostFits(x) ==
    /\ x.record.id = x.nr /\ x.nr \in 1..count.saves
    /\ \A a \in Athletes : scores[a].id # x.nr
    /\ \A y \in rest : ~y.move /\ y.stage = "sent" /\ y.nr = x.nr => y = x
    /\ scores[x.record.athlete] # NoRecord => scores[x.record.athlete].result = x.record.result

\* A move on its way has its row where it was, off the board.
MoveFits(x) ==
    /\ x.record.id = x.nr
    /\ \E a \in Athletes : ~OnBoard(a) /\ scores[a] = [x.record EXCEPT !.athlete = a]
    /\ \A y \in rest : y.move /\ y.stage = "sent" /\ y.nr = x.nr => y = x

\* One request a slot, for the athlete on it; an answer on its way says what is there.
RequestsFit ==
    /\ \A x \in rest : x.record.athlete = sel.athletes[x.slot]
    /\ \A x, y \in rest : x.slot = y.slot => x = y
    /\ \A x \in rest : x.stage = "sent" => IF x.move THEN MoveFits(x) ELSE PostFits(x)
    /\ \A x \in rest : x.stage # "sent" => x.record = scores[x.record.athlete]

\* What the rows of two athletes resolve to.
Verdict(athletes, table) == Winner(athletes, [s \in Slots |-> table[athletes[s]].result])

Both(athletes, table) == \A s \in Slots : table[athletes[s]] # NoRecord

\* Both panels are locked, one of them by a save of this desk.
Live(k) == (\A s \in Slots : k.entry[s].status = "saved") /\ \E s \in Slots : k.entry[s].live

Contending(athletes) == {athletes[1], athletes[2]} = {FirstPair[1], FirstPair[2]}

\* Every winner on the wire is the board's; the desk that saved wrote it.
WinnerFits ==
    /\ \A d \in Desks : \A i \in DOMAIN puts[d] :
         Both(sel.athletes, scores) /\ puts[d][i] = Verdict(sel.athletes, scores)
    /\ Contending(sel.athletes) => \A d \in Desks : Shows(d) /\ Live(desk[d]) =>
         winner = Verdict(sel.athletes, scores) \/ \E e \in Desks : puts[e] # <<>>

RowsInv == DeskInv /\ Keyed /\ PanelsFit /\ RequestsFit /\ WinnerFits

-----------------------------------------------------------------------------
(* What a commit leaves.                                                   *)

\* Two rows of two athletes have a winner or a tie.
LEMMA VerdictIs ==
    ASSUME NEW athletes \in [Slots -> Athletes], NEW table
    PROVE  /\ Verdict(athletes, table) # Keep
           /\ Verdict(athletes, table) \in {Nobody, athletes[1], athletes[2]}
<1>1. athletes[1] \in Nat \ {0} /\ athletes[2] \in Nat \ {0}
  BY AthletesAssumption DEF Slots
<1>2. -1 \notin Nat
  OBVIOUS
<1> QED  BY <1>1, <1>2 DEF Verdict, Winner, Keep, Nobody

LEMMA VerdictSwaps ==
    ASSUME NEW athletes \in [Slots -> Athletes], NEW table \in Rows, Both(athletes, table)
    PROVE  Verdict(Exchanged(athletes), table) = Verdict(athletes, table)
<1> DEFINE other == Exchanged(athletes)
           results == [s \in Slots |-> table[athletes[s]].result]
           others == [s \in Slots |-> table[other[s]].result]
<1>1. athletes[1] \in Athletes /\ athletes[2] \in Athletes /\ athletes[1] # Nobody /\ athletes[2] # Nobody
  BY AthletesAssumption DEF Slots, Nobody
<1>2. other[1] = athletes[2] /\ other[2] = athletes[1]
  BY DEF Exchanged, OtherSlot, Slots
<1>3. others[1] = results[2] /\ others[2] = results[1]
  BY <1>2 DEF Slots
<1>4. results[1] \in Int /\ results[2] \in Int
  <2>1. table[athletes[1]] \in Record /\ table[athletes[2]] \in Record
    BY <1>1 DEF Both, Rows, RowOrNone, Slots
  <2>2. \A r \in Record : r.result \in Int
    <3>1. -1 \in Int
      OBVIOUS
    <3>2. \A m \in Result : m \in Int
      BY <3>1, MarksAssumption DEF Result, Dnf
    <3>3. \A r \in Record : r.result \in Result
      BY DEF Record
    <3> QED  BY <3>2, <3>3
  <2>3. results[1] = table[athletes[1]].result /\ results[2] = table[athletes[2]].result
    BY DEF Slots
  <2> QED  BY <2>1, <2>2, <2>3
<1> HIDE DEF other, results, others
<1>5. Winner(other, others) = Winner(athletes, results)
  BY <1>1, <1>2, <1>3, <1>4 DEF Winner
<1> QED  BY <1>5 DEF Verdict, other, others, results

\* The seeding effect, slot by slot.
LEMMA SeededGives ==
    ASSUME NEW k \in Recorder, NEW rows \in Rows, NEW table \in Rows, Holds(k, table),
           Lags(rows, table, k.athletes)
    PROVE  /\ Seeded(k, rows).match = k.match /\ Seeded(k, rows).athletes = k.athletes
           /\ Rests(Seeded(k, rows), rows) /\ Holds(Seeded(k, rows), table)
           /\ Live(Seeded(k, rows)) => RestoreResolves(k, rows) \/ Live(k)
<1> DEFINE in == Restorable(k, rows)
           entries == [s \in Slots |-> IF s \in in THEN Restored(rows[k.athletes[s]]) ELSE k.entry[s]]
           records == [s \in Slots |-> IF s \in in THEN rows[k.athletes[s]] ELSE k.record[s]]
           seeded == Seeded(k, rows)
<1>1. /\ seeded.match = k.match /\ seeded.athletes = k.athletes /\ seeded.seeded = k.athletes
      /\ seeded.entry = entries /\ seeded.record = records
  BY DEF Seeded, Recorder
<1>2. \A s \in Slots : k.athletes[s] \in Athletes /\ k.athletes[s] # Nobody
  BY AthletesAssumption DEF Recorder, Nobody
<1>3. \A s \in in : /\ s \in Slots /\ rows[k.athletes[s]] # NoRecord
                    /\ rows[k.athletes[s]] = table[k.athletes[s]]
  BY DEF Restorable, Lags
<1>4. \A s \in Slots \ in : AwaitsRestore(k.entry[s]) => rows[k.athletes[s]] = NoRecord
  BY <1>2 DEF Restorable
<1>5. \A r : /\ Restored(r).status = "saved" /\ Restored(r).result = r.result /\ ~Restored(r).live
             /\ ~AwaitsRestore(Restored(r))
  BY DEF Restored, AwaitsRestore
<1>6. \A s \in Slots : /\ s \in in => entries[s] = Restored(rows[k.athletes[s]]) /\ records[s] = rows[k.athletes[s]]
                       /\ s \notin in => entries[s] = k.entry[s] /\ records[s] = k.record[s]
  OBVIOUS
<1> HIDE DEF in, entries, records, seeded
<1>7. Rests(seeded, rows)
  BY <1>1, <1>4, <1>5, <1>6 DEF Rests
<1>8. Holds(seeded, table)
  BY <1>1, <1>3, <1>5, <1>6 DEF Holds
<1>9. ASSUME Live(seeded)  PROVE RestoreResolves(k, rows) \/ Live(k)
  <2>1. CASE in = {}
    BY <1>1, <1>6, <1>9, <2>1 DEF Live
  <2>2. CASE in # {}
    <3>1. PICK s \in in : TRUE
      BY <2>2
    <3>2. PICK t \in Slots : entries[t].live
      BY <1>1, <1>9 DEF Live
    <3>3. t = OtherSlot(s)
      BY <1>3, <1>5, <1>6, <3>1, <3>2 DEF Slots, OtherSlot
    <3>4. entries[t].status = "saved"
      BY <1>1, <1>9, <3>2 DEF Live
    <3> QED  BY <1>1, <3>1, <3>2, <3>3, <3>4 DEF RestoreResolves, in, seeded
  <2> QED  BY <2>1, <2>2
<1> QED  BY <1>1, <1>7, <1>8, <1>9 DEF seeded

\* A commit leaves its desk at rest on the rows it holds; it queues their verdict, and
\* leaves no fresh pair of locked panels without one.
LEMMA CommitGives ==
    ASSUME DeskInv, NEW d \in Desks, NEW k \in Recorder, NEW rows \in Rows, NEW resolves \in BOOLEAN,
           NEW table \in Rows, Commit(d, k, rows, resolves), Holds(k, table),
           Lags(rows, table, k.athletes)
    PROVE  /\ desk'[d].match = k.match /\ desk'[d].athletes = k.athletes
           /\ Rests(desk'[d], rows) /\ Holds(desk'[d], table)
           /\ cache'[d] = rows
           /\ \A e \in Desks \ {d} : desk'[e] = desk[e] /\ cache'[e] = cache[e] /\ puts'[e] = puts[e]
           /\ \/ puts'[d] = puts[d]
              \/ puts'[d] = Append(puts[d], Verdict(k.athletes, table)) /\ Both(k.athletes, table)
           /\ Live(desk'[d]) => \/ puts'[d] = Append(puts[d], Verdict(k.athletes, table))
                                \/ ~resolves /\ Live(k)
<1> DEFINE seeded == Seeded(k, rows)
           put == Resolve(seeded.athletes, seeded.entry)
           verdict == Verdict(k.athletes, table)
<1>1. /\ seeded.match = k.match /\ seeded.athletes = k.athletes
      /\ Rests(seeded, rows) /\ Holds(seeded, table)
      /\ Live(seeded) => RestoreResolves(k, rows) \/ Live(k)
  BY SeededGives
<1>2. /\ desk' = [desk EXCEPT ![d] = seeded] /\ cache' = [cache EXCEPT ![d] = rows]
      /\ puts' = IF (resolves \/ RestoreResolves(k, rows)) /\ put # Keep
                 THEN [puts EXCEPT ![d] = Append(@, put)] ELSE puts
  BY DEF Commit
<1>3. /\ desk \in [Desks -> Recorder] /\ cache \in [Desks -> Rows]
      /\ puts \in [Desks -> Seq(Athletes \union {Nobody})]
  BY DEF DeskInv, TypeOK, Rows, RowOrNone
<1>4. ASSUME \A s \in Slots : seeded.entry[s].status = "saved"
      PROVE  put = verdict /\ put # Keep /\ Both(k.athletes, table)
  <2>1. \A s \in Slots : /\ seeded.entry[s].result = table[k.athletes[s]].result
                         /\ table[k.athletes[s]] # NoRecord
    BY <1>1, <1>4 DEF Holds
  <2>2. [s \in Slots |-> seeded.entry[s].result] = [s \in Slots |-> table[k.athletes[s]].result]
    BY <2>1
  <2>3. put = verdict
    BY <1>1, <1>4, <2>2 DEF Resolve, Verdict
  <2>4. k.athletes \in [Slots -> Athletes]
    BY DEF Recorder
  <2>5. verdict # Keep
    BY <2>4, VerdictIs
  <2> QED  BY <2>1, <2>3, <2>5 DEF Both
<1>5. put # Keep => \A s \in Slots : seeded.entry[s].status = "saved"
  BY DEF Resolve
<1>6. Live(seeded) => \A s \in Slots : seeded.entry[s].status = "saved"
  BY DEF Live
<1> HIDE DEF put, verdict, seeded
<1>7. desk'[d] = seeded /\ cache'[d] = rows
  BY <1>2, <1>3
<1>8. \A e \in Desks \ {d} : desk'[e] = desk[e] /\ cache'[e] = cache[e] /\ puts'[e] = puts[e]
  BY <1>2, <1>3
<1>9. puts'[d] = puts[d] \/ (puts'[d] = Append(puts[d], verdict) /\ Both(k.athletes, table))
  BY <1>2, <1>3, <1>4, <1>5
<1>10. Live(seeded) => puts'[d] = Append(puts[d], verdict) \/ (~resolves /\ Live(k))
  BY <1>1, <1>2, <1>3, <1>4, <1>6
<1> QED  BY <1>1, <1>7, <1>8, <1>9, <1>10 DEF verdict

\* A winner queued is one of these, or was queued before.
LEMMA QueuesGive ==
    ASSUME DeskInv, NEW d \in Desks, NEW v \in Athletes \union {Nobody},
           puts'[d] = puts[d] \/ puts'[d] = Append(puts[d], v)
    PROVE  /\ \A i \in DOMAIN puts'[d] : puts'[d][i] = v \/ (i \in DOMAIN puts[d] /\ puts'[d][i] = puts[d][i])
           /\ puts[d] # <<>> => puts'[d] # <<>>
           /\ Append(puts[d], v) # <<>>
<1>1. puts[d] \in Seq(Athletes \union {Nobody})
  BY DEF DeskInv, TypeOK
<1> QED  BY <1>1

\* A desk that shows the board, or now comes to, commits on the rows.
LEMMA CommitFits ==
    ASSUME RowsInv, NEW d \in Desks, NEW k \in Recorder, NEW rows \in Rows, NEW resolves \in BOOLEAN,
           Commit(d, k, rows, resolves), UNCHANGED <<sel, scores, winner>>,
           k.match = sel.match, k.athletes = sel.athletes, rows = cache[d] \/ rows = scores,
           Holds(k, scores), Live(k) => resolves \/ (Shows(d) /\ Live(desk[d])),
           (\E e \in Desks \ {d} : ~Shows(e)) => rest' = {} /\ rows = scores
    PROVE  PanelsFit' /\ WinnerFits'
<1> DEFINE v == Verdict(sel.athletes, scores)
<1>1. /\ DeskInv /\ PanelsFit /\ WinnerFits /\ scores \in Rows
      /\ sel.athletes \in [Slots -> Athletes]
  BY DEF RowsInv, DeskInv, TypeOK, Rows, RowOrNone
<1>2. Lags(rows, scores, sel.athletes)
  BY <1>1 DEF PanelsFit, Lags
<1>3. /\ desk'[d].match = sel.match /\ desk'[d].athletes = sel.athletes
      /\ Rests(desk'[d], rows) /\ Holds(desk'[d], scores)
      /\ cache'[d] = rows
      /\ \A e \in Desks \ {d} : desk'[e] = desk[e] /\ cache'[e] = cache[e] /\ puts'[e] = puts[e]
      /\ \/ puts'[d] = puts[d]
         \/ puts'[d] = Append(puts[d], v) /\ Both(sel.athletes, scores)
      /\ Live(desk'[d]) => puts'[d] = Append(puts[d], v) \/ (~resolves /\ Live(k))
  BY <1>1, <1>2, CommitGives
<1>4. v \in Athletes \union {Nobody}
  BY <1>1, VerdictIs DEF Slots
<1>5. sel' = sel /\ scores' = scores /\ winner' = winner
  OBVIOUS
<1> HIDE DEF v
<1>6. /\ \A i \in DOMAIN puts'[d] : puts'[d][i] = v \/ (i \in DOMAIN puts[d] /\ puts'[d][i] = puts[d][i])
      /\ puts[d] # <<>> => puts'[d] # <<>>
      /\ Append(puts[d], v) # <<>>
  BY <1>1, <1>3, <1>4, QueuesGive
<1>7. PanelsFit'
  <2>1. \A e \in Desks : /\ desk'[e].athletes[1] # desk'[e].athletes[2]
                         /\ Rests(desk'[e], cache'[e]) /\ Holds(desk'[e], scores)
    BY <1>1, <1>3 DEF PanelsFit
  <2>2. \A e \in Desks : Lags(cache'[e], scores, sel.athletes)
    BY <1>1, <1>2, <1>3 DEF PanelsFit
  <2>3. ASSUME NEW e \in Desks, ~Shows(e)'
        PROVE  rest' = {} /\ \A f \in Desks : cache'[f] = scores
    <3>1. e # d /\ ~Shows(e)
      BY <1>3, <1>5, <2>3 DEF Shows
    <3> QED  BY <1>1, <1>3, <3>1 DEF PanelsFit
  <2> QED  BY <1>1, <1>5, <2>1, <2>2, <2>3 DEF PanelsFit
<1>8. WinnerFits'
  <2>1. ASSUME NEW e \in Desks, NEW i \in DOMAIN puts'[e]
        PROVE  Both(sel.athletes, scores) /\ puts'[e][i] = v
    <3>1. CASE e # d
      BY <1>1, <1>3, <2>1, <3>1 DEF WinnerFits, v
    <3>2. CASE e = d
      <4>1. i \in DOMAIN puts[d] => Both(sel.athletes, scores) /\ puts[d][i] = v
        BY <1>1 DEF WinnerFits, v
      <4> QED  BY <1>3, <1>6, <2>1, <3>2, <4>1
    <3> QED  BY <3>1, <3>2
  <2>2. ASSUME Contending(sel.athletes), NEW e \in Desks, Shows(e)', Live(desk'[e])
        PROVE  winner = v \/ \E f \in Desks : puts'[f] # <<>>
    <3>1. (\E f \in Desks : puts[f] # <<>>) => \E f \in Desks : puts'[f] # <<>>
      BY <1>3, <1>6
    <3>2. \A f \in Desks : Shows(f) /\ Live(desk[f]) => winner = v \/ \E g \in Desks : puts[g] # <<>>
      BY <1>1, <2>2 DEF WinnerFits, v
    <3>3. CASE e # d
      <4>1. Shows(e) /\ Live(desk[e])
        BY <1>3, <1>5, <2>2, <3>3 DEF Shows
      <4> QED  BY <3>1, <3>2, <4>1
    <3>4. CASE e = d
      <4>1. puts'[d] # <<>> \/ (Shows(d) /\ Live(desk[d]))
        BY <1>3, <1>6, <2>2, <3>4
      <4> QED  BY <3>1, <3>2, <4>1
    <3> QED  BY <3>3, <3>4
  <2> QED  BY <1>5, <2>1, <2>2 DEF WinnerFits, v
<1> QED  BY <1>7, <1>8

\* Another board, when all is answered.
LEMMA BoardFits ==
    ASSUME RowsInv, NEW d \in Desks, NEW k \in Recorder, Commit(d, k, cache[d], FALSE),
           UNCHANGED <<scores, rest, winner>>, rest = {},
           \A e \in Desks : Shows(e) /\ cache[e] = scores /\ puts[e] = <<>>,
           sel' = [match |-> k.match, athletes |-> k.athletes],
           k.match # sel.match \/ k.athletes # sel.athletes,
           k.athletes[1] # k.athletes[2], Holds(k, scores),
           Live(k) /\ Contending(k.athletes) => winner = Verdict(k.athletes, scores)
    PROVE  PanelsFit' /\ WinnerFits'
<1> DEFINE v == Verdict(k.athletes, scores)
           queued == FALSE
<1>1. DeskInv /\ PanelsFit /\ scores \in Rows /\ k.athletes \in [Slots -> Athletes]
  BY DEF RowsInv, DeskInv, TypeOK, Rows, RowOrNone, Recorder
<1>2. /\ cache[d] \in Rows /\ Lags(cache[d], scores, k.athletes)
      /\ Commit(d, k, cache[d], queued) /\ queued \in BOOLEAN
      /\ \A athletes : Lags(scores, scores, athletes)
  BY <1>1 DEF Lags
<1> HIDE DEF queued
<1>3. /\ desk'[d].match = k.match /\ desk'[d].athletes = k.athletes
      /\ Rests(desk'[d], cache[d]) /\ Holds(desk'[d], scores)
      /\ cache'[d] = cache[d]
      /\ \A e \in Desks \ {d} : desk'[e] = desk[e] /\ cache'[e] = cache[e] /\ puts'[e] = puts[e]
      /\ \/ puts'[d] = puts[d]
         \/ puts'[d] = Append(puts[d], v) /\ Both(k.athletes, scores)
      /\ Live(desk'[d]) => puts'[d] = Append(puts[d], v) \/ Live(k)
  BY <1>1, <1>2, CommitGives
<1>4. v \in Athletes \union {Nobody}
  BY <1>1, VerdictIs DEF Slots
<1>5. scores' = scores /\ winner' = winner /\ rest' = {} /\ sel'.athletes = k.athletes /\ sel'.match = k.match
  OBVIOUS
<1> HIDE DEF v
<1>6. /\ \A i \in DOMAIN puts'[d] : puts'[d][i] = v \/ (i \in DOMAIN puts[d] /\ puts'[d][i] = puts[d][i])
      /\ puts[d] # <<>> => puts'[d] # <<>>
      /\ Append(puts[d], v) # <<>>
  BY <1>1, <1>3, <1>4, QueuesGive
<1>7. PanelsFit'
  <2>1. \A e \in Desks : /\ desk'[e].athletes[1] # desk'[e].athletes[2]
                         /\ Rests(desk'[e], cache'[e]) /\ Holds(desk'[e], scores)
    BY <1>1, <1>3 DEF PanelsFit
  <2>2. \A e \in Desks : cache'[e] = scores
    BY <1>3
  <2> QED  BY <1>2, <1>5, <2>1, <2>2 DEF PanelsFit
<1>8. WinnerFits'
  <2>1. ASSUME NEW e \in Desks, NEW i \in DOMAIN puts'[e]
        PROVE  Both(k.athletes, scores) /\ puts'[e][i] = v
    <3>1. \A f \in Desks : DOMAIN puts[f] = {}
      OBVIOUS
    <3>2. e = d
      BY <1>3, <2>1, <3>1
    <3> QED  BY <1>3, <1>6, <2>1, <3>1, <3>2
  <2>2. ASSUME Contending(k.athletes), NEW e \in Desks, Shows(e)', Live(desk'[e])
        PROVE  winner = v \/ \E f \in Desks : puts'[f] # <<>>
    <3>1. e = d
      BY <1>3, <1>5, <2>2 DEF Shows
    <3> QED  BY <1>3, <1>6, <2>2, <3>1 DEF v
  <2> QED  BY <1>5, <2>1, <2>2 DEF WinnerFits, v
<1> QED  BY <1>7, <1>8

\* While something is asked, or a cache is behind, all desks show the board.
LEMMA AskedShow ==
    ASSUME RowsInv, rest # {} \/ \E d \in Desks : cache[d] # scores
    PROVE  \A d \in Desks : Shows(d)
  BY DEF RowsInv, PanelsFit

-----------------------------------------------------------------------------
(* The requests.                                                           *)

\* Rows stay keyed while none is written.
LEMMA KeyedStays ==
    ASSUME RowsInv, scores' = scores, count'.saves \in Nat, count'.saves >= count.saves
    PROVE  Keyed'
<1>1. count.saves \in Nat
  BY DEF RowsInv, DeskInv, TypeOK
<1>2. 1..count.saves \subseteq 1..count'.saves
  BY <1>1
<1> QED  BY <1>2 DEF RowsInv, Keyed

\* A request that is answered, refused or handed on leaves the others as they were.
LEMMA RequestsLeft ==
    ASSUME RowsInv, rest' \subseteq rest, UNCHANGED <<sel, scores>>, count'.saves = count.saves
    PROVE  RequestsFit'
<1>1. ASSUME NEW x \in rest', x.stage = "sent"
      PROVE  IF x.move THEN MoveFits(x)' ELSE PostFits(x)'
  <2>1. x \in rest /\ (IF x.move THEN MoveFits(x) ELSE PostFits(x))
    BY <1>1 DEF RowsInv, RequestsFit
  <2> QED  BY <2>1 DEF MoveFits, PostFits, OnBoard
<1> QED  BY <1>1 DEF RowsInv, RequestsFit

\* Results that were landed are seen.
LEMMA RequestsSeen ==
    ASSUME RowsInv, NEW d \in Desks, UNCHANGED <<sel, scores, count>>,
           rest' = {IF x.by = d /\ x.stage = "landed" THEN [x EXCEPT !.stage = "seen"] ELSE x : x \in rest}
    PROVE  RequestsFit'
<1> DEFINE after(x) == IF x.by = d /\ x.stage = "landed" THEN [x EXCEPT !.stage = "seen"] ELSE x
<1>1. \A x \in rest : x \in Request
  BY DEF RowsInv, DeskInv, TypeOK
<1>2. \A x \in Request : /\ after(x).slot = x.slot /\ after(x).record = x.record
                         /\ after(x).move = x.move /\ after(x).nr = x.nr
                         /\ after(x).stage = "sent" <=> x.stage = "sent"
                         /\ after(x).stage = "sent" => after(x) = x
  BY DEF Request
<1>3. /\ \A y \in rest' : \E x \in rest : y = after(x)
      /\ RequestsFit /\ sel' = sel /\ scores' = scores /\ count' = count
  BY DEF RowsInv
<1> HIDE DEF after
<1>4. \A y \in rest' : y.stage = "sent" => y \in rest
  BY <1>1, <1>2, <1>3
<1>5. ASSUME NEW y \in rest', y.stage = "sent"
      PROVE  IF y.move THEN MoveFits(y)' ELSE PostFits(y)'
  <2>1. y \in rest /\ (IF y.move THEN MoveFits(y) ELSE PostFits(y))
    BY <1>3, <1>4, <1>5 DEF RequestsFit
  <2> QED  BY <1>3, <1>4, <2>1 DEF MoveFits, PostFits, OnBoard
<1>6. ASSUME NEW y \in rest'
      PROVE  /\ y.record.athlete = sel.athletes[y.slot]
             /\ y.stage # "sent" => y.record = scores[y.record.athlete]
  BY <1>1, <1>2, <1>3 DEF RequestsFit
<1>7. ASSUME NEW y \in rest', NEW z \in rest', y.slot = z.slot
      PROVE  y = z
  <2>1. PICK x \in rest : y = after(x)
    BY <1>3
  <2>2. PICK w \in rest : z = after(w)
    BY <1>3
  <2> QED  BY <1>1, <1>2, <1>3, <1>7, <2>1, <2>2 DEF RequestsFit
<1> QED  BY <1>3, <1>5, <1>6, <1>7 DEF RequestsFit

\* A request that leaves for a slot with none.
LEMMA RequestAdds ==
    ASSUME RowsInv, NEW x, rest' = rest \union {x}, UNCHANGED <<sel, scores>>, count'.saves \in Nat,
           count'.saves >= count.saves, x.stage = "sent", x.record.athlete = sel.athletes[x.slot],
           IF x.move THEN MoveFits(x)' ELSE PostFits(x)', \A y \in rest : y.slot # x.slot,
           \A y \in rest : y.stage = "sent" /\ y.nr = x.nr => ~(y.move <=> x.move)
    PROVE  RequestsFit'
<1>1. RequestsFit /\ count.saves \in Nat /\ \A y \in rest : y.move \in BOOLEAN
  BY DEF RowsInv, DeskInv, TypeOK, Request
<1>2. 1..count.saves \subseteq 1..count'.saves
  BY <1>1
<1>3. ASSUME NEW y \in rest, y.stage = "sent"
      PROVE  IF y.move THEN MoveFits(y)' ELSE PostFits(y)'
  <2>1. CASE y.move
    <3>1. MoveFits(y)
      BY <1>1, <1>3, <2>1 DEF RequestsFit
    <3> QED  BY <1>3, <2>1, <3>1 DEF MoveFits, OnBoard
  <2>2. CASE ~y.move
    <3>1. PostFits(y)
      BY <1>1, <1>3, <2>2 DEF RequestsFit
    <3> QED  BY <1>2, <1>3, <2>2, <3>1 DEF PostFits
  <2> QED  BY <2>1, <2>2
<1>4. sel' = sel /\ scores' = scores
  OBVIOUS
<1>5. \A y \in rest' : y \in rest \/ y = x
  OBVIOUS
<1> QED  BY <1>1, <1>3, <1>4, <1>5 DEF RequestsFit

-----------------------------------------------------------------------------
(* The panels' steps.                                                      *)

\* A desk that shows the board commits and owes no winner for it.
LEMMA DeskFits ==
    ASSUME RowsInv, \A e \in Desks : Shows(e), NEW d \in Desks, NEW k \in Recorder, NEW rows \in Rows,
           Commit(d, k, rows, FALSE), UNCHANGED <<sel, scores, winner>>,
           k.match = desk[d].match, k.athletes = desk[d].athletes, rows = cache[d] \/ rows = scores,
           Holds(k, scores), Live(k) => Live(desk[d])
    PROVE  PanelsFit' /\ WinnerFits'
<1> DEFINE resolves == FALSE
<1>1. /\ Commit(d, k, rows, resolves) /\ resolves \in BOOLEAN
      /\ Live(k) => resolves \/ (Shows(d) /\ Live(desk[d]))
      /\ (\E e \in Desks \ {d} : ~Shows(e)) => rest' = {} /\ rows = scores
  OBVIOUS
<1>2. k.match = sel.match /\ k.athletes = sel.athletes
  BY DEF Shows
<1> HIDE DEF resolves
<1> QED  BY <1>1, <1>2, CommitFits

\* An entry reopened, submitted or refused holds no row.
LEMMA EntryFits ==
    ASSUME NEW k \in Recorder, NEW s \in Slots, NEW e \in Entry, e.status # "saved" \/ e = k.entry[s],
           NEW table, Holds(k, table)
    PROVE  LET n == [k EXCEPT !.entry[s] = e]
           IN  /\ n.match = k.match /\ n.athletes = k.athletes /\ Holds(n, table)
               /\ Live(n) => Live(k)
<1> DEFINE n == [k EXCEPT !.entry[s] = e]
<1>1. /\ n.match = k.match /\ n.athletes = k.athletes /\ n.record = k.record
      /\ \A t \in Slots : n.entry[t] = IF t = s THEN e ELSE k.entry[t]
  BY DEF Recorder
<1> HIDE DEF n
<1>2. Holds(n, table)
  BY <1>1 DEF Holds
<1>3. Live(n) => Live(k)
  BY <1>1 DEF Live
<1> QED  BY <1>1, <1>2, <1>3 DEF n

LEMMA EditRows ==
    ASSUME ~Hurried, RowsInv, NEW d \in Desks, NEW s \in Slots, Edit(d, s)
    PROVE  Keyed' /\ PanelsFit' /\ RequestsFit' /\ WinnerFits'
<1>1. PICK mark \in Marks :
        /\ Commit(d, [desk[d] EXCEPT !.entry[s] = Edited(@, mark)], cache[d], FALSE)
        /\ UNCHANGED <<sel, scores, rest, winner, count>>
  BY DEF Edit
<1> DEFINE e == Edited(desk[d].entry[s], mark)
           k == [desk[d] EXCEPT !.entry[s] = e]
<1>2. /\ desk[d] \in Recorder /\ SoundDesk(desk[d]) /\ cache[d] \in Rows /\ count.saves \in Nat
      /\ Holds(desk[d], scores)
  BY DEF RowsInv, PanelsFit, DeskInv, TypeOK, Rows, RowOrNone
<1>3. e \in Entry /\ SoundEntry(e) /\ e.status # "saved"
  BY MarksAssumption DEF Edited, EmptyEntry, Entry, Result, SoundEntry
<1>4. Commit(d, k, cache[d], FALSE)
  BY <1>1, <1>2 DEF Recorder
<1> HIDE DEF e
<1>5. k \in Recorder
  BY <1>2, <1>3, EntryTypes
<1>6. /\ k.match = desk[d].match /\ k.athletes = desk[d].athletes /\ Holds(k, scores)
      /\ Live(k) => Live(desk[d])
  BY <1>2, <1>3, EntryFits
<1>7. \A f \in Desks : Shows(f)
  BY DEF Edit, Adopted
<1> HIDE DEF k
<1>8. PanelsFit' /\ WinnerFits'
  BY <1>1, <1>2, <1>4, <1>5, <1>6, <1>7, DeskFits
<1>9. Keyed' /\ RequestsFit'
  BY <1>1, <1>2, KeyedStays, RequestsLeft
<1> QED  BY <1>8, <1>9

LEMMA SaveRows ==
    ASSUME ~Hurried, RowsInv, NEW d \in Desks, NEW s \in Slots, NEW result \in Result, Save(d, s, result)
    PROVE  Keyed' /\ PanelsFit' /\ RequestsFit' /\ WinnerFits'
<1> DEFINE e == Submitted(desk[d].entry[s], result)
           k == [desk[d] EXCEPT !.entry[s] = e]
           sent == [by |-> d, slot |-> s, nr |-> count.saves + 1, move |-> FALSE, stage |-> "sent",
                    record |-> [id |-> count.saves + 1, athlete |-> desk[d].athletes[s], result |-> result]]
<1> PICK x : x = sent
  OBVIOUS
<1> PICK a : a = desk[d].athletes[s]
  OBVIOUS
<1> PICK n : n = count.saves + 1
  OBVIOUS
<1>1. /\ desk[d] \in Recorder /\ SoundDesk(desk[d]) /\ cache[d] \in Rows /\ desk[d].entry[s] \in Entry
      /\ count \in Counts /\ count.saves \in Nat /\ Holds(desk[d], scores) /\ scores \in Rows
  BY DEF RowsInv, PanelsFit, DeskInv, TypeOK, Rows, RowOrNone, Recorder, Counts
<1>2. e \in Entry /\ e.status = "pending" /\ (SoundEntry(e) \/ TRUE)
  BY <1>1 DEF Submitted, Entry
<1>3. k \in Recorder
  BY <1>1, <1>2 DEF Recorder
<1>4. /\ Commit(d, k, cache[d], FALSE) /\ rest' = rest \union {x}
      /\ UNCHANGED <<sel, scores, winner>>
      /\ \A f \in Desks : Shows(f)
      /\ Unscored(a, result)
  BY <1>1 DEF Save, Adopted, Recorder
<1>5. count'.saves = n
  BY <1>1 DEF Save, Pressed, Counts
<1> HIDE DEF e
<1>6. /\ k.match = desk[d].match /\ k.athletes = desk[d].athletes /\ Holds(k, scores)
      /\ Live(k) => Live(desk[d])
  BY <1>1, <1>2, EntryFits
<1> HIDE DEF k
<1>7. PanelsFit' /\ WinnerFits'
  BY <1>1, <1>3, <1>4, <1>6, DeskFits
<1>8. Keyed'
  BY <1>1, <1>4, <1>5, KeyedStays
<1>9. a = sel.athletes[s] /\ a \in Athletes
  BY <1>1, <1>4 DEF Shows, Recorder
<1>10. /\ x.slot = s /\ x.stage = "sent" /\ ~x.move /\ x.nr = n /\ x.record.id = n /\ x.record.athlete = a
       /\ x.record.result = result
  OBVIOUS
<1> HIDE DEF sent
<1>11. \A y \in rest : y.slot # s
  BY <1>4, <1>9 DEF Unscored, RowsInv, RequestsFit
<1>12. \A y \in rest : y.stage = "sent" /\ ~y.move => y.nr # n
  <2>1. \A y \in rest : y.stage = "sent" /\ ~y.move => y.nr \in 1..count.saves
    BY DEF RowsInv, RequestsFit, PostFits
  <2> QED  BY <1>1, <2>1
<1>13. \A b \in Athletes : scores[b].id # n
  <2>1. \A b \in Athletes : scores[b] # NoRecord => scores[b].id \in 1..count.saves
    BY DEF RowsInv, Keyed
  <2>2. NoRecord.id = 0
    BY DEF NoRecord
  <2> TAKE b \in Athletes
  <2>3. CASE scores[b] = NoRecord
    <3>1. scores[b].id = 0 /\ n # 0
      BY <1>1, <2>2, <2>3
    <3> QED  BY <3>1
  <2>4. CASE scores[b] # NoRecord
    <3>1. scores[b].id \in 1..count.saves
      BY <2>1, <2>4
    <3> QED  BY <1>1, <3>1
  <2> QED  BY <2>3, <2>4
<1>14. PostFits(x)'
  <2>1. \A y \in rest' : ~y.move /\ y.stage = "sent" /\ y.nr = n => y = x
    BY <1>4, <1>12
  <2>2. n \in 1..n
    BY <1>1
  <2>3. scores[a] # NoRecord => scores[a].result = result
    BY <1>4 DEF Unscored
  <2>4. scores' = scores
    BY <1>4
  <2> QED  BY <1>5, <1>10, <1>13, <2>1, <2>2, <2>3, <2>4 DEF PostFits
<1>15. RequestsFit'
  <2>1. count'.saves \in Nat /\ count'.saves >= count.saves
    BY <1>1, <1>5
  <2> QED  BY <1>4, <1>9, <1>10, <1>11, <1>12, <1>14, <2>1, RequestAdds
<1> QED  BY <1>7, <1>8, <1>15

LEMMA RecordRows ==
    ASSUME ~Hurried, RowsInv, NEW d \in Desks, NEW s \in Slots, RecordScore(d, s) \/ RecordDnf(d, s)
    PROVE  Keyed' /\ PanelsFit' /\ RequestsFit' /\ WinnerFits'
<1>1. CASE RecordScore(d, s)
  <2>1. desk[d].entry[s].draft \in Result
    BY DEF RowsInv, DeskInv, TypeOK, Recorder, Entry, Result
  <2> QED  BY <1>1, <2>1, SaveRows DEF RecordScore
<1>2. CASE RecordDnf(d, s)
  BY <1>2, SaveRows DEF RecordDnf, Result
<1> QED  BY <1>1, <1>2

LEMMA MoveRows ==
    ASSUME ~Hurried, RowsInv, NEW d \in Desks, NEW s \in Slots, MoveScore(d, s)
    PROVE  Keyed' /\ PanelsFit' /\ RequestsFit' /\ WinnerFits'
<1> DEFINE k == [desk[d] EXCEPT !.moving = s]
           sent == [by |-> d, slot |-> s, nr |-> desk[d].record[s].id, move |-> TRUE, stage |-> "sent",
                    record |-> [desk[d].record[s] EXCEPT !.athlete = desk[d].athletes[s]]]
<1> PICK x : x = sent
  OBVIOUS
<1> PICK a : a = desk[d].athletes[s]
  OBVIOUS
<1> PICK was : was = desk[d].record[s]
  OBVIOUS
<1>1. /\ desk[d] \in Recorder /\ cache[d] \in Rows /\ count \in Counts /\ count.saves \in Nat
      /\ Holds(desk[d], scores) /\ scores \in Rows
  BY DEF RowsInv, PanelsFit, DeskInv, TypeOK, Rows, RowOrNone, Counts
<1>2. /\ k \in Recorder /\ k.match = desk[d].match /\ k.athletes = desk[d].athletes
      /\ k.entry = desk[d].entry /\ k.record = desk[d].record
  BY <1>1 DEF Recorder, Slots
<1>3. /\ Commit(d, k, cache[d], FALSE) /\ rest' = rest \union {x}
      /\ UNCHANGED <<sel, scores, winner>>
      /\ \A f \in Desks : Shows(f)
      /\ Unscored(a, was.result)
      /\ was # NoRecord /\ was.athlete # a /\ was.athlete # desk[d].athletes[OtherSlot(s)]
      /\ scores[was.athlete] = was
      /\ \A y \in rest : y.move => y.nr # was.id
  BY DEF MoveScore, Adopted, Misfiled
<1>4. count'.saves = count.saves
  BY <1>1 DEF MoveScore, Pressed, Counts
<1>5. Holds(k, scores) /\ (Live(k) => Live(desk[d]))
  BY <1>1, <1>2 DEF Holds, Live
<1>6. PanelsFit' /\ WinnerFits'
  <2> HIDE DEF k
  <2> QED  BY <1>1, <1>2, <1>3, <1>5, DeskFits
<1>7. Keyed'
  BY <1>1, <1>3, <1>4, KeyedStays
<1>8. /\ a = sel.athletes[s] /\ a \in Athletes /\ was \in Record
      /\ desk[d].athletes[OtherSlot(s)] = sel.athletes[OtherSlot(s)]
  BY <1>1, <1>3 DEF Shows, Recorder
<1>9. /\ x.slot = s /\ x.stage = "sent" /\ x.move /\ x.nr = was.id
      /\ x.record.id = was.id /\ x.record.athlete = a /\ [x.record EXCEPT !.athlete = was.athlete] = was
  BY <1>8 DEF Record
<1> HIDE DEF sent
<1>10. \A y \in rest : y.slot # s
  BY <1>3, <1>8 DEF Unscored, RowsInv, RequestsFit
<1>11. MoveFits(x)'
  <2>1. was.athlete \in Athletes
    BY <1>8 DEF Record
  <2>2. \A t \in Slots : sel.athletes[t] # was.athlete
    BY <1>3, <1>8 DEF Slots, OtherSlot
  <2>3. \A y \in rest' : y.move /\ y.stage = "sent" /\ y.nr = was.id => y = x
    BY <1>3
  <2>4. sel' = sel /\ scores' = scores
    BY <1>3
  <2> QED  BY <1>3, <1>9, <2>1, <2>2, <2>3, <2>4 DEF MoveFits, OnBoard
<1>12. RequestsFit'
  <2>1. count'.saves \in Nat /\ count'.saves >= count.saves
    BY <1>1, <1>4
  <2> QED  BY <1>3, <1>8, <1>9, <1>10, <1>11, <2>1, RequestAdds
<1> QED  BY <1>6, <1>7, <1>12

-----------------------------------------------------------------------------
(* The answers.                                                            *)

LEMMA RefetchRows ==
    ASSUME RowsInv, NEW d \in Desks, Refetch(d)
    PROVE  Keyed' /\ PanelsFit' /\ RequestsFit' /\ WinnerFits'
<1>1. /\ desk[d] \in Recorder /\ scores \in Rows /\ count.saves \in Nat /\ Holds(desk[d], scores)
  BY DEF RowsInv, PanelsFit, DeskInv, TypeOK, Rows, RowOrNone
<1>2. /\ Commit(d, desk[d], scores, FALSE) /\ UNCHANGED <<sel, scores, winner, count>>
      /\ rest' = {IF x.by = d /\ x.stage = "landed" THEN [x EXCEPT !.stage = "seen"] ELSE x : x \in rest}
  BY DEF Refetch
<1>3. \A e \in Desks : Shows(e)
  BY AskedShow DEF Refetch
<1>4. PanelsFit' /\ WinnerFits'
  BY <1>1, <1>2, <1>3, DeskFits
<1>5. RequestsFit'
  BY <1>2, RequestsSeen
<1>6. Keyed'
  BY <1>1, <1>2, KeyedStays
<1> QED  BY <1>4, <1>5, <1>6

LEMMA ReplyRows ==
    ASSUME RowsInv, NEW x \in rest, Reply(x)
    PROVE  Keyed' /\ PanelsFit' /\ RequestsFit' /\ WinnerFits'
<1> DEFINE k0 == [desk[x.by] EXCEPT !.moving = IF x.move THEN 0 ELSE @]
           taken0 == IF x.move THEN k0.record[x.slot] # NoRecord ELSE k0.entry[x.slot].status = "pending"
           entry0 == IF x.move THEN Moved(x.record) ELSE Saved(k0.entry[x.slot], x.record)
           after0 == IF taken0 THEN [k0 EXCEPT !.entry[x.slot] = entry0, !.record[x.slot] = x.record] ELSE k0
<1> PICK d : d = x.by
  OBVIOUS
<1> PICK s : s = x.slot
  OBVIOUS
<1>1. /\ x \in Request /\ d \in Desks /\ s \in Slots /\ x.record \in Record /\ x.move \in BOOLEAN
  BY DEF RowsInv, DeskInv, TypeOK, Request
<1>2. /\ desk[d] \in Recorder /\ cache[d] \in Rows /\ scores \in Rows /\ count.saves \in Nat
      /\ Holds(desk[d], scores)
  BY <1>1 DEF RowsInv, PanelsFit, DeskInv, TypeOK, Rows, RowOrNone
<1>3. /\ Commit(d, after0, cache[d], taken0) /\ rest' = rest \ {x} /\ UNCHANGED <<sel, scores, winner, count>>
      /\ x.stage = "seen"
  BY DEF Reply
<1>4. \A e \in Desks : Shows(e)
  BY AskedShow
<1>5. /\ k0 \in Recorder /\ k0.match = desk[d].match /\ k0.athletes = desk[d].athletes
      /\ k0.entry = desk[d].entry /\ k0.record = desk[d].record
  <2>1. (IF x.move THEN 0 ELSE desk[d].moving) \in 0..2
    BY <1>2 DEF Recorder
  <2> QED  BY <1>2, <2>1 DEF Recorder
<1>6. /\ entry0 \in Entry /\ entry0.status = "saved" /\ entry0.result = x.record.result
  <2>1. CASE x.move
    <3>1. Moved(x.record).result = x.record.result
      BY DEF Moved, Restored
    <3> QED  BY <1>1, <2>1, <3>1, RestoredTypes
  <2>2. CASE ~x.move
    <3>1. x.record.result \in Result /\ k0.entry[s] \in Entry
      BY <1>1, <1>5 DEF Record, Recorder
    <3> QED  BY <2>2, <3>1 DEF Saved, Entry
  <2> QED  BY <2>1, <2>2
<1> HIDE DEF k0, entry0
<1>7. /\ after0 \in Recorder /\ after0.match = desk[d].match /\ after0.athletes = desk[d].athletes
      /\ ~taken0 => after0.entry = desk[d].entry /\ after0.record = desk[d].record
      /\ taken0 => \A t \in Slots : /\ after0.entry[t] = IF t = s THEN entry0 ELSE desk[d].entry[t]
                                    /\ after0.record[t] = IF t = s THEN x.record ELSE desk[d].record[t]
  BY <1>1, <1>5, <1>6 DEF Recorder
<1>8. taken0 \in BOOLEAN
  OBVIOUS
<1> HIDE DEF after0, taken0
<1>9. x.record = scores[desk[d].athletes[s]] /\ x.record # NoRecord
  <2>1. x.record = scores[sel.athletes[s]]
    BY <1>3 DEF RowsInv, RequestsFit
  <2>2. desk[d].athletes = sel.athletes
    BY <1>1, <1>4 DEF Shows
  <2>3. x.record.athlete \in Athletes /\ NoRecord.athlete = 0 /\ 0 \notin Athletes
    BY <1>1, AthletesAssumption DEF Record, NoRecord, Nobody
  <2> QED  BY <2>1, <2>2, <2>3
<1>10. Holds(after0, scores)
  <2>1. CASE taken0
    BY <1>2, <1>6, <1>7, <1>9, <2>1 DEF Holds
  <2>2. CASE ~taken0
    BY <1>2, <1>7, <2>2 DEF Holds
  <2> QED  BY <2>1, <2>2
<1>11. Live(after0) => taken0 \/ Live(desk[d])
  BY <1>7 DEF Live
<1>12. after0.match = sel.match /\ after0.athletes = sel.athletes
  BY <1>1, <1>4, <1>7 DEF Shows
<1>13. PanelsFit' /\ WinnerFits'
  BY <1>1, <1>2, <1>3, <1>4, <1>7, <1>8, <1>10, <1>11, <1>12, CommitFits
<1>14. Keyed' /\ RequestsFit'
  BY <1>2, <1>3, KeyedStays, RequestsLeft
<1> QED  BY <1>13, <1>14

LEMMA RefuseRows ==
    ASSUME RowsInv, NEW x \in rest, Refuse(x)
    PROVE  Keyed' /\ PanelsFit' /\ RequestsFit' /\ WinnerFits'
<1> DEFINE failed == Failed(desk[x.by].entry[x.slot])
           moved == [desk[x.by] EXCEPT !.moving = 0]
           posted == [desk[x.by] EXCEPT !.entry[x.slot] = failed]
<1> PICK d : d = x.by
  OBVIOUS
<1> PICK s : s = x.slot
  OBVIOUS
<1>1. x \in Request /\ d \in Desks /\ s \in Slots
  BY DEF RowsInv, DeskInv, TypeOK, Request
<1>2. /\ desk[d] \in Recorder /\ cache[d] \in Rows /\ count \in Counts /\ count.saves \in Nat
      /\ Holds(desk[d], scores) /\ scores \in Rows
  BY <1>1 DEF RowsInv, PanelsFit, DeskInv, TypeOK, Rows, RowOrNone, Counts
<1>3. failed \in Entry /\ (failed.status # "saved" \/ failed = desk[d].entry[s])
  <2>1. desk[d].entry[s] \in Entry
    BY <1>1, <1>2 DEF Recorder
  <2> QED  BY <2>1 DEF Failed, Entry
<1>4. /\ rest' = rest \ {x} /\ UNCHANGED <<sel, scores, winner>>
      /\ Pressed("refused", MaxRefused) \/ UNCHANGED count
      /\ Commit(d, IF x.move THEN moved ELSE posted, cache[d], FALSE)
  BY <1>1, <1>2 DEF Refuse, Recorder
<1>5. count'.saves = count.saves
  BY <1>2, <1>4 DEF Pressed, Counts
<1>6. \A e \in Desks : Shows(e)
  BY AskedShow
<1>7. /\ moved \in Recorder /\ moved.match = desk[d].match /\ moved.athletes = desk[d].athletes
      /\ Holds(moved, scores) /\ (Live(moved) => Live(desk[d]))
  <2>1. /\ moved \in Recorder /\ moved.match = desk[d].match /\ moved.athletes = desk[d].athletes
        /\ moved.entry = desk[d].entry /\ moved.record = desk[d].record
    BY <1>2 DEF Recorder
  <2> HIDE DEF moved
  <2> QED  BY <1>2, <2>1 DEF Holds, Live
<1> HIDE DEF failed, moved
<1>8. posted \in Recorder
  BY <1>1, <1>2, <1>3 DEF Recorder
<1>9. /\ posted.match = desk[d].match /\ posted.athletes = desk[d].athletes
      /\ Holds(posted, scores) /\ (Live(posted) => Live(desk[d]))
  BY <1>1, <1>2, <1>3, EntryFits
<1> HIDE DEF posted
<1>10. PanelsFit' /\ WinnerFits'
  <2>1. CASE x.move
    <3>1. Commit(d, moved, cache[d], FALSE)
      BY <1>4, <2>1
    <3> QED  BY <1>1, <1>2, <1>4, <1>6, <1>7, <3>1, DeskFits
  <2>2. CASE ~x.move
    <3>1. Commit(d, posted, cache[d], FALSE)
      BY <1>4, <2>2
    <3> QED  BY <1>1, <1>2, <1>4, <1>6, <1>8, <1>9, <3>1, DeskFits
  <2> QED  BY <2>1, <2>2
<1>11. Keyed' /\ RequestsFit'
  BY <1>2, <1>4, <1>5, KeyedStays, RequestsLeft
<1> QED  BY <1>10, <1>11

\* The PUT of a winner writes the board's verdict.
LEMMA PutRows ==
    ASSUME RowsInv, NEW d \in Desks, PutWinner(d)
    PROVE  Keyed' /\ PanelsFit' /\ RequestsFit' /\ WinnerFits'
<1> DEFINE v == Verdict(sel.athletes, scores)
<1>1. /\ puts \in [Desks -> Seq(Athletes \union {Nobody})] /\ count.saves \in Nat
      /\ sel.athletes \in [Slots -> Athletes]
  BY DEF RowsInv, DeskInv, TypeOK
<1>2. /\ puts[d] # <<>> /\ puts' = [puts EXCEPT ![d] = Tail(@)]
      /\ winner' = IF Head(puts[d]) \in {Nobody, FirstPair[1], FirstPair[2]} THEN Head(puts[d]) ELSE winner
      /\ sel' = sel /\ desk' = desk /\ cache' = cache /\ scores' = scores /\ rest' = rest /\ count' = count
  BY DEF PutWinner
<1>3. \A e \in Desks : \A i \in DOMAIN puts[e] : Both(sel.athletes, scores) /\ puts[e][i] = v
  BY DEF RowsInv, WinnerFits
<1>4. v \in {Nobody, sel.athletes[1], sel.athletes[2]}
  BY <1>1, VerdictIs
<1> HIDE DEF v
<1>5. Head(puts[d]) = v
  <2>1. 1 \in DOMAIN puts[d] /\ Head(puts[d]) = puts[d][1]
    BY <1>1, <1>2
  <2> QED  BY <1>3, <2>1
<1>6. \A e \in Desks : \A i \in DOMAIN puts'[e] : Both(sel.athletes, scores) /\ puts'[e][i] = v
  <2> TAKE e \in Desks
  <2>1. CASE e # d
    BY <1>1, <1>2, <1>3, <2>1
  <2>2. CASE e = d
    <3>1. \A i \in DOMAIN Tail(puts[d]) : i + 1 \in DOMAIN puts[d] /\ Tail(puts[d])[i] = puts[d][i + 1]
      BY <1>1, <1>2
    <3> QED  BY <1>1, <1>2, <1>3, <2>2, <3>1
  <2> QED  BY <2>1, <2>2
<1>7. Contending(sel.athletes) => winner' = v
  BY <1>2, <1>4, <1>5 DEF Contending
<1>8. WinnerFits'
  BY <1>2, <1>6, <1>7 DEF WinnerFits, v
<1>9. PanelsFit'
  BY <1>2 DEF RowsInv, PanelsFit, Shows
<1>10. Keyed' /\ RequestsFit'
  BY <1>1, <1>2, KeyedStays, RequestsLeft
<1> QED  BY <1>8, <1>9, <1>10

-----------------------------------------------------------------------------
(* The board's steps.                                                      *)

\* A slot that gets another athlete holds nothing.
LEMMA PlacedFits ==
    ASSUME NEW k \in Recorder, NEW s \in Slots, NEW a \in Athletes, NEW table, Holds(k, table)
    PROVE  /\ Placed(k, s, a).match = k.match /\ Placed(k, s, a).athletes = [k.athletes EXCEPT ![s] = a]
           /\ Holds(Placed(k, s, a), table) /\ ~Live(Placed(k, s, a))
<1> DEFINE n == Placed(k, s, a)
<1>1. /\ n.match = k.match /\ n.athletes = [k.athletes EXCEPT ![s] = a] /\ n.record = k.record
      /\ n.entry = [k.entry EXCEPT ![s] = EmptyEntry]
  BY DEF Placed, Recorder
<1>2. /\ \A t \in Slots \ {s} : n.athletes[t] = k.athletes[t] /\ n.entry[t] = k.entry[t]
      /\ n.entry[s].status = "empty"
  BY <1>1 DEF Recorder, EmptyEntry
<1> HIDE DEF n
<1> QED  BY <1>1, <1>2 DEF Holds, Live, n

\* A match picked afresh shows nothing.
LEMMA ClearedFits ==
    ASSUME NEW k \in Recorder, NEW match \in Nat, NEW table
    PROVE  /\ Cleared(k, match).match = match /\ Cleared(k, match).athletes = FirstPair
           /\ Holds(Cleared(k, match), table) /\ ~Live(Cleared(k, match))
<1>1. /\ Cleared(k, match).match = match /\ Cleared(k, match).athletes = FirstPair
      /\ \A s \in Slots : Cleared(k, match).entry[s].status = "empty"
  BY DEF Cleared, FreshDesk, EmptyEntry
<1>2. 1 \in Slots
  BY DEF Slots
<1> QED  BY <1>1, <1>2 DEF Holds, Live

\* The two contenders are two.
LEMMA TwoContend == FirstPair \in [Slots -> Athletes] /\ FirstPair[1] # FirstPair[2]
<1>1. \E pair \in [Slots -> Athletes] : pair[1] < pair[2]
  <2>1. PICK a \in Athletes, b \in Athletes : a < b
    BY ContendersAssumption
  <2> DEFINE pair == [s \in Slots |-> IF s = 1 THEN a ELSE b]
  <2>2. pair \in [Slots -> Athletes] /\ pair[1] = a /\ pair[2] = b
    BY DEF Slots
  <2> QED  BY <2>1, <2>2
<1>2. FirstPair \in [Slots -> Athletes] /\ FirstPair[1] < FirstPair[2]
  BY <1>1 DEF FirstPair
<1>3. FirstPair[1] \in Nat
  BY <1>2, AthletesAssumption DEF Slots
<1> QED  BY <1>2, <1>3

\* A press on the board, once all is answered.
LEMMA PressedBoardFits ==
    ASSUME ~Hurried, RowsInv, Answered, Adopted, Pressed("board", MaxBoard), NEW d \in Desks,
           NEW k \in Recorder, Commit(d, k, cache[d], FALSE), UNCHANGED <<scores, rest, winner>>,
           sel' = [match |-> k.match, athletes |-> k.athletes],
           k.match # sel.match \/ k.athletes # sel.athletes,
           k.athletes[1] # k.athletes[2], Holds(k, scores),
           Live(k) /\ Contending(k.athletes) => winner = Verdict(k.athletes, scores)
    PROVE  Keyed' /\ PanelsFit' /\ RequestsFit' /\ WinnerFits'
<1>1. /\ rest = {} /\ rest' = {} /\ scores' = scores
      /\ \A e \in Desks : Shows(e) /\ cache[e] = scores /\ puts[e] = <<>>
  BY DEF Answered, Adopted
<1>2. count \in Counts /\ count.saves \in Nat
  BY DEF RowsInv, DeskInv, TypeOK, Counts
<1>3. count'.saves = count.saves
  BY <1>2 DEF Pressed, Counts
<1>4. Keyed'
  BY <1>1, <1>2, <1>3, KeyedStays
<1>5. RequestsFit'
  BY <1>1 DEF RequestsFit
<1>6. PanelsFit' /\ WinnerFits'
  BY <1>1, BoardFits
<1> QED  BY <1>4, <1>5, <1>6

LEMMA SetAthleteRows ==
    ASSUME ~Hurried, RowsInv, NEW d \in Desks, NEW s \in Slots, SetAthlete(d, s)
    PROVE  Keyed' /\ PanelsFit' /\ RequestsFit' /\ WinnerFits'
<1>1. PICK a \in Athletes \ {desk[d].athletes[1], desk[d].athletes[2]} :
        /\ Answered /\ Adopted /\ Pressed("board", MaxBoard)
        /\ Commit(d, Placed(desk[d], s, a), cache[d], FALSE)
        /\ sel' = [match |-> desk[d].match, athletes |-> [desk[d].athletes EXCEPT ![s] = a]]
        /\ UNCHANGED <<scores, rest, winner>>
  BY DEF SetAthlete
<1>2. /\ desk[d] \in Recorder /\ SoundDesk(desk[d]) /\ Holds(desk[d], scores)
      /\ desk[d].athletes[1] # desk[d].athletes[2]
  BY DEF RowsInv, PanelsFit, DeskInv, TypeOK
<1> DEFINE k == Placed(desk[d], s, a)
<1>3. k \in Recorder
  BY <1>2, BoardTypes
<1>4. /\ k.match = desk[d].match /\ k.athletes = [desk[d].athletes EXCEPT ![s] = a]
      /\ Holds(k, scores) /\ ~Live(k)
  BY <1>2, PlacedFits
<1>5. desk[d].athletes = sel.athletes /\ desk[d].athletes \in [Slots -> Athletes]
  BY <1>1, <1>2 DEF Adopted, Shows, Recorder
<1> HIDE DEF k
<1>6. k.athletes[1] # k.athletes[2] /\ k.athletes # sel.athletes
  <2>1. k.athletes[s] = a /\ \A t \in Slots \ {s} : k.athletes[t] = sel.athletes[t]
    BY <1>4, <1>5
  <2>2. a # sel.athletes[1] /\ a # sel.athletes[2]
    BY <1>1, <1>5
  <2> QED  BY <1>2, <1>5, <2>1, <2>2 DEF Slots
<1>7. Commit(d, k, cache[d], FALSE) /\ sel' = [match |-> k.match, athletes |-> k.athletes]
  BY <1>1, <1>4 DEF k
<1> QED  BY <1>1, <1>3, <1>4, <1>6, <1>7, PressedBoardFits

LEMMA SwapRows ==
    ASSUME ~Hurried, RowsInv, NEW d \in Desks, Swap(d)
    PROVE  Keyed' /\ PanelsFit' /\ RequestsFit' /\ WinnerFits'
<1> DEFINE k == Swapped(desk[d])
           ours == desk[d].athletes
<1>1. /\ Answered /\ Adopted /\ Pressed("board", MaxBoard)
      /\ Commit(d, k, cache[d], FALSE)
      /\ sel' = [match |-> desk[d].match, athletes |-> Exchanged(ours)]
      /\ UNCHANGED <<scores, rest, winner>>
  BY DEF Swap
<1>2. /\ desk[d] \in Recorder /\ SoundDesk(desk[d]) /\ Holds(desk[d], scores) /\ scores \in Rows
      /\ ours[1] # ours[2] /\ ours \in [Slots -> Athletes]
  BY DEF RowsInv, PanelsFit, DeskInv, TypeOK, Recorder, Rows, RowOrNone
<1>3. k \in Recorder
  BY <1>2, BoardTypes
<1>4. /\ k.match = desk[d].match /\ k.athletes = Exchanged(ours)
      /\ \A s \in Slots : /\ k.athletes[s] = ours[OtherSlot(s)] /\ k.entry[s] = desk[d].entry[OtherSlot(s)]
                          /\ k.record[s] = desk[d].record[OtherSlot(s)]
  BY <1>2 DEF Swapped, Recorder, Exchanged
<1>5. OtherSlot(1) = 2 /\ OtherSlot(2) = 1 /\ Slots = {1, 2}
  BY DEF OtherSlot, Slots
<1>6. sel.athletes = ours /\ Shows(d) /\ \A e \in Desks : puts[e] = <<>>
  BY <1>1 DEF Adopted, Answered, Shows
<1> HIDE DEF k
<1>7. Holds(k, scores)
  BY <1>2, <1>4, <1>5 DEF Holds
<1>8. Live(k) => Live(desk[d])
  BY <1>4, <1>5 DEF Live
<1>9. k.athletes[1] # k.athletes[2] /\ k.athletes # sel.athletes
  BY <1>2, <1>4, <1>5, <1>6
<1>10. ASSUME Live(k), Contending(k.athletes)
       PROVE  winner = Verdict(k.athletes, scores)
  <2>1. Live(desk[d]) /\ Contending(sel.athletes)
    BY <1>4, <1>5, <1>6, <1>8, <1>10 DEF Contending
  <2>2. winner = Verdict(ours, scores)
    BY <1>6, <2>1 DEF RowsInv, WinnerFits
  <2>3. Both(ours, scores)
    BY <1>2, <2>1 DEF Live, Holds, Both
  <2> QED  BY <1>2, <1>4, <2>2, <2>3, VerdictSwaps
<1>11. sel' = [match |-> k.match, athletes |-> k.athletes]
  BY <1>1, <1>4
<1> QED  BY <1>1, <1>3, <1>7, <1>9, <1>10, <1>11, PressedBoardFits

LEMMA SelectRows ==
    ASSUME ~Hurried, RowsInv, NEW d \in Desks, SelectMatch(d)
    PROVE  Keyed' /\ PanelsFit' /\ RequestsFit' /\ WinnerFits'
<1> DEFINE k == Cleared(desk[d], sel.match + 1)
<1>1. /\ Answered /\ Adopted /\ Pressed("board", MaxBoard)
      /\ Commit(d, k, cache[d], FALSE)
      /\ sel' = [match |-> sel.match + 1, athletes |-> FirstPair]
      /\ UNCHANGED <<scores, rest, winner>>
  BY DEF SelectMatch
<1>2. desk[d] \in Recorder /\ SoundDesk(desk[d]) /\ sel.match \in Nat
  BY DEF RowsInv, DeskInv, TypeOK
<1>3. sel.match + 1 \in Nat /\ sel.match + 1 # sel.match
  BY <1>2
<1>4. k \in Recorder
  BY <1>2, <1>3, BoardTypes
<1>5. k.match = sel.match + 1 /\ k.athletes = FirstPair /\ Holds(k, scores) /\ ~Live(k)
  BY <1>2, <1>3, ClearedFits
<1> HIDE DEF k
<1>6. sel' = [match |-> k.match, athletes |-> k.athletes]
  BY <1>1, <1>5
<1> QED  BY <1>1, <1>3, <1>4, <1>5, <1>6, TwoContend, PressedBoardFits

\* A desk that follows the board.
LEMMA AdoptRows ==
    ASSUME RowsInv, NEW d \in Desks, Adopt(d)
    PROVE  Keyed' /\ PanelsFit' /\ RequestsFit' /\ WinnerFits'
<1> DEFINE k == IF desk[d].match = sel.match THEN desk[d] ELSE Cleared(desk[d], sel.match)
           one == IF k.athletes[1] # sel.athletes[1] THEN Placed(k, 1, sel.athletes[1]) ELSE k
           two == IF k.athletes[2] # sel.athletes[2] THEN Placed(one, 2, sel.athletes[2]) ELSE one
<1>1. /\ ~Shows(d) /\ Commit(d, two, cache[d], FALSE)
      /\ UNCHANGED <<sel, scores, rest, winner, count>>
  BY DEF Adopt
<1>2. /\ desk[d] \in Recorder /\ SoundDesk(desk[d]) /\ Holds(desk[d], scores) /\ cache[d] \in Rows
      /\ sel.match \in Nat /\ sel.athletes \in [Slots -> Athletes] /\ count.saves \in Nat
      /\ 1 \in Slots /\ 2 \in Slots /\ Slots = {1, 2}
  BY DEF RowsInv, PanelsFit, DeskInv, TypeOK, Rows, RowOrNone, Slots
<1>3. rest = {} /\ \A e \in Desks : cache[e] = scores
  BY <1>1 DEF RowsInv, PanelsFit
<1>4. /\ k \in Recorder /\ SoundDesk(k) /\ k.match = sel.match /\ Holds(k, scores)
      /\ Live(k) => k = desk[d] /\ desk[d].match = sel.match
  BY <1>2, BoardTypes, ClearedFits
<1> HIDE DEF k
<1>5. sel.athletes[1] \in Athletes /\ sel.athletes[2] \in Athletes
  BY <1>2
<1>6. /\ one \in Recorder /\ SoundDesk(one) /\ one.match = sel.match /\ Holds(one, scores)
      /\ one.athletes = [k.athletes EXCEPT ![1] = sel.athletes[1]]
      /\ Live(one) => one = k
  <2>1. CASE k.athletes[1] # sel.athletes[1]
    <3>1. one = Placed(k, 1, sel.athletes[1])
      BY <2>1
    <3> HIDE DEF one
    <3> QED  BY <1>2, <1>4, <1>5, <3>1, BoardTypes, PlacedFits
  <2>2. CASE k.athletes[1] = sel.athletes[1]
    <3>1. one = k
      BY <2>2
    <3>2. k.athletes = [k.athletes EXCEPT ![1] = sel.athletes[1]]
      BY <1>4, <2>2 DEF Recorder
    <3> HIDE DEF one
    <3> QED  BY <1>4, <3>1, <3>2
  <2> QED  BY <2>1, <2>2
<1> HIDE DEF one
<1>7. /\ two \in Recorder /\ two.match = sel.match /\ Holds(two, scores)
      /\ two.athletes = [one.athletes EXCEPT ![2] = sel.athletes[2]]
      /\ Live(two) => two = one
  <2>1. CASE k.athletes[2] # sel.athletes[2]
    <3>1. two = Placed(one, 2, sel.athletes[2])
      BY <2>1
    <3> HIDE DEF two
    <3> QED  BY <1>2, <1>5, <1>6, <3>1, BoardTypes, PlacedFits
  <2>2. CASE k.athletes[2] = sel.athletes[2]
    <3>1. two = one
      BY <2>2
    <3>2. one.athletes[2] = sel.athletes[2]
      BY <1>2, <1>4, <1>6, <2>2 DEF Recorder
    <3>3. one.athletes = [one.athletes EXCEPT ![2] = sel.athletes[2]]
      BY <1>6, <3>2 DEF Recorder
    <3> HIDE DEF two
    <3> QED  BY <1>6, <3>1, <3>3
  <2> QED  BY <2>1, <2>2
<1> HIDE DEF two
<1>8. two.athletes = sel.athletes
  <2>1. two.athletes[1] = sel.athletes[1] /\ two.athletes[2] = sel.athletes[2]
    BY <1>2, <1>4, <1>6, <1>7 DEF Recorder
  <2>2. two.athletes \in [Slots -> Athletes]
    BY <1>7 DEF Recorder
  <2> QED  BY <1>2, <2>1, <2>2
<1>9. ~Live(two)
  <2> SUFFICES ASSUME Live(two) PROVE FALSE
    OBVIOUS
  <2>1. two = desk[d] /\ desk[d].match = sel.match
    BY <1>4, <1>6, <1>7
  <2> QED  BY <1>1, <1>8, <2>1 DEF Shows
<1>10. PanelsFit' /\ WinnerFits'
  <2> DEFINE queued == FALSE
  <2>1. Commit(d, two, cache[d], queued) /\ queued \in BOOLEAN
    BY <1>1
  <2>2. rest' = {} /\ cache[d] = scores
    BY <1>1, <1>3
  <2> HIDE DEF queued
  <2> QED  BY <1>1, <1>2, <1>7, <1>8, <1>9, <2>1, <2>2, CommitFits
<1>11. Keyed' /\ RequestsFit'
  BY <1>1, <1>2, KeyedStays, RequestsLeft
<1> QED  BY <1>10, <1>11

-----------------------------------------------------------------------------
(* The server's step.                                                      *)

\* What a landed request leaves of the others' rows: all of them but the one it moves.
Lands(x, a) ==
    /\ scores'[a] # NoRecord /\ scores'[a].athlete = a
    /\ scores[a] # NoRecord => scores'[a] = scores[a]
    /\ scores'[a] = scores[a] \/ scores'[a] = x.record
    /\ \A c \in Athletes \ {a} :
         scores'[c] = scores[c] \/ (scores'[c] = NoRecord /\ x.move /\ scores[c].id = x.nr /\ ~OnBoard(c))

\* A POST brings the athlete's row, or repeats it.
LEMMA PostLands ==
    ASSUME RowsInv, NEW x \in rest, ~x.move, x.stage = "sent", scores' = Written(x), count' = count,
           NEW a \in Athletes, x.record.athlete = a
    PROVE  Lands(x, a) /\ Keyed'
<1>1. /\ x.record \in Record /\ scores \in [Athletes -> Record \union {NoRecord}] /\ Keyed /\ PostFits(x)
      /\ count.saves \in Nat
  BY DEF RowsInv, DeskInv, TypeOK, Request, RequestsFit
<1>2. x.record # NoRecord /\ NoRecord.id = 0
  BY <1>1, AthletesAssumption DEF Record, NoRecord, Nobody
<1>3. scores' = [scores EXCEPT ![a] = [x.record EXCEPT !.id = IF scores[a] = NoRecord THEN @
                                                                ELSE scores[a].id]]
  BY DEF Written
<1>4. CASE scores[a] = NoRecord
  <2>1. scores' = [scores EXCEPT ![a] = x.record]
    <3>1. [x.record EXCEPT !.id = x.record.id] = x.record
      BY <1>1 DEF Record
    <3> QED  BY <1>3, <1>4, <3>1
  <2>2. scores'[a] = x.record /\ \A c \in Athletes \ {a} : scores'[c] = scores[c]
    BY <1>1, <2>1
  <2>3. x.record.id = x.nr /\ x.nr \in 1..count.saves /\ \A c \in Athletes : scores[c].id # x.nr
    BY <1>1 DEF PostFits
  <2> QED  BY <1>1, <1>2, <1>4, <2>2, <2>3 DEF Lands, Keyed
<1>5. CASE scores[a] # NoRecord
  <2>1. scores[a] \in Record /\ scores[a].athlete = a /\ scores[a].result = x.record.result
    BY <1>1, <1>5 DEF Keyed, PostFits
  <2>2. [x.record EXCEPT !.id = scores[a].id] = scores[a]
    BY <1>1, <2>1 DEF Record
  <2>3. scores' = scores
    BY <1>1, <1>3, <1>5, <2>2
  <2> QED  BY <1>1, <1>5, <2>1, <2>3 DEF Lands, Keyed
<1> QED  BY <1>4, <1>5

\* A move takes its row off the athlete who left the board.
LEMMA MoveLands ==
    ASSUME RowsInv, NEW x \in rest, x.move, x.stage = "sent", Accepts(x), scores' = Written(x),
           count' = count,
           NEW a \in Athletes, x.record.athlete = a, OnBoard(a)
    PROVE  Lands(x, a) /\ Keyed'
<1>1. /\ x.record \in Record /\ scores \in [Athletes -> Record \union {NoRecord}] /\ Keyed /\ MoveFits(x)
  BY DEF RowsInv, DeskInv, TypeOK, Request, RequestsFit
<1>2. x.record # NoRecord
  BY <1>1, AthletesAssumption DEF Record, NoRecord, Nobody
<1>3. PICK b \in Athletes : ~OnBoard(b) /\ scores[b] = [x.record EXCEPT !.athlete = b]
  BY <1>1 DEF MoveFits
<1>4. /\ scores[b].id = x.record.id /\ scores[b] # NoRecord /\ x.record.id = x.nr
      /\ a # b /\ x.record.id \in 1..count.saves
  <2>1. scores[b].id = x.record.id /\ scores[b].athlete = b
    BY <1>1, <1>3 DEF Record
  <2>2. b # 0
    BY AthletesAssumption
  <2>3. scores[b] # NoRecord
    BY <2>1, <2>2 DEF NoRecord, Nobody
  <2> QED  BY <1>1, <1>3, <2>1, <2>3 DEF MoveFits, Keyed
<1>5. \A c \in Athletes : scores[c].id = x.record.id => c = b
  BY <1>1, <1>4 DEF Keyed
<1>6. scores[a] = NoRecord
  <2>1. scores[a].id \in {NoRecord.id, x.record.id}
    BY DEF Accepts
  <2>2. scores[a].id = 0
    BY <1>4, <1>5, <2>1 DEF NoRecord
  <2>3. 0 \notin 1..count.saves
    BY DEF RowsInv, DeskInv, TypeOK
  <2> QED  BY <1>1, <2>2, <2>3 DEF Keyed
<1>7. scores' = [c \in Athletes |-> IF c = a THEN x.record ELSE IF c = b THEN NoRecord ELSE scores[c]]
  <2>1. \A c \in Athletes : c \in {e \in Athletes : scores[e].id = x.record.id} <=> c = b
    BY <1>4, <1>5
  <2> QED  BY <2>1 DEF Written
<1>8. /\ scores'[a] = x.record /\ scores'[b] = NoRecord
      /\ \A c \in Athletes \ {a, b} : scores'[c] = scores[c]
  BY <1>4, <1>7
<1>9. Lands(x, a)
  BY <1>2, <1>3, <1>4, <1>6, <1>8 DEF Lands
<1>10. Keyed'
  <2>1. \A c \in Athletes : scores'[c] # NoRecord =>
          \/ c = a /\ scores'[c] = x.record
          \/ c # a /\ c # b /\ scores'[c] = scores[c] /\ scores[c].id # x.record.id
    BY <1>4, <1>5, <1>8
  <2>2. \A c \in Athletes : scores'[c] # NoRecord => scores'[c].athlete = c /\ scores'[c].id \in 1..count'.saves
    BY <1>1, <1>4, <2>1 DEF Keyed
  <2>3. \A c \in Athletes : scores'[c] = NoRecord => scores'[c].id = 0
    BY DEF NoRecord
  <2>4. 0 \notin 1..count'.saves
    BY DEF RowsInv, DeskInv, TypeOK
  <2>5. ASSUME NEW c \in Athletes, NEW e \in Athletes, scores'[c] # NoRecord, scores'[c].id = scores'[e].id
        PROVE  c = e
    <3>1. scores'[e] # NoRecord
      BY <2>2, <2>3, <2>4, <2>5
    <3> QED  BY <1>1, <2>1, <2>5, <3>1 DEF Keyed
  <2> QED  BY <2>2, <2>5 DEF Keyed
<1> QED  BY <1>9, <1>10

\* What lands says nothing new of a row that was there.
LEMMA LandRows ==
    ASSUME RowsInv, NEW x \in rest, Land(x)
    PROVE  Keyed' /\ PanelsFit' /\ RequestsFit' /\ WinnerFits'
<1> PICK a : a = x.record.athlete
  OBVIOUS
<1> PICK b : b = scores'[a]
  OBVIOUS
<1> DEFINE landed == [x EXCEPT !.stage = "landed", !.record = b]
<1> PICK y : y = landed
  OBVIOUS
<1>1. /\ x.stage = "sent" /\ Accepts(x) /\ scores' = Written(x)
      /\ sel' = sel /\ desk' = desk /\ cache' = cache /\ puts' = puts /\ winner' = winner /\ count' = count
      /\ rest' = (rest \ {x}) \union {y}
  BY DEF Land
<1>2. /\ x \in Request /\ x.move \in BOOLEAN /\ a \in Athletes /\ x.slot \in Slots
      /\ RequestsFit /\ PanelsFit /\ WinnerFits /\ \A z \in rest : z \in Request
      /\ sel.athletes \in [Slots -> Athletes] /\ desk \in [Desks -> Recorder]
  BY DEF RowsInv, DeskInv, TypeOK, Request, Record
<1>3. a = sel.athletes[x.slot] /\ OnBoard(a)
  BY <1>2 DEF RequestsFit, OnBoard
<1>4. Lands(x, a) /\ Keyed'
  BY <1>1, <1>2, <1>3, PostLands, MoveLands
<1>5. y.slot = x.slot /\ y.stage = "landed" /\ y.record = b
  BY <1>2 DEF Request
<1> HIDE DEF landed
<1>6. \A s \in Slots : scores[sel.athletes[s]] # NoRecord => scores'[sel.athletes[s]] = scores[sel.athletes[s]]
  BY <1>2, <1>4 DEF Lands, OnBoard
<1>7. \A d \in Desks : Shows(d)
  BY AskedShow
<1>8. PanelsFit'
  <2>1. ASSUME NEW d \in Desks
        PROVE  Holds(desk[d], scores') /\ Lags(cache[d], scores', sel.athletes)
    <3>1. desk[d].athletes = sel.athletes /\ Holds(desk[d], scores) /\ Lags(cache[d], scores, sel.athletes)
      BY <1>2, <1>7 DEF PanelsFit, Shows
    <3> QED  BY <1>6, <3>1 DEF Holds, Lags
  <2>2. \A d \in Desks : desk'[d].match = sel'.match /\ desk'[d].athletes = sel'.athletes
    BY <1>1, <1>7 DEF Shows
  <2> QED  BY <1>1, <1>2, <2>1, <2>2 DEF PanelsFit, Shows
<1>9. WinnerFits'
  <2>1. ASSUME Both(sel.athletes, scores)
        PROVE  Both(sel.athletes, scores') /\ Verdict(sel.athletes, scores') = Verdict(sel.athletes, scores)
    <3>1. \A s \in Slots : scores'[sel.athletes[s]] = scores[sel.athletes[s]]
      BY <1>6, <2>1 DEF Both
    <3>2. [s \in Slots |-> scores'[sel.athletes[s]].result] = [s \in Slots |-> scores[sel.athletes[s]].result]
      BY <3>1
    <3> QED  BY <2>1, <3>1, <3>2 DEF Both, Verdict
  <2>2. \A d \in Desks : Live(desk[d]) => Both(sel.athletes, scores)
    BY <1>2, <1>7 DEF PanelsFit, Shows, Holds, Live, Both
  <2>3. \A d \in Desks : \A i \in DOMAIN puts[d] :
          Both(sel.athletes, scores') /\ puts[d][i] = Verdict(sel.athletes, scores')
    BY <1>2, <2>1 DEF WinnerFits
  <2>4. Contending(sel.athletes) => \A d \in Desks : Live(desk[d]) =>
          winner = Verdict(sel.athletes, scores') \/ \E e \in Desks : puts[e] # <<>>
    BY <1>2, <1>7, <2>1, <2>2 DEF WinnerFits
  <2> QED  BY <1>1, <2>3, <2>4 DEF WinnerFits
<1>10. RequestsFit'
  <2>1. ASSUME NEW z \in rest \ {x}
        PROVE  /\ z.record.athlete = sel.athletes[z.slot] /\ z.record.athlete \in Athletes \ {a}
               /\ scores'[z.record.athlete] = scores[z.record.athlete]
               /\ z.slot \in Slots /\ z.slot # x.slot /\ z.move \in BOOLEAN
    <3>1. z.record.athlete = sel.athletes[z.slot] /\ z.slot # x.slot /\ z.slot \in Slots /\ z.move \in BOOLEAN
      BY <1>2, <2>1 DEF RequestsFit, Request
    <3>2. z.record.athlete \in Athletes \ {a} /\ OnBoard(z.record.athlete)
      BY <1>2, <1>3, <3>1 DEF PanelsFit, Slots, OnBoard
    <3> QED  BY <1>4, <3>1, <3>2 DEF Lands
  <2>2. \A z \in rest' : z \in rest \ {x} \/ z = y
    BY <1>1
  <2>3. ASSUME NEW z \in rest', z.stage = "sent"
        PROVE  IF z.move THEN MoveFits(z)' ELSE PostFits(z)'
    <3>1. z \in rest /\ z # x /\ (IF z.move THEN MoveFits(z) ELSE PostFits(z))
      BY <1>2, <1>5, <2>2, <2>3 DEF RequestsFit
    <3>2. CASE z.move
      <4>1. PICK c \in Athletes : ~OnBoard(c) /\ scores[c] = [z.record EXCEPT !.athlete = c]
        BY <3>1, <3>2 DEF MoveFits
      <4>2. z.record.id = z.nr /\ scores[c].id = z.nr
        BY <1>2, <3>1, <3>2, <4>1 DEF MoveFits, Request, Record
      <4>3. x.move => x.nr # z.nr
        BY <1>1, <3>1, <3>2 DEF MoveFits
      <4>4. scores'[c] = scores[c]
        BY <1>3, <1>4, <4>1, <4>2, <4>3 DEF Lands
      <4>5. ~OnBoard(c)'
        BY <1>1, <4>1 DEF OnBoard
      <4>6. \A w \in rest' : w.move /\ w.stage = "sent" /\ w.nr = z.nr => w = z
        BY <1>5, <2>2, <3>1, <3>2 DEF MoveFits
      <4>7. MoveFits(z)'
        BY <1>1, <4>1, <4>2, <4>4, <4>5, <4>6 DEF MoveFits
      <4> QED  BY <3>2, <4>7
    <3>3. CASE ~z.move
      <4>1. PostFits(z)
        BY <3>1, <3>3
      <4>2. \A c \in Athletes : scores[c].id # z.nr
        BY <4>1 DEF PostFits
      <4>3. x.record.id # z.nr
        <5>1. CASE x.move
          <6>1. PICK c \in Athletes : scores[c] = [x.record EXCEPT !.athlete = c]
            BY <1>1, <1>2, <5>1 DEF RequestsFit, MoveFits
          <6>2. scores[c].id = x.record.id
            BY <1>2, <6>1 DEF Request, Record
          <6> QED  BY <4>2, <6>2
        <5>2. CASE ~x.move
          <6>1. x.record.id = x.nr
            BY <1>1, <1>2, <5>2 DEF RequestsFit, PostFits
          <6>2. x.nr # z.nr
            BY <1>1, <3>1, <4>1, <5>2 DEF PostFits
          <6> QED  BY <6>1, <6>2
        <5> QED  BY <5>1, <5>2
      <4>4. NoRecord.id # z.nr
        <5>1. z.nr \in 1..count.saves /\ count.saves \in Nat
          BY <4>1 DEF PostFits, RowsInv, DeskInv, TypeOK
        <5>2. NoRecord.id = 0
          BY DEF NoRecord
        <5> QED  BY <5>1, <5>2
      <4>5. \A c \in Athletes : scores'[c].id # z.nr
        BY <1>4, <4>2, <4>3, <4>4 DEF Lands
      <4>6. \A w \in rest' : ~w.move /\ w.stage = "sent" /\ w.nr = z.nr => w = z
        BY <1>5, <2>2, <4>1 DEF PostFits
      <4>7. scores'[z.record.athlete] # NoRecord => scores'[z.record.athlete].result = z.record.result
        BY <2>1, <3>1, <4>1 DEF PostFits
      <4>8. PostFits(z)'
        BY <1>1, <4>1, <4>5, <4>6, <4>7 DEF PostFits
      <4> QED  BY <3>3, <4>8
    <3> QED  BY <3>2, <3>3
  <2>4. y.record.athlete = a /\ y.record = scores'[a]
    BY <1>4, <1>5 DEF Lands
  <2>5. \A z \in rest' : z.record.athlete = sel.athletes[z.slot]
    BY <1>3, <1>5, <2>1, <2>2, <2>4
  <2>6. \A z, w \in rest' : z.slot = w.slot => z = w
    BY <1>2, <1>5, <2>1, <2>2 DEF RequestsFit
  <2>7. \A z \in rest' : z.stage # "sent" => z.record = scores'[z.record.athlete]
    BY <1>2, <2>1, <2>2, <2>4 DEF RequestsFit
  <2> QED  BY <1>1, <2>3, <2>5, <2>6, <2>7 DEF RequestsFit
<1> QED  BY <1>4, <1>8, <1>9, <1>10

-----------------------------------------------------------------------------
(* The invariant.                                                          *)

LEMMA RowsOpen == Init => RowsInv
<1> SUFFICES ASSUME Init PROVE RowsInv
  OBVIOUS
<1> DEFINE fresh == [FreshDesk EXCEPT !.seeded = FirstPair]
<1>1. /\ sel = [match |-> 0, athletes |-> FirstPair] /\ desk = [d \in Desks |-> fresh]
      /\ cache = [d \in Desks |-> NoRows] /\ scores = NoRows /\ rest = {}
      /\ puts = [d \in Desks |-> <<>>]
  BY DEF Init
<1>2. /\ fresh.match = 0 /\ fresh.athletes = FirstPair /\ fresh.seeded = FirstPair
      /\ \A s \in Slots : fresh.entry[s].status = "empty"
  BY DEF FreshDesk, EmptyEntry
<1>3. FirstPair \in [Slots -> Athletes] /\ FirstPair[1] # FirstPair[2]
  BY TwoContend
<1>4. \A a \in Athletes : NoRows[a] = NoRecord
  BY DEF NoRows
<1> HIDE DEF fresh
<1>5. Keyed
  BY <1>1, <1>4 DEF Keyed
<1>6. PanelsFit
  BY <1>1, <1>2, <1>3, <1>4 DEF PanelsFit, Shows, Rests, Holds, Lags
<1>7. RequestsFit
  BY <1>1 DEF RequestsFit
<1>8. WinnerFits
  <2>1. 1 \in Slots
    BY DEF Slots
  <2> QED  BY <1>1, <1>2, <2>1 DEF WinnerFits, Live
<1> QED  BY <1>5, <1>6, <1>7, <1>8, InitTyped DEF RowsInv

\* Unhurried, every step keeps the rows, the panels, the requests and the winners fit.
LEMMA RowsStep == ~Hurried /\ RowsInv /\ [Next]_vars => RowsInv'
<1> SUFFICES ASSUME ~Hurried, RowsInv, [Next]_vars PROVE RowsInv'
  OBVIOUS
<1> DEFINE Goal == Keyed' /\ PanelsFit' /\ RequestsFit' /\ WinnerFits'
<1>1. ASSUME NEW d \in Desks, Swap(d) PROVE Goal
  BY <1>1, SwapRows
<1>2. ASSUME NEW d \in Desks, SelectMatch(d) PROVE Goal
  BY <1>2, SelectRows
<1>3. ASSUME NEW d \in Desks, Adopt(d) PROVE Goal
  BY <1>3, AdoptRows
<1>4. ASSUME NEW d \in Desks, Refetch(d) PROVE Goal
  BY <1>4, RefetchRows
<1>5. ASSUME NEW d \in Desks, PutWinner(d) PROVE Goal
  BY <1>5, PutRows
<1>6. ASSUME NEW d \in Desks, NEW s \in Slots, Edit(d, s) PROVE Goal
  BY <1>6, EditRows
<1>7. ASSUME NEW d \in Desks, NEW s \in Slots, RecordScore(d, s) \/ RecordDnf(d, s) PROVE Goal
  BY <1>7, RecordRows
<1>8. ASSUME NEW d \in Desks, NEW s \in Slots, MoveScore(d, s) PROVE Goal
  BY <1>8, MoveRows
<1>9. ASSUME NEW d \in Desks, NEW s \in Slots, SetAthlete(d, s) PROVE Goal
  BY <1>9, SetAthleteRows
<1>10. ASSUME NEW x \in rest, Land(x) PROVE Goal
  BY <1>10, LandRows
<1>11. ASSUME NEW x \in rest, Reply(x) PROVE Goal
  BY <1>11, ReplyRows
<1>12. ASSUME NEW x \in rest, Refuse(x) PROVE Goal
  BY <1>12, RefuseRows
<1>13. ASSUME UNCHANGED vars PROVE Goal
  <2>1. /\ sel' = sel /\ desk' = desk /\ cache' = cache /\ scores' = scores /\ rest' = rest
        /\ puts' = puts /\ winner' = winner /\ count' = count
    BY <1>13 DEF vars
  <2>2. Keyed' /\ PanelsFit' /\ WinnerFits'
    BY <2>1 DEF RowsInv, Keyed, PanelsFit, WinnerFits, Shows
  <2>3. RequestsFit'
    BY <2>1, RequestsLeft
  <2> QED  BY <2>2, <2>3
<1>14. Goal
  BY <1>1, <1>2, <1>3, <1>4, <1>5, <1>6, <1>7, <1>8, <1>9, <1>10, <1>11, <1>12, <1>13 DEF Next
<1>15. DeskInv'
  BY StepTyped DEF RowsInv
<1> QED  BY <1>14, <1>15 DEF RowsInv

\* ... where nobody hurries.
FitsUnhurried == ~Hurried => RowsInv

LEMMA FitsOpen == Init => FitsUnhurried
BY RowsOpen DEF FitsUnhurried

LEMMA FitsStep == FitsUnhurried /\ [Next]_vars => FitsUnhurried'
<1>1. [Next]_vars => UNCHANGED pace
  BY DEF Next, vars
<1>2. UNCHANGED pace => (Hurried' <=> Hurried)
  BY DEF Hurried
<1> QED  BY <1>1, <1>2, RowsStep DEF FitsUnhurried

\* With unhurried operators a panel locked as saved shows, once everything is answered
\* and refetched, the row the server holds for its athlete: no refusal, lost answer,
\* retry, swap, move or other desk leaves a panel locked on a row that is gone or that
\* says something else.
THEOREM LockedPanelsShowTheRows == Spec => []SavedIsTheRow
<1>1. FitsUnhurried => SavedIsTheRow
  BY DEF FitsUnhurried, RowsInv, PanelsFit, Holds, SavedIsTheRow
<1> QED  BY FitsOpen, FitsStep, <1>1, PTL DEF Spec

\* ... and once both contenders' panels are locked on a desk that saved one of them,
\* the winner of the match is what the two rows resolve to, whichever desk saved which
\* and in whatever order the PUTs of the desks landed.
THEOREM WinnerIsTheRows == Spec => []WinnerFollowsScores
<1>1. FitsUnhurried => WinnerFollowsScores
  <2> SUFFICES ASSUME RowsInv, Quiet, NEW d \in Desks,
                      {desk[d].athletes[1], desk[d].athletes[2]} = {FirstPair[1], FirstPair[2]},
                      \A s \in Slots : desk[d].entry[s].status = "saved",
                      \E s \in Slots : desk[d].entry[s].live
               PROVE  winner = Verdict(desk[d].athletes, scores)
    BY DEF FitsUnhurried, WinnerFollowsScores, Verdict
  <2>1. Shows(d) /\ desk[d].athletes = sel.athletes /\ Live(desk[d]) /\ Contending(sel.athletes)
    BY DEF Quiet, Shows, Live, Contending
  <2>2. \A e \in Desks : puts[e] = <<>>
    BY DEF Quiet
  <2> QED  BY <2>1, <2>2 DEF RowsInv, WinnerFits
<1> QED  BY FitsOpen, FitsStep, <1>1, PTL DEF Spec

\* The rows of two athletes are two, and rows are as many as there were saves at most.
LEMMA TwoRows ==
    ASSUME RowsInv, NEW a \in Athletes, NEW b \in Athletes, a # b, scores[a] # NoRecord, scores[b] # NoRecord
    PROVE  Cardinality({c \in Athletes : scores[c] # NoRecord}) >= 2
<1> DEFINE scored == {c \in Athletes : scores[c] # NoRecord}
           nr == [c \in scored |-> scores[c].id]
           ids == 1..count.saves
<1>1. count.saves \in Nat /\ Keyed
  BY DEF RowsInv, DeskInv, TypeOK
<1>2. IsFiniteSet(ids)
  <2>1. 1 \in Int /\ count.saves \in Int
    BY <1>1
  <2> QED  BY <2>1, FS_Interval
<1>3. nr \in Injection(scored, ids)
  BY <1>1 DEF Keyed, Injection, IsInjective
<1> HIDE DEF nr, ids
<1>4. IsFiniteSet(scored)
  BY <1>2, <1>3, FS_Injection
<1>5. {a, b} \in SUBSET scored
  OBVIOUS
<1>6. IsFiniteSet({a}) /\ Cardinality({a}) = 1
  BY FS_Singleton
<1>7. {a, b} = {a} \cup {b} /\ b \notin {a}
  OBVIOUS
<1>8. Cardinality({a} \cup {b}) = Cardinality({a}) + 1
  BY <1>6, <1>7, FS_AddElement
<1> HIDE DEF scored
<1>9. Cardinality({a, b}) <= Cardinality(scored) /\ Cardinality(scored) \in Nat
  BY <1>4, <1>5, FS_Subset, FS_CardinalityType
<1>10. Cardinality(scored) >= 2
  BY <1>6, <1>7, <1>8, <1>9
<1> QED  BY <1>10 DEF scored

\* The winner is written off two persisted rows and nothing less: no PUT lands while a
\* contender's row is still in flight, was refused, or was moved away.
THEOREM WinnersNeedTwoRows == Spec => WinnerNeedsTwoRows
<1>1. FitsUnhurried /\ [Next]_vars => [~Hurried /\ winner' # winner =>
                                         Cardinality({a \in Athletes : scores[a] # NoRecord}) >= 2]_vars
  <2> SUFFICES ASSUME RowsInv, [Next]_vars, winner' # winner
               PROVE  Cardinality({a \in Athletes : scores[a] # NoRecord}) >= 2
    BY DEF FitsUnhurried
  <2>1. PICK d \in Desks : PutWinner(d)
    <3>1. \A d \in Desks : Swap(d) \/ SelectMatch(d) \/ Adopt(d) \/ Refetch(d) => winner' = winner
      BY DEF Swap, SelectMatch, Adopt, Refetch
    <3>2. \A d \in Desks, s \in Slots : Edit(d, s) \/ SetAthlete(d, s) => winner' = winner
      BY DEF Edit, SetAthlete
    <3>3. \A d \in Desks, s \in Slots : RecordScore(d, s) \/ RecordDnf(d, s) \/ MoveScore(d, s)
                                        => winner' = winner
      <4>1. \A d \in Desks, s \in Slots : \A result : Save(d, s, result) => winner' = winner
        BY DEF Save
      <4>2. \A d \in Desks, s \in Slots : MoveScore(d, s) => winner' = winner
        BY DEF MoveScore
      <4> QED  BY <4>1, <4>2, Zenon DEF RecordScore, RecordDnf
    <3>4. \A x \in rest : Land(x) \/ Reply(x) \/ Refuse(x) => winner' = winner
      BY DEF Land, Reply, Refuse
    <3> QED  BY <3>1, <3>2, <3>3, <3>4 DEF Next, vars
  <2>2. puts[d] \in Seq(Athletes \union {Nobody}) /\ puts[d] # <<>> /\ sel.athletes \in [Slots -> Athletes]
    BY <2>1 DEF PutWinner, RowsInv, DeskInv, TypeOK
  <2>3. 1 \in DOMAIN puts[d]
    BY <2>2
  <2>4. Both(sel.athletes, scores) /\ sel.athletes[1] # sel.athletes[2]
    BY <2>3 DEF RowsInv, WinnerFits, PanelsFit
  <2>5. 1 \in Slots /\ 2 \in Slots
    BY DEF Slots
  <2> QED  BY <2>2, <2>4, <2>5, TwoRows DEF Both
<1> QED  BY FitsOpen, FitsStep, <1>1, PTL DEF Spec, WinnerNeedsTwoRows
=============================================================================
