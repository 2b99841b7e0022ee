----------------------------- MODULE ScoreDesk -----------------------------
(***************************************************************************)
(* Freestyle scoring desks on one match (web/src/app/hooks/               *)
(* useScoreRecorder.tsx): each desk enters, saves and moves Scores, takes  *)
(* in what the other desks saved, and writes the Match winner that the two *)
(* persisted results resolve to.  The server keeps one Score per athlete   *)
(* of the round; replies are dispatched to the slot that asked.            *)
(*                                                                         *)
(* The mirrored selection is represented by the one claimed last, which    *)
(* every desk adopts in its own time (SelectionSync has the rest).         *)
(***************************************************************************)
EXTENDS ScoreEntry, FiniteSets, Sequences, TLC

CONSTANTS
    Desks,
    Judges,       \* per slot, the desks its scores are entered on
    Paces,        \* how the operators may work, see Pace
    MaxSaves, MaxMoves, MaxBoard,   \* bounds: presses on a panel, a move, the board
    MaxRefused,   \* bound: acceptable requests that fail
    Typed,        \* bound: the marks they type, by pace
    MaxAll        \* bound: all of these together, by pace

ASSUME DesksAssumption == Judges \in [Slots -> SUBSET Desks]
\* The patient let requests be answered before they press what those bear on; the
\* brisk press on while something is in flight, but wait for their own answers before
\* they swap the athletes; the hasty wait for nothing.
Pace == {"patient", "brisk", "hasty"}
ASSUME PacesAssumption == Paces \subseteq Pace

ASSUME BoundsAssumption ==
    /\ {MaxSaves, MaxMoves, MaxBoard, MaxRefused} \subseteq Nat
    /\ MaxAll \in [Paces -> Nat]
    /\ Typed \in [Paces -> SUBSET Marks]

\* A match has two contenders.
ASSUME ContendersAssumption == \E a, b \in Athletes : a < b

VARIABLES
    pace,      \* how the operators work, for good
    sel,       \* the selection claimed last: the picked match, the athletes
    desk,      \* the recorder of each desk
    cache,     \* useScores' data on each desk
    scores,    \* the Score rows of the server, by athlete
    rest,      \* POSTs and PUTs of Scores in flight
    puts,      \* the Match winners each desk has on the wire, in order
    winner,    \* Match.winnerId; Nobody while it has none
    count      \* the counters the bounds cap

vars == <<pace, sel, desk, cache, scores, rest, puts, winner, count>>

\* The contenders of the match.
FirstPair == CHOOSE pair \in [Slots -> Athletes] : pair[1] < pair[2]

FreshDesk ==
    [match |-> 0, athletes |-> FirstPair, entry |-> [s \in Slots |-> EmptyEntry],
     record |-> [s \in Slots |-> NoRecord], seeded |-> [s \in Slots |-> Nobody], moving |-> 0]

NoRows == [a \in Athletes |-> NoRecord]

\* The match was just picked, and nobody was scored yet.
Init ==
    /\ pace \in Paces
    /\ sel = [match |-> 0, athletes |-> FirstPair]
    /\ desk = [d \in Desks |-> [FreshDesk EXCEPT !.seeded = FirstPair]]
    /\ cache = [d \in Desks |-> NoRows]
    /\ scores = NoRows
    /\ rest = {}
    /\ puts = [d \in Desks |-> <<>>]
    /\ winner = Nobody
    /\ count = [saves |-> 0, moves |-> 0, board |-> 0, refused |-> 0]

-----------------------------------------------------------------------------
(* A desk's step: what it dispatched, then the seeding effect, then the    *)
(* winner write the dispatches and restores queued.                        *)

\* The slots the effect on (athletes, entries, rows) restores: once per athlete,
\* and again while the panel holds nothing.
Restorable(k, rows) ==
    {s \in Slots : k.athletes[s] # Nobody
                   /\ (k.seeded[s] # k.athletes[s] \/ AwaitsRestore(k.entry[s]))
                   /\ rows[k.athletes[s]] # NoRecord}

Seeded(k, rows) ==
    LET in == Restorable(k, rows)
    IN  [k EXCEPT
          !.seeded = k.athletes,
          !.entry = [s \in Slots |-> IF s \in in THEN Restored(rows[k.athletes[s]]) ELSE @[s]],
          !.record = [s \in Slots |-> IF s \in in THEN rows[k.athletes[s]] ELSE @[s]]]

\* A restore never queues the write.
MutRestoreResolves(k, rows) == FALSE

\* A restore queues the write only when the other panel is this desk's own save.
RestoreResolves(k, rows) ==
    \E s \in Restorable(k, rows) :
        LET sibling == Seeded(k, rows).entry[OtherSlot(s)]
        IN  sibling.status = "saved" /\ sibling.live

Commit(d, k, rows, resolves) ==
    LET seeded == Seeded(k, rows)
        put    == Resolve(seeded.athletes, seeded.entry)
    IN  /\ desk' = [desk EXCEPT ![d] = seeded]
        /\ cache' = [cache EXCEPT ![d] = rows]
        /\ puts' = IF (resolves \/ RestoreResolves(k, rows)) /\ put # Keep
                   THEN [puts EXCEPT ![d] = Append(@, put)] ELSE puts

Pressed(what, bound) ==
    /\ count[what] < bound
    /\ count.saves + count.moves + count.board + count.refused < MaxAll[pace]
    /\ count' = [count EXCEPT ![what] = @ + 1]

\* Unhurried operators let requests be answered before they change who is on the
\* board, and let the board change before they press anything else.
Hurried == pace # "patient"
Answered == Hurried \/ (rest = {} /\ \A d \in Desks : cache[d] = scores /\ puts[d] = <<>>)
Shows(d) == desk[d].match = sel.match /\ desk[d].athletes = sel.athletes
Adopted == Hurried \/ \A d \in Desks : Shows(d)

\* They move a row that still is where this desk saw it, under an athlete who left the
\* board (not one whom a mirrored swap put on the other side), and that nobody is moving.
Misfiled(d, s) ==
    LET r == desk[d].record[s]
    IN  Hurried \/ /\ r.athlete # desk[d].athletes[OtherSlot(s)]
                   /\ scores[r.athlete] = r
                   /\ \A x \in rest : x.move => x.nr # r.id

-----------------------------------------------------------------------------
(* The panels.                                                             *)

\* setField, setOverride
Edit(d, s) ==
    \E mark \in Marks :
        /\ d \in Judges[s] /\ Adopted /\ IsEntryOpen(desk[d].entry[s])
        /\ mark # desk[d].entry[s].draft /\ mark \in Typed[pace]
        /\ Commit(d, [desk[d] EXCEPT !.entry[s] = Edited(@, mark)], cache[d], FALSE)
        /\ UNCHANGED <<sel, scores, rest, winner, count>>

\* They score no athlete over, nor two of them one athlete at once, and retry a save
\* whose answer got lost as it was.
Unscored(a, result) ==
    /\ scores[a] = NoRecord \/ scores[a].result = result
    /\ \A x \in rest : x.record.athlete # a

\* save: the POST leaves with the athlete of the press, the reply names the slot.
Save(d, s, result) ==
    LET k == desk[d]
    IN  /\ d \in Judges[s] /\ Adopted
        /\ IsEntryOpen(k.entry[s]) /\ k.athletes[s] # Nobody
        /\ Hurried \/ (k.moving # s /\ Unscored(k.athletes[s], result))
        /\ Pressed("saves", MaxSaves)
        /\ Commit(d, [k EXCEPT !.entry[s] = Submitted(@, result)], cache[d], FALSE)
        /\ rest' = rest \union
             {[by |-> d, slot |-> s, nr |-> count.saves + 1, move |-> FALSE, stage |-> "sent",
               record |-> [id |-> count.saves + 1, athlete |-> k.athletes[s], result |-> result]]}
        /\ UNCHANGED <<sel, scores, winner>>

RetriesDnf(e) == e.status = "error" /\ e.result = Dnf

RecordScore(d, s) ==
    /\ HasDraft(desk[d].entry[s]) \/ desk[d].entry[s].status = "error"
    /\ ~RetriesDnf(desk[d].entry[s])
    /\ Save(d, s, desk[d].entry[s].draft)

RecordDnf(d, s) == Save(d, s, Dnf)

\* moveScore: the slot's row is re-filed under the athlete now on it; offered on a
\* blank panel.
MoveScore(d, s) ==
    LET k == desk[d]
    IN  /\ d \in Judges[s] /\ Adopted
        /\ k.record[s] # NoRecord /\ k.athletes[s] # Nobody
        /\ k.record[s].athlete # k.athletes[s] /\ k.moving # s
        /\ k.entry[s].status \notin {"pending", "error"} /\ ~HasDraft(k.entry[s])
        /\ Misfiled(d, s) /\ (Hurried \/ Unscored(k.athletes[s], k.record[s].result))
        /\ Pressed("moves", MaxMoves)
        /\ Commit(d, [k EXCEPT !.moving = s], cache[d], FALSE)
        /\ rest' = rest \union
             {[by |-> d, slot |-> s, nr |-> k.record[s].id, move |-> TRUE, stage |-> "sent",
               record |-> [k.record[s] EXCEPT !.athlete = k.athletes[s]]]}
        /\ UNCHANGED <<sel, scores, winner>>

-----------------------------------------------------------------------------
(* Who is on the board.                                                    *)

\* setAthlete: the panel is cleared, the row it wrote stays on the slot.
Placed(k, s, a) ==
    [k EXCEPT !.athletes[s] = a, !.seeded[s] = Nobody, !.entry[s] = EmptyEntry]

SetAthlete(d, s) ==
    \E a \in Athletes \ {desk[d].athletes[1], desk[d].athletes[2]} :
        /\ Answered /\ Adopted
        /\ Pressed("board", MaxBoard)
        /\ Commit(d, Placed(desk[d], s, a), cache[d], FALSE)
        /\ sel' = [match |-> desk[d].match, athletes |-> [desk[d].athletes EXCEPT ![s] = a]]
        /\ UNCHANGED <<scores, rest, winner>>

Exchanged(f) == [s \in Slots |-> f[OtherSlot(s)]]

\* The recorded rows stay behind.
MutSwapped(k) ==
    [k EXCEPT !.athletes = Exchanged(@), !.seeded = Exchanged(@), !.entry = Exchanged(@)]

Swapped(k) ==
    [k EXCEPT !.athletes = Exchanged(@), !.seeded = Exchanged(@),
              !.entry = Exchanged(@), !.record = Exchanged(@)]

\* swapAthletes
Swap(d) ==
    /\ Answered /\ Adopted /\ (pace = "hasty" \/ \A x \in rest : x.by # d)
    /\ \A s \in Slots : desk[d].athletes[s] # Nobody
    /\ Pressed("board", MaxBoard)
    /\ Commit(d, Swapped(desk[d]), cache[d], FALSE)
    /\ sel' = [match |-> desk[d].match, athletes |-> Exchanged(desk[d].athletes)]
    /\ UNCHANGED <<scores, rest, winner>>

\* A freshly picked match clears both panels.
Cleared(k, match) == [FreshDesk EXCEPT !.match = match, !.moving = k.moving]

\* The match is put away and picked again.
SelectMatch(d) ==
    /\ Answered /\ Adopted
    /\ Pressed("board", MaxBoard)
    /\ Commit(d, Cleared(desk[d], sel.match + 1), cache[d], FALSE)
    /\ sel' = [match |-> sel.match + 1, athletes |-> FirstPair]
    /\ UNCHANGED <<scores, rest, winner>>

\* applySelection: another match clears the panels; then a slot whose athlete
\* differs is set, and so cleared.
Adopt(d) ==
    LET k == IF desk[d].match = sel.match THEN desk[d] ELSE Cleared(desk[d], sel.match)
        one == IF k.athletes[1] # sel.athletes[1] THEN Placed(k, 1, sel.athletes[1]) ELSE k
        two == IF k.athletes[2] # sel.athletes[2] THEN Placed(one, 2, sel.athletes[2]) ELSE one
    IN  /\ ~Shows(d)
        /\ Commit(d, two, cache[d], FALSE)
        /\ UNCHANGED <<sel, scores, rest, winner, count>>

-----------------------------------------------------------------------------
(* The server and its replies.                                             *)

\* A POST upserts on the athlete and keeps the row's id; a move needs its row
\* where it was and the athlete's own place free.
Written(x) ==
    LET r == x.record
        held == {a \in Athletes : scores[a].id = r.id}
    IN  IF ~x.move
        THEN [scores EXCEPT ![r.athlete] = [r EXCEPT !.id = IF scores[r.athlete] = NoRecord
                                                            THEN @ ELSE scores[r.athlete].id]]
        ELSE [a \in Athletes |-> IF a = r.athlete THEN r
                                 ELSE IF a \in held THEN NoRecord ELSE scores[a]]

Accepts(x) ==
    x.move => /\ scores[x.record.athlete].id \in {NoRecord.id, x.record.id}
              /\ \E a \in Athletes : scores[a].id = x.record.id

Land(x) ==
    /\ x.stage = "sent" /\ Accepts(x)
    /\ scores' = Written(x)
    /\ rest' = (rest \ {x}) \union {[x EXCEPT !.stage = "landed", !.record = scores'[x.record.athlete]]}
    /\ UNCHANGED <<sel, desk, cache, puts, winner, count>>

\* useScores refetches: on db_update, and before the desk's own promise resolves.
Refetch(d) ==
    /\ cache[d] # scores \/ \E x \in rest : x.by = d /\ x.stage = "landed"
    /\ Commit(d, desk[d], scores, FALSE)
    /\ rest' = {IF x.by = d /\ x.stage = "landed" THEN [x EXCEPT !.stage = "seen"] ELSE x : x \in rest}
    /\ UNCHANGED <<sel, scores, winner, count>>

\* Only the latest request's callbacks are run.
MutReply(x) ==
    LET d == x.by
        s == x.slot
        k == desk[d]
        latest == \A y \in rest : y.by = d => y.nr <= x.nr
    IN  /\ x.stage = "seen"
        /\ rest' = rest \ {x}
        /\ IF latest /\ k.entry[s].status = "pending"
           THEN Commit(d, [k EXCEPT !.entry[s] = Saved(@, x.record), !.record[s] = x.record],
                       cache[d], TRUE)
           ELSE UNCHANGED <<desk, cache, puts>>
        /\ UNCHANGED <<sel, scores, winner, count>>

\* SAVED is taken by a panel that waits, MOVED by a slot that has a row.
Reply(x) ==
    LET d == x.by
        s == x.slot
        k == [desk[d] EXCEPT !.moving = IF x.move THEN 0 ELSE @]
        taken == IF x.move THEN k.record[s] # NoRecord ELSE k.entry[s].status = "pending"
        entry == IF x.move THEN Moved(x.record) ELSE Saved(k.entry[s], x.record)
    IN  /\ x.stage = "seen"
        /\ rest' = rest \ {x}
        /\ Commit(d, IF taken THEN [k EXCEPT !.entry[s] = entry, !.record[s] = x.record] ELSE k,
                  cache[d], taken)
        /\ UNCHANGED <<sel, scores, winner, count>>

\* The server refused the request, or the answer of one it took got lost.
Refuse(x) ==
    LET d == x.by
        k == desk[d]
    IN  /\ x.stage \in {"sent", "landed"}
        /\ IF x.stage = "landed" \/ Accepts(x) THEN Pressed("refused", MaxRefused) ELSE UNCHANGED count
        /\ rest' = rest \ {x}
        /\ Commit(d, IF x.move THEN [k EXCEPT !.moving = 0]
                     ELSE [k EXCEPT !.entry[x.slot] = Failed(@)], cache[d], FALSE)
        /\ UNCHANGED <<sel, scores, winner>>

\* The PUT of a Match winner lands; one that is no contender is rejected.
PutWinner(d) ==
    /\ puts[d] # <<>>
    /\ winner' = IF Head(puts[d]) \in {Nobody, FirstPair[1], FirstPair[2]}
                 THEN Head(puts[d]) ELSE winner
    /\ puts' = [puts EXCEPT ![d] = Tail(@)]
    /\ UNCHANGED <<sel, desk, cache, scores, rest, count>>

-----------------------------------------------------------------------------
Next ==
    /\ UNCHANGED pace
    /\ \/ \E d \in Desks :
            \/ Swap(d) \/ SelectMatch(d) \/ Adopt(d) \/ Refetch(d) \/ PutWinner(d)
            \/ \E s \in Slots :
                 Edit(d, s) \/ RecordScore(d, s) \/ RecordDnf(d, s) \/ MoveScore(d, s) \/ SetAthlete(d, s)
       \/ \E x \in rest : Land(x) \/ Reply(x) \/ Refuse(x)

Spec == Init /\ [][Next]_vars

-----------------------------------------------------------------------------
(* Properties.                                                             *)

Request ==
    [by : Desks, slot : Slots, nr : Nat, move : BOOLEAN, stage : {"sent", "landed", "seen"},
     record : Record]

Recorder ==
    [match : Nat, athletes : [Slots -> Athletes], entry : [Slots -> Entry],
     record : [Slots -> Record \union {NoRecord}], seeded : [Slots -> Athletes \union {Nobody}],
     moving : 0..2]

\* Type invariant: recorders, rows and requests keep their types; what is sent,
\* recorded or moved has a result, a retried DNF included: a blank panel is
\* nobody's judged zero.
TypeOK ==
    /\ pace \in Pace
    /\ sel \in [match : Nat, athletes : [Slots -> Athletes]]
    /\ desk \in [Desks -> Recorder]
    /\ cache \in [Desks -> [Athletes -> Record \union {NoRecord}]]
    /\ scores \in [Athletes -> Record \union {NoRecord}]
    /\ rest \subseteq Request
    /\ puts \in [Desks -> Seq(Athletes \union {Nobody})]
    /\ winner \in Athletes \union {Nobody}
    /\ count \in [saves : Nat, moves : Nat, board : Nat, refused : Nat]

Quiet ==
    /\ rest = {}
    /\ \A d \in Desks : puts[d] = <<>> /\ cache[d] = scores /\ Shows(d)

\* "An athlete change mid-flight must not lock a fresh entry over a stale response":
\* a panel locked as saved shows the row, and the result, of the athlete on it.
SavedIsOwn ==
    \A d \in Desks, s \in Slots :
        LET k == desk[d]
        IN  k.entry[s].status = "saved" =>
              k.record[s].athlete = k.athletes[s] /\ k.record[s].result = k.entry[s].result

\* Where nobody hurries, once everything is answered and refetched a locked panel shows
\* what the server holds, a restored one too: a lost answer, a retry, a swap or a move
\* leaves no panel on a row that is gone or says something else.
SavedIsTheRow ==
    ~Hurried /\ Quiet => \A d \in Desks, s \in Slots :
        desk[d].entry[s].status = "saved" => scores[desk[d].athletes[s]] = desk[d].record[s]

\* ... and once the contenders' two results are persisted and some desk saved one of
\* them, Match.winnerId is what the two rows resolve to, also when each was saved on
\* another desk, was refused first, or was moved to its athlete.
WinnerFollowsScores ==
    ~Hurried /\ Quiet => \A d \in Desks :
        LET k == desk[d]
        IN  /\ {k.athletes[1], k.athletes[2]} = {FirstPair[1], FirstPair[2]}
            /\ \A s \in Slots : k.entry[s].status = "saved"
            /\ \E s \in Slots : k.entry[s].live
            => winner = Winner(k.athletes, [s \in Slots |-> scores[k.athletes[s]].result])

\* The winner follows the saves rather than racing them: where nobody hurries it is
\* written only when two Scores are persisted, never off a POST in flight or one that failed.
WinnerNeedsTwoRows ==
    [][~Hurried /\ winner' # winner => Cardinality({a \in Athletes : scores[a] # NoRecord}) >= 2]_vars

\* A submitted panel waits for a request of its own: while saves are in flight, a save
\* of the other slot, a refusal, an athlete or a match picked here, any change of the
\* board mirrored from another desk, and a swap here once this desk's own saves are
\* answered, never strand one on "SAVING...".  (A swap during a desk's own save does:
\* the entry changes sides and the reply is dispatched to the side it left.)
PendingIsAsked ==
    pace # "hasty" => \A d \in Desks, s \in Slots :
        desk[d].entry[s].status = "pending" =>
            \E x \in rest : x.by = d /\ x.slot = s /\ ~x.move
=============================================================================
