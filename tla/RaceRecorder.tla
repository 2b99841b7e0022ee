---------------------------- MODULE RaceRecorder ----------------------------
(***************************************************************************)
(* The recorder of one Speedline panel (web/src/app/hooks/                 *)
(* useRaceRecorder.tsx) while a best-of-3 match is selected and both lanes *)
(* have an athlete.  A handler takes the panel's board and gives back the  *)
(* board it leaves and the writes it sends to the data plane.              *)
(*                                                                         *)
(* The move of a saved Time to another athlete, Reset series and the seed  *)
(* of a match picked half-way are left out.                                *)
(***************************************************************************)
EXTENDS Integers, FiniteSets

CONSTANTS
    Athletes,   \* the two athletes of the match
    Elapsed     \* the times a lane may be stopped at, counted from the GO

ASSUME AthletesAssumption ==
    Athletes \subseteq Nat \ {0} /\ IsFiniteSet(Athletes) /\ Cardinality(Athletes) = 2
ASSUME ElapsedAssumption == Elapsed \subseteq Nat \ {0}

Lanes == {1, 2}
Other(lane) == 3 - lane

Dnf == -1                       \* DNF_SENTINEL; 0 is no result yet
Result == Elapsed \union {Dnf}

\* A Time as it is posted; `post` is its timeId, and tells two POSTs apart.
Row == [post : Nat, run : Nat, athlete : Athletes, ms : Result]
NoRow == [post |-> 0, run |-> 0, athlete |-> 0, ms |-> 0]

\* laneFeedback: where the save stands, the row it holds, the body of a refused one.
NoChip == [status |-> "none", saved |-> NoRow, failed |-> NoRow]

SavedChip(row) == [NoChip EXCEPT !.status = "saved", !.saved = row]

Both(x) == [l \in Lanes |-> x]

-----------------------------------------------------------------------------
(* The best-of-3 (web/src/app/util/raceTime.ts).                           *)

\* The lane that won the run: the faster, or the only one that finished; 0 when
\* a result is missing, on a tie and when nobody finished.
RunWinningLane(result) ==
    IF result[1] = 0 \/ result[2] = 0 \/ result[1] = result[2] THEN 0
    ELSE IF result[2] = Dnf \/ (result[1] # Dnf /\ result[1] < result[2]) THEN 1 ELSE 2

AddRunWin(wins, athlete) == [wins EXCEPT ![athlete] = @ + 1]

RemoveRunWin(wins, athlete) ==
    IF athlete = 0 THEN wins
    ELSE [wins EXCEPT ![athlete] = IF @ > 0 THEN @ - 1 ELSE 0]

\* The athlete who clinched the series, or 0.
SeriesWinner(wins) ==
    IF \E a \in Athletes : wins[a] >= 2 THEN CHOOSE a \in Athletes : wins[a] >= 2 ELSE 0

-----------------------------------------------------------------------------
(* What a handler leaves behind.                                           *)

Keep == -1   \* the Match is not written; 0 clears its winner

\* posts and edits leave for the server, drops are deleted, put is the winner.
Done(board) == [board |-> board, posts |-> {}, edits |-> {}, drops |-> {}, put |-> Keep]

\* peerSaves: the lane's Time is the other panel's.  (The code unlocks the lane
\* once it saw that row go.)
PeerSave(b, lane) == b.peer[lane] /\ b.chip[lane] = NoChip

\* The Time a lane's chip holds: none, or one.
SavedRows(board, lanes) == {board.chip[l].saved : l \in lanes} \ {NoRow}

-----------------------------------------------------------------------------
(* False starts (web/src/app/util/falseStartRules.ts).                     *)

FlagFs(b, lane) == [b EXCEPT !.fs[lane] = IF @ = 2 THEN 2 ELSE @ + 1]
ClearFs(b, lane) == [b EXCEPT !.fs[lane] = 0]

ShouldRecordTime(b, lane) == b.fs[lane] < 2

\* An attempt that closed with an accepted result takes its counter along.
FsCountsAfterStart(b) == [l \in Lanes |-> IF b.closed[l] THEN 0 ELSE b.fs[l]]

\* deriveFsOutcome, of the consequences with a button: the lane whose second
\* false start forfeits the run to a clean opponent, or 0 ...
Offender(b) ==
    IF \E l \in Lanes : b.fs[l] = 2 /\ b.fs[Other(l)] = 0
    THEN CHOOSE l \in Lanes : b.fs[l] = 2 /\ b.fs[Other(l)] = 0 ELSE 0

\* ... and a rerun: both jumped, or the one who jumped won.
RerunAdvised(b) ==
    \/ \A l \in Lanes : b.fs[l] > 0
    \/ Offender(b) = 0 /\ \E l \in Lanes : b.fs[l] > 0 /\ b.runLane = l

-----------------------------------------------------------------------------
(* Run, results and tally.                                                 *)

\* A fresh run of the same series.
OnRaceStart(b, run) ==
    [b EXCEPT !.run = run, !.frozen = Both(0), !.result = Both(0), !.tallied = FALSE,
              !.chip = Both(NoChip), !.peer = Both(FALSE), !.decided = 0, !.credited = 0, !.runLane = 0,
              !.fs = FsCountsAfterStart(b), !.closed = Both(FALSE)]

\* A reset keeps the series, and the credit of the run it clears.
OnReset(b) ==
    [b EXCEPT !.run = 0, !.frozen = Both(0), !.result = Both(0), !.tallied = FALSE,
              !.chip = Both(NoChip), !.peer = Both(FALSE), !.decided = 0]

\* A local result, with the tally and the seats its handler closed over.  The run
\* is scored once, when both lanes have a result, to the athlete on the winning
\* lane; a clinched series is written to the Match.
RecordLaneResult(b, lane, result, closure) ==
    LET results  == [b.result EXCEPT ![lane] = result]
        resolves == ~b.tallied /\ \A l \in Lanes : results[l] # 0
        won      == RunWinningLane(results)
        scores   == resolves /\ won # 0
        credited == closure.seats[won]
        wins     == IF scores THEN AddRunWin(closure.wins, credited) ELSE closure.wins
        winner   == SeriesWinner(wins)
    IN  [Done([b EXCEPT !.result = results,
                        !.tallied = @ \/ resolves,
                        !.closed = IF resolves THEN Both(TRUE) ELSE @,
                        !.runLane = IF resolves THEN won ELSE @,
                        !.wins = IF scores THEN wins ELSE @,
                        !.credited = IF scores THEN credited ELSE @,
                        !.decided = IF winner # 0 THEN winner ELSE @])
         EXCEPT !.put = IF winner # 0 THEN winner ELSE Keep]

\* What a handler of this render reads.
Closure(b) == [wins |-> b.wins, seats |-> b.seats]

\* saveTime: the chip waits, and a POST leaves under the lane's generation.
SaveTime(b, lane, row) ==
    [Done([b EXCEPT !.chip[lane] = [NoChip EXCEPT !.status = "pending"], !.closed[lane] = TRUE])
     EXCEPT !.posts = {[lane |-> lane, gen |-> b.gen[lane], row |-> row]}]

\* A result that is posted and recorded.
Save(b, lane, row) ==
    LET saving == SaveTime(b, lane, row)
    IN  [RecordLaneResult(saving.board, lane, row.ms, Closure(b)) EXCEPT !.posts = saving.posts]

\* recordFinish: nothing for a lane that has its result already, and only the end
\* of the attempt for one that jumped twice.
RecordFinish(b, lane, row) ==
    IF b.result[lane] # 0 THEN Done(b)
    ELSE IF ~ShouldRecordTime(b, lane) THEN Done([b EXCEPT !.closed[lane] = TRUE])
    ELSE Save(b, lane, row)

\* editLaneTime: the row's PUT; the reply records the result anew.
EditLaneTime(b, lane, ms) ==
    LET saved == b.chip[lane].saved
    IN  [Done([b EXCEPT !.chip[lane] = [SavedChip(saved) EXCEPT !.status = "pending"]])
         EXCEPT !.edits = {[lane |-> lane, from |-> saved, row |-> [saved EXCEPT !.ms = ms],
                            closure |-> Closure(b)]}]

\* recordDnf: a lane that saved a Time has that row edited to the DNF.
RecordDnf(b, lane, row) ==
    IF b.result[lane] = Dnf THEN Done(b)
    ELSE IF b.chip[lane].saved = NoRow THEN Save(b, lane, row)
    ELSE LET marked == RecordLaneResult(b, lane, Dnf, Closure(b))
             edited == EditLaneTime(marked.board, lane, Dnf)
         IN  [edited EXCEPT !.put = marked.put]

\* A mirror that scores the run it is told of.
MutNotePeerFinish(b, lane, ms) == RecordLaneResult(b, lane, ms, Closure(b)).board

\* The mirror's half of a stop: noted, and never scored or written.
NotePeerFinish(b, lane, ms) ==
    LET results == [b.result EXCEPT ![lane] = ms]
        done    == \A l \in Lanes : results[l] # 0
    IN  [b EXCEPT !.result = results, !.tallied = @ \/ done,
                  !.peer[lane] = @ \/ ShouldRecordTime(b, lane),
                  !.closed = [l \in Lanes |-> done \/ l = lane \/ b.closed[l]]]

-----------------------------------------------------------------------------
(* Taking a result back.                                                   *)

\* The undo by lane: it takes the win from whoever stands there now.
MutUncredited(b) ==
    [b EXCEPT !.wins = IF b.runLane = 0 THEN @ ELSE RemoveRunWin(@, b.seats[b.runLane]),
              !.credited = 0, !.runLane = 0]

\* The tally after the run's credit is undone, against the credited athlete.
Uncredited(b) ==
    [b EXCEPT !.wins = RemoveRunWin(@, b.credited), !.credited = 0, !.runLane = 0]

\* withdrawLaneResult.  The generation bump orphans a POST still in flight.
WithdrawLaneResult(b, lane) ==
    LET opened == [b EXCEPT !.gen[lane] = @ + 1, !.result[lane] = 0, !.chip[lane] = NoChip,
                            !.peer[lane] = FALSE, !.closed[lane] = FALSE]
    IN  IF b.tallied THEN [Uncredited(opened) EXCEPT !.tallied = FALSE] ELSE opened

\* A Match that keeps its winner.
MutReopened(b) == Keep

\* The winner comes back off the Match when the series is open again.
Reopened(b) == IF b.decided # 0 /\ SeriesWinner(b.wins) = 0 THEN 0 ELSE Keep

\* resumeLane: the operator's own undo of a stop.
ResumeLane(b, lane) ==
    LET left == WithdrawLaneResult(b, lane)
        open == SeriesWinner(left.wins) = 0
    IN  [Done([left EXCEPT !.decided = IF open THEN 0 ELSE @])
         EXCEPT !.drops = SavedRows(b, {lane}), !.put = Reopened(left)]

\* A mirror that never deletes.
MutNotePeerResume(b, lane) == Done(WithdrawLaneResult(b, lane))

\* notePeerResume: the holder of the row deletes it, and nothing else is written.
NotePeerResume(b, lane) ==
    [Done(WithdrawLaneResult(b, lane)) EXCEPT !.drops = SavedRows(b, {lane})]

\* voidRun: the Times this panel saved are deleted and the credit undone.
VoidRun(b) ==
    LET left == Uncredited(b)
    IN  [Done([left EXCEPT !.result = Both(0), !.tallied = FALSE, !.chip = Both(NoChip),
                           !.peer = Both(FALSE), !.decided = 0, !.closed = Both(FALSE)])
         EXCEPT !.drops = SavedRows(b, Lanes), !.put = Reopened(left)]

\* awardRunTo: the run's Times and credit go, and the opponent of a double false
\* start is credited; a winner the undone credit had clinched stays on the Match.
AwardRunTo(b, lane) ==
    LET to     == b.seats[lane]
        wins   == AddRunWin(Uncredited(b).wins, to)
        winner == SeriesWinner(wins)
    IN  [Done([b EXCEPT !.wins = wins, !.credited = to, !.runLane = lane, !.fs = Both(0),
                        !.closed = Both(TRUE), !.result = Both(0), !.tallied = FALSE,
                        !.chip = Both(NoChip), !.peer = Both(FALSE), !.decided = winner])
         EXCEPT !.drops = SavedRows(b, Lanes), !.put = IF winner = 0 THEN Keep ELSE winner]

-----------------------------------------------------------------------------
(* Sides, replies and the mirrored selection.                              *)

\* swapLanes: what belongs to an athlete rides along, the clocks stay.
SwapLanes(b) ==
    LET Exchanged(f) == [l \in Lanes |-> f[Other(l)]]
    IN  [b EXCEPT !.seats = Exchanged(@), !.result = Exchanged(@), !.chip = Exchanged(@),
                  !.peer = Exchanged(@), !.fs = Exchanged(@), !.closed = Exchanged(@)]

\* A reply that forgets the generation it was sent under.
MutSaved(b, lane, gen, row) == Done([b EXCEPT !.chip[lane] = SavedChip(row)])

\* The POST's reply: a withdrawn lane deletes the row the reply brings.
Saved(b, lane, gen, row) ==
    IF gen # b.gen[lane] THEN [Done(b) EXCEPT !.drops = {row}]
    ELSE Done([b EXCEPT !.chip[lane] = SavedChip(row)])

\* The POST is rejected: the lane offers a retry, unless it was withdrawn.
Refused(b, lane, gen, row) ==
    IF gen # b.gen[lane] THEN Done(b)
    ELSE Done([b EXCEPT !.chip[lane] = [NoChip EXCEPT !.status = "error", !.failed = row]])

\* The PUT's reply is not asked for its generation; a refused one keeps the row.
Corrected(b, lane, row, closure) ==
    RecordLaneResult([b EXCEPT !.chip[lane] = SavedChip(row)], lane, row.ms, closure)

NotCorrected(b, lane, from) ==
    Done([b EXCEPT !.chip[lane] = [SavedChip(from) EXCEPT !.status = "error"]])

\* retrySave: the same body again, under a generation of its own.
RetrySave(b, lane, post) ==
    SaveTime([b EXCEPT !.gen[lane] = @ + 1], lane, [b.chip[lane].failed EXCEPT !.post = post])

\* laneRunWins: the tally as the wire carries it, by lane.
LaneRunWins(wins, seats) == [l \in Lanes |-> wins[seats[l]]]

\* applySelection: the wire's lane view is keyed by athlete again, and an equal
\* view changes nothing.
ApplySelection(b, view) ==
    LET wins == IF LaneRunWins(b.wins, view.seats) = view.wins THEN b.wins
                ELSE [a \in Athletes |-> IF view.seats[1] = a THEN view.wins[1] ELSE view.wins[2]]
    IN  [b EXCEPT !.seats = view.seats, !.wins = wins, !.fs = view.fs]
=============================================================================
