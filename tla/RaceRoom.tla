------------------------------ MODULE RaceRoom ------------------------------
(***************************************************************************)
(* Two or more Speedline panels on one race (web/src/app/pages/Speedline/  *)
(* ControlPage.tsx and the recorder under it): every panel runs its own    *)
(* clocks and its own recorder, follows the others' start, stop, resume    *)
(* and reset, and shares the best-of-3 through the mirrored selection,     *)
(* whose stamps are those of SelectionLww.  Times are posted by the panel  *)
(* whose lane was stopped, and a reply may come late.                      *)
(*                                                                         *)
(* Every panel is on the link throughout and its pushes leave with the     *)
(* press that caused them: SelectionSync has the rest of that protocol.    *)
(***************************************************************************)
EXTENDS RaceRecorder, SelectionLww

CONSTANTS
    Judges,       \* per lane, the panels its stop button or buzzer is on
    MaxRuns,      \* bound: starts
    MaxResets, MaxResumes, MaxVoids, MaxSwaps,   \* bounds: operator presses,
    MaxFlags, MaxAwards, MaxDnfs, MaxEdits,      \* ... on false starts and saved Times
    MaxRefused,   \* bound: requests the server rejects
    MaxAll,       \* bound: all of these together
    PromptServer  \* requests are answered before an operator does what needs the answer

ASSUME JudgesAssumption == Judges \in [Lanes -> SUBSET Panels]
ASSUME RaceBoundsAssumption ==
    {MaxRuns, MaxResets, MaxResumes, MaxVoids, MaxSwaps, MaxFlags, MaxAwards, MaxDnfs,
     MaxEdits, MaxRefused, MaxAll} \subseteq Nat
ASSUME PromptServerAssumption == PromptServer \in BOOLEAN

VARIABLES
    board,    \* the board of each panel
    stamp,    \* selectionStampRef of each panel
    net,      \* frames in flight, one copy per recipient
    rest,     \* POSTs and PUTs of Times in flight
    times,    \* the Times the server holds
    winner,   \* Match.winnerId; 0 while it has none
    ledger,   \* history: the athlete each run was credited to, 0 when undone
    count     \* the counters the bounds cap

vars == <<board, stamp, net, rest, times, winner, ledger, count>>

FirstSeats == CHOOSE s \in [Lanes -> Athletes] : s[1] # s[2]

\* run       raceStartTime and the start of both clocks; 0 before a start
\* frozen    the elapsed time a clock shows stopped at; 0 while it runs
\* result    laneResults           tallied   runTallied
\* wins      seriesWins            credited  lastRunWinnerId
\* runLane   lastRunLane           decided   derivedWinner
\* fs        fsCounts              closed    attemptClosed
\* gen       saveGeneration        peer      peerRuns: a Time another panel saves
FreshBoard ==
    [run |-> 0, frozen |-> Both(0), seats |-> FirstSeats, result |-> Both(0),
     tallied |-> FALSE, wins |-> [a \in Athletes |-> 0], credited |-> 0, runLane |-> 0,
     decided |-> 0, fs |-> Both(0), closed |-> Both(FALSE), peer |-> Both(FALSE),
     chip |-> Both(NoChip), gen |-> Both(0)]

NoCount ==
    [runs |-> 0, resets |-> 0, resumes |-> 0, voids |-> 0, swaps |-> 0, flags |-> 0,
     awards |-> 0, dnfs |-> 0, edits |-> 0, refused |-> 0, all |-> 0, posts |-> 0,
     belated |-> 0]

\* The panels of a match that was just picked.
Init ==
    /\ board = [p \in Panels |-> FreshBoard]
    /\ stamp = [p \in Panels |-> InitialStamp]
    /\ net = {} /\ rest = {} /\ times = {}
    /\ winner = 0
    /\ ledger = [r \in 1..MaxRuns |-> 0]
    /\ count = NoCount

-----------------------------------------------------------------------------
(* Frames.                                                                 *)

StartFrame(run) == [kind |-> "start", run |-> run]
StopFrame(lane, ms) == [kind |-> "stop", lane |-> lane, ms |-> ms]
\* The other lane's frame.
MutResumeFrame(lane) == [kind |-> "resume", lane |-> Other(lane)]
ResumeFrame(lane) == [kind |-> "resume", lane |-> lane]
ResetFrame == [kind |-> "reset"]

\* The part of the selection a race moves, as the wire carries it.
View(b) == [seats |-> b.seats, wins |-> LaneRunWins(b.wins, b.seats), fs |-> b.fs]
SelectionFrame(s, b) == [kind |-> "selection", stamp |-> s, view |-> View(b)]

Fanout(p, frames) == {[to |-> q, frame |-> f] : q \in Panels \ {p}, f \in frames}

-----------------------------------------------------------------------------
(* A panel takes a step: its board moves, its writes leave.  A DELETE, or  *)
(* the PUT of the Match, lands at once; a POST or the PUT of a Time lands  *)
(* when its reply does.                                                    *)

Posted(p, x) == [by |-> p, edit |-> FALSE, lane |-> x.lane, gen |-> x.gen, row |-> x.row]
Put(p, x) ==
    [by |-> p, edit |-> TRUE, lane |-> x.lane, from |-> x.from, row |-> x.row,
     closure |-> x.closure]

Without(rows, drops) == {x \in rows : \A y \in drops : x.post # y.post}

Commit(p, done) ==
    /\ board' = [board EXCEPT ![p] = done.board]
    /\ rest' = rest \union {Posted(p, x) : x \in done.posts} \union {Put(p, x) : x \in done.edits}
    /\ winner' = IF done.put = Keep THEN winner ELSE done.put

\* The history of credits after a board went from b to c: a credit is always
\* one of the last run started.
Booked(b, c) ==
    IF b.run = c.run /\ b.credited # c.credited
    THEN [ledger EXCEPT ![count.runs] = c.credited]
    ELSE ledger

\* An operator's step: what it moved of the selection is claimed.  The wall
\* clocks stand behind the Lamport count, so a crossed pair ties on it.
Act(p, done, frames) ==
    LET moved == View(done.board) # View(board[p])
        claim == Minted(p, stamp[p], TRUE, 0)
        sent  == frames \union IF moved THEN {SelectionFrame(claim, done.board)} ELSE {}
    IN  /\ Commit(p, done)
        /\ stamp' = IF moved THEN [stamp EXCEPT ![p] = claim] ELSE stamp
        /\ net' = net \union Fanout(p, sent)
        /\ times' = Without(times, done.drops)
        /\ ledger' = Booked(board[p], done.board)

\* Relayed frames have long landed when an operator does something unhurried.
Landed == net = {}

\* A start has: the lights take seconds, and a press is not timed to the GO.
StartLanded == \A m \in net : m.frame.kind # "start"

\* A lane's own stop and resume frames have: the athlete is still to cross.
LaneLanded(lane) == \A m \in net : m.frame.kind \in {"stop", "resume"} => m.frame.lane # lane

\* ... and what is on its way is about a lane.
OnlyLanesMove == \A m \in net : m.frame.kind \in {"stop", "resume"}

\* A press of `what`, within its bound.
Pressed(what, bound) == count[what] < bound /\ count.all < MaxAll
Counted(what) == [count EXCEPT ![what] = @ + 1, !.all = @ + 1]

\* The correction of a Time is answered, or the lane's save.
Corrections == PromptServer => \A x \in rest : ~x.edit
LaneAnswered(p, lane) == PromptServer => \A x \in rest : x.by # p \/ x.lane # lane

Answered == PromptServer => rest = {}

\* GO: the light sequence, armed by a reset, starts both clocks.
Go(p) ==
    /\ Landed /\ Answered
    /\ board[p].run = 0
    /\ count.runs < MaxRuns /\ count' = [count EXCEPT !.runs = @ + 1]
    /\ LET run == count.runs + 1
       IN  Act(p, Done(OnRaceStart(board[p], run)), {StartFrame(run)})

\* Reset: from the button or the buzzer, also mid-race.
Reset(p) ==
    /\ StartLanded
    /\ count.resets < MaxResets /\ count' = [count EXCEPT !.resets = @ + 1]
    /\ Act(p, Done(OnReset(board[p])), {ResetFrame})

\* The judge of a lane is at the panel that stops it.
Judged(p, lane) == p \in Judges[lane] /\ LaneLanded(lane) /\ OnlyLanesMove

Runs(b, lane) == b.run # 0 /\ b.frozen[lane] = 0

\* The body a press on the lane may post.
NextRow(p, lane, ms) ==
    [post |-> count.posts + 1, run |-> board[p].run, athlete |-> board[p].seats[lane], ms |-> ms]

\* Stop: only a clock that runs, whatever the link says (canStopLane).
Stop(p, lane) ==
    /\ Judged(p, lane)
    /\ Runs(board[p], lane)
    /\ count' = [count EXCEPT !.posts = @ + 1]
    /\ \E ms \in Elapsed :
         Act(p, RecordFinish([board[p] EXCEPT !.frozen[lane] = ms], lane, NextRow(p, lane, ms)),
             {StopFrame(lane, ms)})

\* No other panel holds the credit of the run on the clocks.
MayScore(p) == \A q \in Panels \ {p} : board[q].credited = 0

\* dnfLane: the result is recorded, then a lane that runs is stopped; the frame is
\* the one of any stop.
Dnfed(p, lane) ==
    /\ Judged(p, lane) /\ LaneAnswered(p, lane)
    /\ board[p].run # 0 /\ ~PeerSave(board[p], lane) /\ MayScore(p)
    /\ Pressed("dnfs", MaxDnfs)
    /\ count' = [Counted("dnfs") EXCEPT !.posts = @ + 1]
    /\ LET done == RecordDnf(board[p], lane, NextRow(p, lane, Dnf))
       IN  IF Runs(board[p], lane)
           THEN \E ms \in Elapsed :
                  Act(p, [done EXCEPT !.board.frozen[lane] = ms], {StopFrame(lane, ms)})
           ELSE Act(p, done, {})

\* Resume: a stopped lane of a run that is live, or within the grace after it.
Resume(p, lane) ==
    /\ LaneLanded(lane) /\ Corrections
    /\ board[p].run # 0 /\ board[p].frozen[lane] # 0
    /\ Pressed("resumes", MaxResumes) /\ count' = Counted("resumes")
    /\ Act(p, ResumeLane([board[p] EXCEPT !.frozen[lane] = 0], lane), {ResumeFrame(lane)})

Running(b) == b.run # 0 /\ \E l \in Lanes : b.frozen[l] = 0

\* Void run, in the place of the award: a chip holds a saved Time, or a rerun is
\* advised and no Time is the other panel's; locked while a lane runs.
VoidOffered(b) ==
    /\ ~Running(b)
    /\ \/ Offender(b) = 0 /\ SavedRows(b, Lanes) # {}
       \/ RerunAdvised(b) /\ \A l \in Lanes : ~PeerSave(b, l)

Void(p) ==
    /\ Landed /\ Corrections
    /\ VoidOffered(board[p])
    /\ Pressed("voids", MaxVoids)
    /\ count' = [Counted("voids") EXCEPT !.belated = IF board[p].run = 0 THEN @ + 1 ELSE @]
    /\ Act(p, VoidRun(board[p]), {})

\* A false start is flagged, at any time, or a count cleared.
Flag(p, lane) ==
    /\ Landed /\ Answered
    /\ Pressed("flags", MaxFlags) /\ count' = Counted("flags")
    /\ \/ Act(p, Done(FlagFs(board[p], lane)), {})
       \/ board[p].fs[lane] > 0 /\ Act(p, Done(ClearFs(board[p], lane)), {})

\* The award of the run.  It reaches the other panels' tally and none of their
\* results, so it is pressed once both lanes are in, and not where another
\* panel scored the run.
Award(p) ==
    /\ Landed /\ Corrections
    /\ board[p].run # 0 /\ ~Running(board[p]) /\ Offender(board[p]) # 0
    /\ MayScore(p)
    /\ Pressed("awards", MaxAwards)
    /\ LET done == AwardRunTo(board[p], Other(Offender(board[p])))
       IN  /\ count' = [Counted("awards") EXCEPT
                          !.belated = IF board[p].decided \notin {0, done.board.decided}
                                      THEN @ + 1 ELSE @]
           /\ Act(p, done, {})

\* The hand timer corrects a saved Time.
Correct(p, lane) ==
    /\ LaneAnswered(p, lane) /\ Landed
    /\ board[p].chip[lane].saved.ms \notin {NoRow.ms, Dnf}
    /\ Pressed("edits", MaxEdits) /\ count' = Counted("edits")
    /\ \E ms \in Elapsed \ {board[p].chip[lane].saved.ms} :
         Act(p, EditLaneTime(board[p], lane, ms), {})

\* Swap sides, between runs.
Swap(p) ==
    /\ Landed /\ Corrections
    /\ ~Running(board[p])
    /\ Pressed("swaps", MaxSwaps) /\ count' = Counted("swaps")
    /\ Act(p, Done(SwapLanes(board[p])), {})

\* Retry save: the rejected body once more.
Retry(p, lane) ==
    /\ StartLanded
    /\ board[p].chip[lane].status = "error" /\ board[p].chip[lane].failed # NoRow
    /\ count' = [count EXCEPT !.posts = @ + 1]
    /\ Act(p, RetrySave(board[p], lane, count.posts + 1), {})

-----------------------------------------------------------------------------
(* What happens to a panel.                                                *)

\* The server took the POST and its reply is in.
Reply(p) ==
    \E x \in rest :
        /\ x.by = p /\ ~x.edit
        /\ LET done == Saved(board[p], x.lane, x.gen, x.row)
           IN  /\ board' = [board EXCEPT ![p] = done.board]
               /\ times' = Without(times \union {x.row}, done.drops)
        /\ rest' = rest \ {x}
        /\ UNCHANGED <<stamp, net, winner, ledger, count>>

\* ... or the PUT: the row is still there, and the result is recorded again.
EditReply(p) ==
    \E x \in rest :
        /\ x.by = p /\ x.edit /\ x.from \in times
        /\ LET done  == Corrected(board[p], x.lane, x.row, x.closure)
               moved == View(done.board) # View(board[p])
               claim == Minted(p, stamp[p], TRUE, 0)
           IN  /\ board' = [board EXCEPT ![p] = done.board]
               /\ winner' = IF done.put = Keep THEN winner ELSE done.put
               /\ stamp' = IF moved THEN [stamp EXCEPT ![p] = claim] ELSE stamp
               /\ net' = net \union Fanout(p, IF moved THEN {SelectionFrame(claim, done.board)} ELSE {})
               /\ ledger' = Booked(board[p], done.board)
        /\ times' = (times \ {x.from}) \union {x.row}
        /\ rest' = rest \ {x}
        /\ UNCHANGED count

\* The server refused the request; it refuses the PUT of a row that is gone.
Refuse(p) ==
    \E x \in rest :
        /\ x.by = p
        /\ IF x.edit /\ x.from \notin times THEN UNCHANGED count
           ELSE Pressed("refused", MaxRefused) /\ count' = Counted("refused")
        /\ board' = [board EXCEPT ![p] =
                       IF x.edit THEN NotCorrected(board[p], x.lane, x.from).board
                       ELSE Refused(board[p], x.lane, x.gen, x.row).board]
        /\ rest' = rest \ {x}
        /\ UNCHANGED <<stamp, net, times, winner, ledger>>

\* A frame applied to the board: applyPeerMessage and applySelection.
Applied(p, f) ==
    LET b == board[p]
    IN  CASE f.kind = "start" -> Done(OnRaceStart(b, f.run))
          [] f.kind = "reset" -> Done(OnReset(b))
          [] f.kind = "stop" ->
               IF b.run = 0 THEN Done(b)
               ELSE Done(NotePeerFinish([b EXCEPT !.frozen[f.lane] = f.ms], f.lane, f.ms))
          [] f.kind = "resume" -> NotePeerResume([b EXCEPT !.frozen[f.lane] = 0], f.lane)
          [] f.kind = "selection" ->
               IF Outranks(f.stamp, stamp[p])
               THEN Done(ApplySelection(b, f.view))
               ELSE Done(b)

\* What a frame moved of the selection is re-stated under the stamp held.
Deliver(p) ==
    \E m \in net :
        /\ m.to = p
        /\ LET f     == m.frame
               done  == Applied(p, f)
               held  == IF f.kind = "selection" /\ Outranks(f.stamp, stamp[p])
                        THEN f.stamp ELSE stamp[p]
               echo  == IF View(done.board) = View(board[p]) THEN {}
                        ELSE {SelectionFrame(Restated(p, held), done.board)}
           IN  /\ Commit(p, done)
               /\ stamp' = [stamp EXCEPT ![p] = held]
               /\ net' = (net \ {m}) \union Fanout(p, echo)
               /\ times' = Without(times, done.drops)
               /\ ledger' = IF f.kind = "selection" THEN ledger
                            ELSE Booked(board[p], done.board)
        /\ UNCHANGED count

-----------------------------------------------------------------------------
Next ==
    \E p \in Panels :
        \/ Go(p) \/ Reset(p) \/ Void(p) \/ Swap(p) \/ Award(p)
        \/ \E lane \in Lanes :
             \/ Stop(p, lane) \/ Resume(p, lane) \/ Dnfed(p, lane)
             \/ Flag(p, lane) \/ Correct(p, lane) \/ Retry(p, lane)
        \/ Reply(p) \/ EditReply(p) \/ Refuse(p) \/ Deliver(p)

Spec == Init /\ [][Next]_vars

-----------------------------------------------------------------------------
(* Properties.                                                             *)

Requests ==
    [by : Panels, edit : {FALSE}, lane : Lanes, gen : Nat, row : Row]
        \union [by : Panels, edit : {TRUE}, lane : Lanes, from : Row, row : Row,
                closure : [wins : [Athletes -> Nat], seats : [Lanes -> Athletes]]]

Quiet == net = {} /\ rest = {}

Sum(wins) == LET pair == FirstSeats IN wins[pair[1]] + wins[pair[2]]

\* A run scores once: whatever is mirrored, swapped or voided, no panel's tally
\* (seriesWins) ever holds more run-wins than runs were started.
OneWinPerRun == \A p \in Panels : Sum(board[p].wins) <= count.runs

Credits == [a \in Athletes |-> Cardinality({r \in 1..MaxRuns : ledger[r] = a})]

\* When no frame is in flight every panel's seriesWins holds exactly the credits
\* that some panel gave and no void or resume undid, athlete by athlete and
\* whatever side the athlete ran on.
TallyIsLedger == Landed => \A p \in Panels : board[p].wins = Credits

\* Match.winnerId is written on a clinch and cleared on the undo of one: when no
\* frame is in flight it is the winner of the credits standing.  Not so once a
\* run is voided that a reset had cleared (its late reply brings the chip, and
\* with it Void, back): onReset dropped the derivedWinner the void tests.  Nor once
\* a run is awarded over the credit that had clinched the series.
MatchFollowsTally == Landed /\ count.belated = 0 => winner = SeriesWinner(Credits)

\* When no frame is in flight all panels are on the same run and their two
\* clocks run, or stand frozen at the same time, alike.
ClocksAgree ==
    Landed => \A p, q \in Panels :
        board[p].run = board[q].run /\ (board[p].run # 0 => board[p].frozen = board[q].frozen)

\* When every POST is answered and every frame is in, no run holds two Times of
\* one athlete: a stop that was resumed leaves no row behind, whichever panel
\* pressed Resume and whether its POST was saved, in flight, refused or retried.
OneTimePerRun ==
    Quiet => \A x, y \in times : x.run = y.run /\ x.athlete = y.athlete => x = y

\* ... and the Time an athlete has for the run on the clocks is the time that
\* athlete's lane is frozen at: a lane resumed on one panel keeps no row of the
\* other panel's stop.
TimesAreTheClocks ==
    Quiet => \A p \in Panels, x \in times, l \in Lanes :
        x.run = board[p].run /\ x.athlete = board[p].seats[l] => x.ms = board[p].frozen[l]

\* A run is never scored to the lane that forfeited it: recordFinish records no
\* result of a second false start, and leaves the run to an operator's award.
ForfeitNeverScores ==
    [][\A p \in Panels, l \in Lanes :
         /\ board'[p].credited = board[p].seats[l] /\ board[p].credited # board[p].seats[l]
         => board[p].fs[l] < 2]_vars
=============================================================================
