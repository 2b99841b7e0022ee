--------------------------- MODULE RaceRoomProofs ---------------------------
(***************************************************************************)
(* What holds of the Speedline room for any number of panels and judges    *)
(* and any number of starts and presses: every variable keeps its type;    *)
(* the clocks of all panels agree whenever no frame is in flight; when the *)
(* server answers before the next start and neither sides, DNFs nor        *)
(* corrections are pressed, an athlete has one Time per run, the one the   *)
(* clocks show; and when no lane is resumed and no saved Time corrected, a *)
(* run scores once, every panel's tally is what was credited, and the      *)
(* Match has the winner of it.                                             *)
(***************************************************************************)
EXTENDS RaceRoom, TLAPS, FiniteSetTheorems

RowOrNone == Row \union {NoRow}
Chip == [status : {"none", "pending", "saved", "error"}, saved : RowOrNone, failed : RowOrNone]
Seats == [Lanes -> Athletes]
Wins == [Athletes -> Nat]
AthleteOrNone == Athletes \union {0}

Board ==
    [run : Nat, frozen : [Lanes -> Elapsed \union {0}], seats : Seats,
     result : [Lanes -> Result \union {0}], tallied : BOOLEAN, wins : Wins,
     credited : AthleteOrNone, runLane : {0, 1, 2}, decided : AthleteOrNone,
     fs : [Lanes -> {0, 1, 2}], closed : [Lanes -> BOOLEAN], peer : [Lanes -> BOOLEAN],
     chip : [Lanes -> Chip], gen : [Lanes -> Nat]]

Closures == [wins : Wins, seats : Seats]
Outcome ==
    [board : Board, posts : SUBSET [lane : Lanes, gen : Nat, row : Row],
     edits : SUBSET [lane : Lanes, from : Row, row : Row, closure : Closures],
     drops : SUBSET Row, put : AthleteOrNone \union {Keep}]

Views == [seats : Seats, wins : [Lanes -> Nat], fs : [Lanes -> {0, 1, 2}]]
Frames ==
    [kind : {"start"}, run : Nat]
        \union [kind : {"stop"}, lane : Lanes, ms : Elapsed]
        \union [kind : {"resume"}, lane : Lanes]
        \union [kind : {"reset"}]
        \union [kind : {"selection"}, stamp : Stamp, view : Views]

Counts ==
    [runs : Nat, resets : Nat, resumes : Nat, voids : Nat, swaps : Nat, flags : Nat,
     awards : Nat, dnfs : Nat, edits : Nat, refused : Nat, all : Nat, posts : Nat,
     belated : Nat]

\* The type of every variable.
TypeOK ==
    /\ board \in [Panels -> Board]
    /\ stamp \in [Panels -> Stamp]
    /\ net \subseteq [to : Panels, frame : Frames]
    /\ rest \subseteq Requests
    /\ times \subseteq Row
    /\ winner \in AthleteOrNone
    /\ ledger \in [1..MaxRuns -> AthleteOrNone]
    /\ count \in Counts

-----------------------------------------------------------------------------
(* The operators.                                                          *)

\* Constants are of their kinds, and none is 0.
LEMMA Kinds ==
    /\ Athletes \subseteq Nat /\ 0 \notin Athletes
    /\ Elapsed \subseteq Nat /\ 0 \notin Elapsed /\ Dnf \notin Elapsed
    /\ Keep \notin AthleteOrNone
    /\ Lanes = {1, 2} /\ \A l \in Lanes : Other(l) \in Lanes
BY AthletesAssumption, ElapsedAssumption DEF Dnf, Keep, Lanes, Other, AthleteOrNone

\* No row stands for none.
LEMMA RowIsOne == NoRow \notin Row
BY Kinds DEF Row, NoRow

\* The first seats hold two athletes.
LEMMA FirstSeatsDiffer == FirstSeats \in Seats /\ FirstSeats[1] # FirstSeats[2]
<1>1. \E a, b \in Athletes : a # b
  <2>1. SUFFICES ASSUME \A a, b \in Athletes : a = b  PROVE FALSE
    OBVIOUS
  <2>2. CASE Athletes = {}
    BY <2>2, AthletesAssumption, FS_EmptySet
  <2>3. CASE \E a \in Athletes : Athletes = {a}
    BY <2>3, AthletesAssumption, FS_Singleton
  <2> QED  BY <2>1, <2>2, <2>3
<1>2. PICK a, b \in Athletes : a # b
  BY <1>1
<1> DEFINE s == [l \in Lanes |-> IF l = 1 THEN a ELSE b]
<1>3. s \in Seats /\ s[1] # s[2]
  BY <1>2, Kinds DEF Seats
<1> QED  BY <1>3 DEF FirstSeats, Seats

LEMMA NoChipType == NoChip \in Chip /\ Both(NoChip) \in [Lanes -> Chip]
BY DEF NoChip, Chip, RowOrNone, Both

LEMMA SavedChipType ==
    ASSUME NEW row \in Row
    PROVE  /\ SavedChip(row) \in Chip
           /\ SavedChip(row).saved = row /\ SavedChip(row).failed = NoRow
           /\ SavedChip(row) # NoChip
BY RowIsOne DEF NoChip, Chip, RowOrNone, SavedChip

\* Before a start nothing is decided, and everything has its type.
LEMMA FreshBoardType ==
    /\ FreshBoard \in Board
    /\ FreshBoard.run = 0 /\ FreshBoard.seats = FirstSeats
    /\ FreshBoard.chip = Both(NoChip)
<1>1. [a \in Athletes |-> 0] \in Wins
  BY DEF Wins
<1>2. Both(0) \in [Lanes -> Nat] /\ Both(0) \in [Lanes -> {0, 1, 2}]
      /\ Both(0) \in [Lanes -> Elapsed \union {0}] /\ Both(0) \in [Lanes -> Result \union {0}]
      /\ Both(FALSE) \in [Lanes -> BOOLEAN]
  BY DEF Both
<1> QED  BY <1>1, <1>2, NoChipType, FirstSeatsDiffer DEF FreshBoard, Board, AthleteOrNone

\* The tally's operators.
LEMMA TallyTypes ==
    ASSUME NEW wins \in Wins
    PROVE  /\ \A a \in Athletes : AddRunWin(wins, a) \in Wins
           /\ \A a \in AthleteOrNone : RemoveRunWin(wins, a) \in Wins
           /\ SeriesWinner(wins) \in AthleteOrNone
<1>1. \A a \in Athletes : AddRunWin(wins, a) \in Wins
  BY DEF AddRunWin, Wins
<1>2. \A a \in AthleteOrNone : RemoveRunWin(wins, a) \in Wins
  BY DEF RemoveRunWin, Wins, AthleteOrNone
<1>3. SeriesWinner(wins) \in AthleteOrNone
  BY DEF SeriesWinner, AthleteOrNone
<1> QED  BY <1>1, <1>2, <1>3

LEMMA RunWinningLaneType == \A result : RunWinningLane(result) \in {0, 1, 2}
BY DEF RunWinningLane

LEMMA DoneType ==
    ASSUME NEW b \in Board
    PROVE  /\ Done(b) \in Outcome /\ Done(b).board = b
           /\ Done(b).posts = {} /\ Done(b).edits = {} /\ Done(b).drops = {} /\ Done(b).put = Keep
BY DEF Done, Outcome

\* The rows that chips hold are rows.
LEMMA SavedRowsType ==
    ASSUME NEW b \in Board, NEW lanes \in SUBSET Lanes
    PROVE  SavedRows(b, lanes) \in SUBSET Row
<1>1. \A l \in lanes : b.chip[l] \in Chip
  BY DEF Board
<1>2. \A l \in lanes : b.chip[l].saved \in RowOrNone
  BY <1>1 DEF Chip
<1> QED  BY <1>2 DEF SavedRows, RowOrNone

-----------------------------------------------------------------------------
(* The handlers: what they keep of a board, and what they send.            *)

\* Run and clocks are as they were ...
SameClocks(b, c) == c.run = b.run /\ c.frozen = b.frozen
\* ... and so are the seats, the chips and the generations.
SameSaves(b, c) == c.seats = b.seats /\ c.chip = b.chip /\ c.gen = b.gen

Silent(done) == done.posts = {} /\ done.edits = {}

LEMMA OnRaceStartKeeps ==
    ASSUME NEW b \in Board, NEW run \in Nat
    PROVE  LET c == OnRaceStart(b, run)
           IN  /\ c \in Board
               /\ c.run = run /\ c.frozen = Both(0) /\ c.chip = Both(NoChip)
               /\ c.seats = b.seats /\ c.gen = b.gen
<1>1. FsCountsAfterStart(b) \in [Lanes -> {0, 1, 2}]
  BY DEF FsCountsAfterStart, Board
<1>2. /\ Both(0) \in [Lanes -> Elapsed \union {0}] /\ Both(0) \in [Lanes -> Result \union {0}]
      /\ Both(FALSE) \in [Lanes -> BOOLEAN]
  BY DEF Both
<1> QED  BY <1>1, <1>2, NoChipType DEF OnRaceStart, Board, AthleteOrNone

LEMMA OnResetKeeps ==
    ASSUME NEW b \in Board
    PROVE  LET c == OnReset(b)
           IN  /\ c \in Board
               /\ c.run = 0 /\ c.frozen = Both(0) /\ c.chip = Both(NoChip)
               /\ c.seats = b.seats /\ c.gen = b.gen
<1>1. /\ Both(0) \in [Lanes -> Elapsed \union {0}] /\ Both(0) \in [Lanes -> Result \union {0}]
      /\ Both(FALSE) \in [Lanes -> BOOLEAN]
  BY DEF Both
<1> QED  BY <1>1, NoChipType DEF OnReset, Board, AthleteOrNone

\* A clock stopped at a time, or let run again.
LEMMA FrozenKeeps ==
    ASSUME NEW b \in Board, NEW lane \in Lanes, NEW ms \in Elapsed \union {0}
    PROVE  LET c == [b EXCEPT !.frozen[lane] = ms]
           IN  /\ c \in Board /\ c.run = b.run /\ SameSaves(b, c)
               /\ c.frozen = [b.frozen EXCEPT ![lane] = ms] /\ c.result = b.result
BY DEF Board, SameSaves

LEMMA FlagsKeep ==
    ASSUME NEW b \in Board, NEW lane \in Lanes
    PROVE  /\ FlagFs(b, lane) \in Board
           /\ SameClocks(b, FlagFs(b, lane)) /\ SameSaves(b, FlagFs(b, lane))
           /\ ClearFs(b, lane) \in Board
           /\ SameClocks(b, ClearFs(b, lane)) /\ SameSaves(b, ClearFs(b, lane))
<1>1. FlagFs(b, lane) \in Board
  BY SMTT(30) DEF FlagFs, Board
<1>2. ClearFs(b, lane) \in Board
  BY DEF ClearFs, Board
<1> QED  BY <1>1, <1>2 DEF FlagFs, ClearFs, Board, SameClocks, SameSaves

LEMMA RecordLaneResultKeeps ==
    ASSUME NEW b \in Board, NEW lane \in Lanes, NEW result \in Result, NEW closure \in Closures
    PROVE  LET d == RecordLaneResult(b, lane, result, closure)
           IN  /\ d \in Outcome /\ SameClocks(b, d.board) /\ SameSaves(b, d.board)
               /\ Silent(d) /\ d.drops = {}
<1> DEFINE results  == [b.result EXCEPT ![lane] = result]
           resolves == ~b.tallied /\ \A l \in Lanes : results[l] # 0
           won      == RunWinningLane(results)
           scores   == resolves /\ won # 0
           credited == closure.seats[won]
           wins     == IF scores THEN AddRunWin(closure.wins, credited) ELSE closure.wins
           winner_  == SeriesWinner(wins)
           left == [b EXCEPT !.result = results,
                        !.tallied = @ \/ resolves,
                        !.closed = IF resolves THEN Both(TRUE) ELSE @,
                        !.runLane = IF resolves THEN won ELSE @,
                        !.wins = IF scores THEN wins ELSE @,
                        !.credited = IF scores THEN credited ELSE @,
                        !.decided = IF winner_ # 0 THEN winner_ ELSE @]
<1>1. results \in [Lanes -> Result \union {0}]
  BY DEF Board
<1>2. won \in {0, 1, 2}
  BY RunWinningLaneType
<1>3. closure.wins \in Wins /\ closure.seats \in Seats
  BY DEF Closures
<1>4. scores => credited \in Athletes
  BY <1>2, <1>3 DEF Seats, Lanes
<1>5. wins \in Wins
  BY <1>3, <1>4, TallyTypes
<1>6. winner_ \in AthleteOrNone
  BY <1>5, TallyTypes
<1>7. Both(TRUE) \in [Lanes -> BOOLEAN]
  BY DEF Both
<1> HIDE DEF results, resolves, won, scores, credited, wins, winner_
<1>8. left \in Board
  BY ZenonT(40), <1>1, <1>2, <1>4, <1>5, <1>6, <1>7 DEF Board, AthleteOrNone
<1>9. SameClocks(b, left) /\ SameSaves(b, left)
  BY DEF Board, SameClocks, SameSaves
<1>10. RecordLaneResult(b, lane, result, closure)
         = [Done(left) EXCEPT !.put = IF winner_ # 0 THEN winner_ ELSE Keep]
  BY DEF RecordLaneResult, results, resolves, won, scores, credited, wins, winner_
<1> HIDE DEF left
<1>11. Done(left) \in Outcome /\ Done(left).board = left
       /\ Done(left).posts = {} /\ Done(left).edits = {} /\ Done(left).drops = {}
  BY <1>8, DoneType
<1> QED  BY <1>6, <1>9, <1>10, <1>11 DEF Outcome, Silent

LEMMA ClosureType == ASSUME NEW b \in Board PROVE Closure(b) \in Closures
BY DEF Board, Closure, Closures

\* The chip of a save that is under way.
Pending == [NoChip EXCEPT !.status = "pending"]

LEMMA PendingType ==
    /\ Pending \in Chip /\ Pending.saved = NoRow /\ Pending.failed = NoRow
    /\ Pending.status = "pending" /\ Pending # NoChip
BY DEF Pending, NoChip, Chip, RowOrNone

\* What a save sends: its row, under the lane's generation.
OnePost(b, lane, row) == {[lane |-> lane, gen |-> b.gen[lane], row |-> row]}

LEMMA SaveTimeKeeps ==
    ASSUME NEW b \in Board, NEW lane \in Lanes, NEW row \in Row
    PROVE  LET d == SaveTime(b, lane, row)
           IN  /\ d \in Outcome /\ SameClocks(b, d.board)
               /\ d.board.seats = b.seats /\ d.board.gen = b.gen
               /\ d.board.chip = [b.chip EXCEPT ![lane] = Pending]
               /\ d.posts = OnePost(b, lane, row) /\ d.edits = {} /\ d.drops = {} /\ d.put = Keep
<1> DEFINE left == [b EXCEPT !.chip[lane] = Pending, !.closed[lane] = TRUE]
<1>1. left \in Board
  BY PendingType DEF Board
<1>2. SameClocks(b, left) /\ left.seats = b.seats /\ left.gen = b.gen
      /\ left.chip = [b.chip EXCEPT ![lane] = Pending]
  BY DEF Board, SameClocks
<1>3. SaveTime(b, lane, row) = [Done(left) EXCEPT !.posts = OnePost(b, lane, row)]
  BY DEF SaveTime, OnePost, Pending
<1> HIDE DEF left
<1>4. OnePost(b, lane, row) \in SUBSET [lane : Lanes, gen : Nat, row : Row]
  BY DEF Board, OnePost
<1> QED  BY <1>1, <1>2, <1>3, <1>4, DoneType DEF Outcome

LEMMA SaveKeeps ==
    ASSUME NEW b \in Board, NEW lane \in Lanes, NEW row \in Row
    PROVE  LET d == Save(b, lane, row)
           IN  /\ d \in Outcome /\ SameClocks(b, d.board)
               /\ d.board.seats = b.seats /\ d.board.gen = b.gen
               /\ d.board.chip = [b.chip EXCEPT ![lane] = Pending]
               /\ d.posts = OnePost(b, lane, row) /\ d.edits = {} /\ d.drops = {}
<1> DEFINE saving == SaveTime(b, lane, row)
           recorded == RecordLaneResult(saving.board, lane, row.ms, Closure(b))
<1>1. /\ saving \in Outcome /\ SameClocks(b, saving.board)
      /\ saving.board.seats = b.seats /\ saving.board.gen = b.gen
      /\ saving.board.chip = [b.chip EXCEPT ![lane] = Pending]
      /\ saving.posts = OnePost(b, lane, row)
  BY SaveTimeKeeps
<1>2. saving.board \in Board /\ saving.posts \in SUBSET [lane : Lanes, gen : Nat, row : Row]
  BY <1>1 DEF Outcome
<1>3. row.ms \in Result /\ Closure(b) \in Closures
  BY ClosureType DEF Row
<1> HIDE DEF saving
<1>4. /\ recorded \in Outcome /\ SameClocks(saving.board, recorded.board)
      /\ SameSaves(saving.board, recorded.board) /\ Silent(recorded) /\ recorded.drops = {}
  BY <1>2, <1>3, RecordLaneResultKeeps
<1>5. Save(b, lane, row) = [recorded EXCEPT !.posts = saving.posts]
  BY DEF Save, saving
<1> HIDE DEF recorded
<1> QED  BY <1>1, <1>2, <1>4, <1>5 DEF Outcome, SameClocks, SameSaves, Silent

\* A stop posts its row, or is not recorded at all.
LEMMA RecordFinishKeeps ==
    ASSUME NEW b \in Board, NEW lane \in Lanes, NEW row \in Row
    PROVE  LET d == RecordFinish(b, lane, row)
           IN  /\ d \in Outcome /\ SameClocks(b, d.board)
               /\ d.board.seats = b.seats /\ d.board.gen = b.gen /\ d.edits = {} /\ d.drops = {}
               /\ \/ d.posts = {} /\ d.board.chip = b.chip
                  \/ /\ d.posts = OnePost(b, lane, row)
                     /\ d.board.chip = [b.chip EXCEPT ![lane] = Pending]
<1> DEFINE closed_ == [b EXCEPT !.closed[lane] = TRUE]
<1>1. closed_ \in Board /\ SameClocks(b, closed_) /\ SameSaves(b, closed_)
  BY DEF Board, SameClocks, SameSaves
<1>2. CASE RecordFinish(b, lane, row) = Done(b)
  BY <1>2, DoneType DEF SameClocks
<1>3. CASE RecordFinish(b, lane, row) = Done(closed_)
  BY <1>1, <1>3, DoneType DEF SameClocks, SameSaves
<1>4. CASE RecordFinish(b, lane, row) = Save(b, lane, row)
  BY <1>4, SaveKeeps
<1> QED  BY <1>2, <1>3, <1>4 DEF RecordFinish

\* A correction sends the row it holds with another time.
LEMMA EditLaneTimeKeeps ==
    ASSUME NEW b \in Board, NEW lane \in Lanes, NEW ms \in Result, b.chip[lane].saved # NoRow
    PROVE  LET d == EditLaneTime(b, lane, ms)
           IN  /\ d \in Outcome /\ SameClocks(b, d.board)
               /\ d.posts = {} /\ d.drops = {} /\ d.put = Keep
<1> DEFINE saved == b.chip[lane].saved
           chip_ == [SavedChip(saved) EXCEPT !.status = "pending"]
           left == [b EXCEPT !.chip[lane] = chip_]
           edits == {[lane |-> lane, from |-> saved, row |-> [saved EXCEPT !.ms = ms],
                      closure |-> Closure(b)]}
<1>1. b.chip[lane] \in Chip
  BY DEF Board
<1>2. saved \in Row
  BY <1>1 DEF Chip, RowOrNone
<1>3. chip_ \in Chip
  BY <1>2, SavedChipType DEF Chip
<1>4. left \in Board /\ SameClocks(b, left)
  BY <1>3 DEF Board, SameClocks
<1>5. [saved EXCEPT !.ms = ms] \in Row
  BY <1>2 DEF Row
<1>6. edits \in SUBSET [lane : Lanes, from : Row, row : Row, closure : Closures]
  BY <1>2, <1>5, ClosureType
<1>7. EditLaneTime(b, lane, ms) = [Done(left) EXCEPT !.edits = edits]
  BY DEF EditLaneTime
<1> HIDE DEF left, edits
<1> QED  BY <1>4, <1>6, <1>7, DoneType DEF Outcome

LEMMA RecordDnfKeeps ==
    ASSUME NEW b \in Board, NEW lane \in Lanes, NEW row \in Row
    PROVE  LET d == RecordDnf(b, lane, row)
           IN  d \in Outcome /\ SameClocks(b, d.board)
<1> DEFINE marked == RecordLaneResult(b, lane, Dnf, Closure(b))
           edited == EditLaneTime(marked.board, lane, Dnf)
<1>1. CASE RecordDnf(b, lane, row) = Done(b)
  BY <1>1, DoneType DEF SameClocks
<1>2. CASE RecordDnf(b, lane, row) = Save(b, lane, row)
  BY ZenonT(40), <1>2, SaveKeeps
<1>3. CASE b.chip[lane].saved # NoRow /\ RecordDnf(b, lane, row) = [edited EXCEPT !.put = marked.put]
  <2>1. Dnf \in Result /\ Closure(b) \in Closures
    BY ClosureType DEF Result
  <2>2. marked \in Outcome /\ SameClocks(b, marked.board) /\ SameSaves(b, marked.board)
    BY <2>1, RecordLaneResultKeeps
  <2> HIDE DEF marked
  <2>3. marked.board \in Board /\ marked.put \in AthleteOrNone \union {Keep}
        /\ marked.board.chip[lane].saved # NoRow
    BY <1>3, <2>2 DEF Outcome, SameSaves
  <2>4. edited \in Outcome /\ SameClocks(marked.board, edited.board)
    BY <2>1, <2>3, EditLaneTimeKeeps
  <2> HIDE DEF edited
  <2> QED  BY <1>3, <2>2, <2>3, <2>4 DEF Outcome, SameClocks
<1> QED  BY <1>1, <1>2, <1>3 DEF RecordDnf

LEMMA NotePeerFinishKeeps ==
    ASSUME NEW b \in Board, NEW lane \in Lanes, NEW ms \in Elapsed
    PROVE  LET c == NotePeerFinish(b, lane, ms)
           IN  c \in Board /\ SameClocks(b, c) /\ SameSaves(b, c)
<1> DEFINE results == [b.result EXCEPT ![lane] = ms]
           done == \A l \in Lanes : results[l] # 0
           closed_ == [l \in Lanes |-> done \/ l = lane \/ b.closed[l]]
<1>1. results \in [Lanes -> Result \union {0}]
  BY DEF Board, Result
<1>2. done \in BOOLEAN
  OBVIOUS
<1>3. closed_ \in [Lanes -> BOOLEAN]
  BY DEF Board
<1> DEFINE peer == [b.peer EXCEPT ![lane] = @ \/ ShouldRecordTime(b, lane)]
           tallied == b.tallied \/ done
<1>4. peer \in [Lanes -> BOOLEAN] /\ tallied \in BOOLEAN
  BY DEF Board
<1>5. NotePeerFinish(b, lane, ms)
        = [b EXCEPT !.result = results, !.tallied = tallied, !.peer = peer, !.closed = closed_]
  BY DEF NotePeerFinish, Board
<1> HIDE DEF results, done, closed_, peer, tallied
<1> QED  BY ZenonT(40), <1>1, <1>3, <1>4, <1>5 DEF Board, SameClocks, SameSaves

LEMMA UncreditedKeeps ==
    ASSUME NEW b \in Board
    PROVE  LET c == Uncredited(b)
           IN  c \in Board /\ SameClocks(b, c) /\ SameSaves(b, c)
<1>1. RemoveRunWin(b.wins, b.credited) \in Wins
  BY TallyTypes DEF Board
<1> QED  BY <1>1 DEF Uncredited, Board, AthleteOrNone, SameClocks, SameSaves

\* A withdrawn lane has no chip, and a generation of its own.
LEMMA WithdrawLaneResultKeeps ==
    ASSUME NEW b \in Board, NEW lane \in Lanes
    PROVE  LET c == WithdrawLaneResult(b, lane)
           IN  /\ c \in Board /\ SameClocks(b, c) /\ c.seats = b.seats
               /\ c.chip = [b.chip EXCEPT ![lane] = NoChip]
               /\ c.gen = [b.gen EXCEPT ![lane] = @ + 1]
<1> DEFINE opened == [b EXCEPT !.gen[lane] = @ + 1, !.result[lane] = 0, !.chip[lane] = NoChip,
                               !.peer[lane] = FALSE, !.closed[lane] = FALSE]
           undone == Uncredited(opened)
<1>1. opened \in Board
  <2>1. [b.gen EXCEPT ![lane] = @ + 1] \in [Lanes -> Nat]
    BY DEF Board
  <2>2. [b.result EXCEPT ![lane] = 0] \in [Lanes -> Result \union {0}]
    BY DEF Board
  <2>3. [b.chip EXCEPT ![lane] = NoChip] \in [Lanes -> Chip]
    BY NoChipType DEF Board
  <2>4. [b.peer EXCEPT ![lane] = FALSE] \in [Lanes -> BOOLEAN]
        /\ [b.closed EXCEPT ![lane] = FALSE] \in [Lanes -> BOOLEAN]
    BY DEF Board
  <2> QED  BY <2>1, <2>2, <2>3, <2>4 DEF Board
<1>2. /\ SameClocks(b, opened) /\ opened.seats = b.seats
      /\ opened.chip = [b.chip EXCEPT ![lane] = NoChip]
      /\ opened.gen = [b.gen EXCEPT ![lane] = @ + 1]
  BY DEF Board, SameClocks
<1>3. WithdrawLaneResult(b, lane) = IF b.tallied THEN [undone EXCEPT !.tallied = FALSE] ELSE opened
  BY DEF WithdrawLaneResult
<1> HIDE DEF opened
<1>4. undone \in Board /\ SameClocks(opened, undone) /\ SameSaves(opened, undone)
  BY <1>1, UncreditedKeeps
<1> HIDE DEF undone
<1>5. [undone EXCEPT !.tallied = FALSE] \in Board
  BY <1>4 DEF Board
<1>6. SameClocks(undone, [undone EXCEPT !.tallied = FALSE])
      /\ SameSaves(undone, [undone EXCEPT !.tallied = FALSE])
  BY <1>4 DEF Board, SameClocks, SameSaves
<1> QED  BY <1>1, <1>2, <1>3, <1>4, <1>5, <1>6 DEF SameClocks, SameSaves

LEMMA ReopenedType == ASSUME NEW b \in Board PROVE Reopened(b) \in AthleteOrNone \union {Keep}
BY DEF Reopened, AthleteOrNone

\* What a resume deletes, on either panel.
Withdrawn(b, lane, d) ==
    /\ d \in Outcome /\ SameClocks(b, d.board) /\ d.board.seats = b.seats
    /\ d.board.chip = [b.chip EXCEPT ![lane] = NoChip]
    /\ d.board.gen = [b.gen EXCEPT ![lane] = @ + 1]
    /\ Silent(d) /\ d.drops = SavedRows(b, {lane})

LEMMA ResumeLaneKeeps ==
    ASSUME NEW b \in Board, NEW lane \in Lanes
    PROVE  Withdrawn(b, lane, ResumeLane(b, lane))
<1> DEFINE left == WithdrawLaneResult(b, lane)
           kept == [left EXCEPT !.decided = IF SeriesWinner(left.wins) = 0 THEN 0 ELSE @]
<1>1. /\ left \in Board /\ SameClocks(b, left) /\ left.seats = b.seats
      /\ left.chip = [b.chip EXCEPT ![lane] = NoChip]
      /\ left.gen = [b.gen EXCEPT ![lane] = @ + 1]
  BY WithdrawLaneResultKeeps
<1>2. ResumeLane(b, lane) = [Done(kept) EXCEPT !.drops = SavedRows(b, {lane}), !.put = Reopened(left)]
  BY DEF ResumeLane
<1> HIDE DEF left
<1>3. kept \in Board /\ SameClocks(left, kept) /\ SameSaves(left, kept)
  BY <1>1 DEF Board, AthleteOrNone, SameClocks, SameSaves
<1> HIDE DEF kept
<1>4. SavedRows(b, {lane}) \in SUBSET Row
  BY SavedRowsType
<1>5. Reopened(left) \in AthleteOrNone \union {Keep}
  BY <1>1, ReopenedType
<1> QED  BY ZenonT(40), <1>1, <1>2, <1>3, <1>4, <1>5, DoneType
         DEF Outcome, Withdrawn, SameClocks, SameSaves, Silent

LEMMA NotePeerResumeKeeps ==
    ASSUME NEW b \in Board, NEW lane \in Lanes
    PROVE  Withdrawn(b, lane, NotePeerResume(b, lane)) /\ NotePeerResume(b, lane).put = Keep
<1> DEFINE left == WithdrawLaneResult(b, lane)
<1>1. /\ left \in Board /\ SameClocks(b, left) /\ left.seats = b.seats
      /\ left.chip = [b.chip EXCEPT ![lane] = NoChip]
      /\ left.gen = [b.gen EXCEPT ![lane] = @ + 1]
  BY WithdrawLaneResultKeeps
<1>2. NotePeerResume(b, lane) = [Done(left) EXCEPT !.drops = SavedRows(b, {lane})]
  BY DEF NotePeerResume
<1> HIDE DEF left
<1>3. SavedRows(b, {lane}) \in SUBSET Row
  BY SavedRowsType
<1>4. Done(left) \in Outcome /\ Done(left).board = left /\ Done(left).posts = {}
      /\ Done(left).edits = {} /\ Done(left).put = Keep
  BY <1>1, DoneType
<1>5. NotePeerResume(b, lane) \in Outcome
  BY <1>2, <1>3, <1>4 DEF Outcome
<1>6. /\ NotePeerResume(b, lane).board = left /\ NotePeerResume(b, lane).posts = {}
      /\ NotePeerResume(b, lane).edits = {} /\ NotePeerResume(b, lane).put = Keep
      /\ NotePeerResume(b, lane).drops = SavedRows(b, {lane})
  BY <1>2, <1>4 DEF Outcome
<1> QED  BY <1>1, <1>5, <1>6 DEF Withdrawn, Silent

\* What a void or an award deletes: every Time this panel holds.
Voided(b, d) ==
    /\ d \in Outcome /\ SameClocks(b, d.board) /\ d.board.seats = b.seats
    /\ d.board.gen = b.gen /\ d.board.chip = Both(NoChip)
    /\ Silent(d) /\ d.drops = SavedRows(b, Lanes)

LEMMA VoidRunKeeps ==
    ASSUME NEW b \in Board
    PROVE  Voided(b, VoidRun(b))
<1> DEFINE left == Uncredited(b)
           kept == [left EXCEPT !.result = Both(0), !.tallied = FALSE, !.chip = Both(NoChip),
                                !.peer = Both(FALSE), !.decided = 0, !.closed = Both(FALSE)]
<1>1. left \in Board /\ SameClocks(b, left) /\ SameSaves(b, left)
  BY UncreditedKeeps
<1>2. VoidRun(b) = [Done(kept) EXCEPT !.drops = SavedRows(b, Lanes), !.put = Reopened(left)]
  BY DEF VoidRun
<1> HIDE DEF left
<1>3. Both(0) \in [Lanes -> Result \union {0}] /\ Both(FALSE) \in [Lanes -> BOOLEAN]
  BY DEF Both
<1>4. /\ kept \in Board /\ SameClocks(left, kept) /\ kept.seats = left.seats /\ kept.gen = left.gen
      /\ kept.chip = Both(NoChip)
  BY <1>1, <1>3, NoChipType DEF Board, AthleteOrNone, SameClocks
<1> HIDE DEF kept
<1>5. SavedRows(b, Lanes) \in SUBSET Row
  BY SavedRowsType
<1>6. Reopened(left) \in AthleteOrNone \union {Keep}
  BY <1>1, ReopenedType
<1> QED  BY <1>1, <1>2, <1>4, <1>5, <1>6, DoneType
         DEF Outcome, Voided, SameClocks, SameSaves, Silent

LEMMA AwardRunToKeeps ==
    ASSUME NEW b \in Board, NEW lane \in Lanes
    PROVE  Voided(b, AwardRunTo(b, lane))
<1> DEFINE to == b.seats[lane]
           wins == AddRunWin(Uncredited(b).wins, to)
           winner_ == SeriesWinner(wins)
           kept == [b EXCEPT !.wins = wins, !.credited = to, !.runLane = lane, !.fs = Both(0),
                        !.closed = Both(TRUE), !.result = Both(0), !.tallied = FALSE,
                        !.chip = Both(NoChip), !.peer = Both(FALSE), !.decided = winner_]
<1>1. to \in Athletes
  BY DEF Board, Seats
<1>2. wins \in Wins
  <2>1. Uncredited(b).wins \in Wins
    BY UncreditedKeeps DEF Board
  <2> QED  BY <1>1, <2>1, TallyTypes
<1>3. winner_ \in AthleteOrNone
  BY <1>2, TallyTypes
<1>4. AwardRunTo(b, lane)
        = [Done(kept) EXCEPT !.drops = SavedRows(b, Lanes), !.put = IF winner_ = 0 THEN Keep ELSE winner_]
  BY DEF AwardRunTo
<1> HIDE DEF to, wins, winner_
<1>5. /\ Both(0) \in [Lanes -> Result \union {0}] /\ Both(0) \in [Lanes -> {0, 1, 2}]
      /\ Both(FALSE) \in [Lanes -> BOOLEAN] /\ Both(TRUE) \in [Lanes -> BOOLEAN]
  BY DEF Both
<1>6. lane \in {0, 1, 2}
  BY DEF Lanes
<1>7. kept \in Board
  BY <1>1, <1>2, <1>3, <1>5, <1>6, NoChipType DEF Board, AthleteOrNone
<1>8. SameClocks(b, kept) /\ kept.seats = b.seats /\ kept.gen = b.gen /\ kept.chip = Both(NoChip)
  BY DEF Board, SameClocks
<1> HIDE DEF kept
<1>9. SavedRows(b, Lanes) \in SUBSET Row
  BY SavedRowsType
<1> QED  BY ZenonT(40), <1>3, <1>4, <1>7, <1>8, <1>9, DoneType DEF Outcome, Voided, Silent

LEMMA SwapLanesKeeps ==
    ASSUME NEW b \in Board
    PROVE  SwapLanes(b) \in Board /\ SameClocks(b, SwapLanes(b))
<1> DEFINE Exchanged(f) == [l \in Lanes |-> f[Other(l)]]
<1>1. ASSUME NEW S, NEW f \in [Lanes -> S]
      PROVE  Exchanged(f) \in [Lanes -> S]
  BY Kinds
<1>2. /\ Exchanged(b.seats) \in Seats
      /\ Exchanged(b.result) \in [Lanes -> Result \union {0}]
      /\ Exchanged(b.chip) \in [Lanes -> Chip]
      /\ Exchanged(b.peer) \in [Lanes -> BOOLEAN]
      /\ Exchanged(b.fs) \in [Lanes -> {0, 1, 2}]
      /\ Exchanged(b.closed) \in [Lanes -> BOOLEAN]
  BY Kinds DEF Board, Seats
<1>3. SwapLanes(b) = [b EXCEPT !.seats = Exchanged(@), !.result = Exchanged(@), !.chip = Exchanged(@),
                               !.peer = Exchanged(@), !.fs = Exchanged(@), !.closed = Exchanged(@)]
  BY DEF SwapLanes
<1> HIDE DEF Exchanged
<1> QED  BY ZenonT(40), <1>2, <1>3 DEF Board, SameClocks

\* A reply to a save, in time or too late.
LEMMA SavedKeeps ==
    ASSUME NEW b \in Board, NEW lane \in Lanes, NEW gen, NEW row \in Row
    PROVE  LET d == Saved(b, lane, gen, row)
           IN  /\ d.board \in Board /\ SameClocks(b, d.board)
               /\ d.board.seats = b.seats /\ d.board.gen = b.gen
               /\ gen # b.gen[lane] => d.board = b /\ d.drops = {row}
               /\ gen = b.gen[lane] => /\ d.board.chip = [b.chip EXCEPT ![lane] = SavedChip(row)]
                                       /\ d.drops = {}
<1> DEFINE kept == [b EXCEPT !.chip[lane] = SavedChip(row)]
<1>1. kept \in Board /\ SameClocks(b, kept) /\ kept.seats = b.seats /\ kept.gen = b.gen
      /\ kept.chip = [b.chip EXCEPT ![lane] = SavedChip(row)]
  BY SavedChipType DEF Board, SameClocks
<1>2. CASE gen # b.gen[lane]
  BY <1>2 DEF Saved, Done, SameClocks
<1>3. CASE gen = b.gen[lane]
  BY <1>1, <1>3 DEF Saved, Done
<1> QED  BY <1>2, <1>3

\* The chip of a refused save.
ErrorChip(row) == [NoChip EXCEPT !.status = "error", !.failed = row]

LEMMA ErrorChipType ==
    ASSUME NEW row \in Row
    PROVE  /\ ErrorChip(row) \in Chip /\ ErrorChip(row) # NoChip
           /\ ErrorChip(row).saved = NoRow /\ ErrorChip(row).failed = row
<1>1. /\ ErrorChip(row) \in Chip /\ ErrorChip(row).status = "error" /\ NoChip.status = "none"
      /\ ErrorChip(row).saved = NoRow /\ ErrorChip(row).failed = row
  BY DEF NoChip, Chip, RowOrNone, ErrorChip
<1> QED  BY <1>1

LEMMA RefusedKeeps ==
    ASSUME NEW b \in Board, NEW lane \in Lanes, NEW gen, NEW row \in Row
    PROVE  LET c == Refused(b, lane, gen, row).board
           IN  /\ c \in Board /\ SameClocks(b, c) /\ c.seats = b.seats /\ c.gen = b.gen
               /\ gen # b.gen[lane] => c = b
               /\ gen = b.gen[lane] => c.chip = [b.chip EXCEPT ![lane] = ErrorChip(row)]
<1> DEFINE kept == [b EXCEPT !.chip[lane] = ErrorChip(row)]
<1>1. kept \in Board /\ SameClocks(b, kept) /\ kept.seats = b.seats /\ kept.gen = b.gen
      /\ kept.chip = [b.chip EXCEPT ![lane] = ErrorChip(row)]
  BY ErrorChipType DEF Board, SameClocks
<1>2. CASE gen # b.gen[lane]
  BY <1>2 DEF Refused, Done, SameClocks
<1>3. CASE gen = b.gen[lane]
  BY <1>1, <1>3 DEF Refused, Done, ErrorChip
<1> QED  BY <1>2, <1>3

LEMMA CorrectedKeeps ==
    ASSUME NEW b \in Board, NEW lane \in Lanes, NEW row \in Row, NEW closure \in Closures
    PROVE  LET d == Corrected(b, lane, row, closure)
           IN  d \in Outcome /\ SameClocks(b, d.board) /\ Silent(d)
<1> DEFINE kept == [b EXCEPT !.chip[lane] = SavedChip(row)]
<1>1. kept \in Board /\ SameClocks(b, kept)
  BY SavedChipType DEF Board, SameClocks
<1>2. Corrected(b, lane, row, closure) = RecordLaneResult(kept, lane, row.ms, closure)
  BY DEF Corrected
<1>3. row.ms \in Result
  BY DEF Row
<1> HIDE DEF kept
<1> QED  BY <1>1, <1>2, <1>3, RecordLaneResultKeeps DEF SameClocks

LEMMA NotCorrectedKeeps ==
    ASSUME NEW b \in Board, NEW lane \in Lanes, NEW from \in Row
    PROVE  LET c == NotCorrected(b, lane, from).board
           IN  c \in Board /\ SameClocks(b, c)
<1> DEFINE chip_ == [SavedChip(from) EXCEPT !.status = "error"]
           kept == [b EXCEPT !.chip[lane] = chip_]
<1>1. chip_ \in Chip
  BY SavedChipType DEF Chip
<1>2. kept \in Board /\ SameClocks(b, kept)
  BY <1>1 DEF Board, SameClocks
<1> QED  BY <1>2 DEF NotCorrected, Done

\* The refused body goes out again under the next generation.
Again(row, post) == [row EXCEPT !.post = post]

LEMMA RetrySaveKeeps ==
    ASSUME NEW b \in Board, NEW lane \in Lanes, NEW post \in Nat, b.chip[lane].failed # NoRow
    PROVE  LET d == RetrySave(b, lane, post)
               row == Again(b.chip[lane].failed, post)
           IN  /\ d \in Outcome /\ SameClocks(b, d.board) /\ d.board.seats = b.seats
               /\ d.board.gen = [b.gen EXCEPT ![lane] = @ + 1]
               /\ d.board.chip = [b.chip EXCEPT ![lane] = Pending]
               /\ row \in Row
               /\ d.posts = {[lane |-> lane, gen |-> b.gen[lane] + 1, row |-> row]}
               /\ d.edits = {} /\ d.drops = {}
<1> DEFINE row == Again(b.chip[lane].failed, post)
           next == [b EXCEPT !.gen[lane] = @ + 1]
<1>1. b.chip[lane] \in Chip
  BY DEF Board
<1>2. b.chip[lane].failed \in Row
  BY <1>1 DEF Chip, RowOrNone
<1>3. row \in Row
  BY <1>2 DEF Row, Again
<1>4. /\ next \in Board /\ SameClocks(b, next) /\ next.seats = b.seats /\ next.chip = b.chip
      /\ next.gen = [b.gen EXCEPT ![lane] = @ + 1] /\ next.gen[lane] = b.gen[lane] + 1
  BY SMTT(30) DEF Board, SameClocks
<1>5. RetrySave(b, lane, post) = SaveTime(next, lane, row)
  BY DEF RetrySave, Again
<1> HIDE DEF row, next
<1>6. OnePost(next, lane, row) = {[lane |-> lane, gen |-> b.gen[lane] + 1, row |-> row]}
  BY <1>4 DEF OnePost
<1>7. LET d == SaveTime(next, lane, row)
      IN  /\ d \in Outcome /\ SameClocks(next, d.board)
          /\ d.board.seats = next.seats /\ d.board.gen = next.gen
          /\ d.board.chip = [next.chip EXCEPT ![lane] = Pending]
          /\ d.posts = OnePost(next, lane, row) /\ d.edits = {} /\ d.drops = {} /\ d.put = Keep
  BY <1>3, <1>4, SaveTimeKeeps
<1>8. RetrySave(b, lane, post) \in Outcome
  BY <1>5, <1>7
<1> QED  BY <1>3, <1>4, <1>5, <1>6, <1>7, <1>8 DEF SameClocks, row

LEMMA ViewType == ASSUME NEW b \in Board PROVE View(b) \in Views /\ View(b).seats = b.seats
<1>1. LaneRunWins(b.wins, b.seats) \in [Lanes -> Nat]
  BY DEF LaneRunWins, Board, Wins, Seats
<1> QED  BY <1>1 DEF View, Views, Board

LEMMA ApplySelectionKeeps ==
    ASSUME NEW b \in Board, NEW view \in Views
    PROVE  LET c == ApplySelection(b, view)
           IN  /\ c \in Board /\ SameClocks(b, c) /\ c.seats = view.seats
               /\ c.chip = b.chip /\ c.gen = b.gen
<1> DEFINE wins == IF LaneRunWins(b.wins, view.seats) = view.wins THEN b.wins
                   ELSE [a \in Athletes |-> IF view.seats[1] = a THEN view.wins[1] ELSE view.wins[2]]
<1>1. view.wins[1] \in Nat /\ view.wins[2] \in Nat /\ view.seats \in Seats
      /\ view.fs \in [Lanes -> {0, 1, 2}]
  BY DEF Views, Lanes
<1>2. wins \in Wins
  BY <1>1 DEF Board, Wins
<1>3. ApplySelection(b, view) = [b EXCEPT !.seats = view.seats, !.wins = wins, !.fs = view.fs]
  BY DEF ApplySelection
<1> HIDE DEF wins
<1> QED  BY <1>1, <1>2, <1>3 DEF Board, SameClocks

-----------------------------------------------------------------------------
(* Every variable keeps its type.                                          *)

\* A press moves its own counter and the common one, never the number of runs.
LEMMA CountedType ==
    ASSUME count \in Counts,
           NEW what \in {"resumes", "voids", "swaps", "flags", "awards", "dnfs", "edits", "refused"}
    PROVE  /\ Counted(what) \in Counts
           /\ Counted(what).runs = count.runs /\ Counted(what).posts = count.posts
<1> DEFINE names == {"runs", "resets", "resumes", "voids", "swaps", "flags", "awards", "dnfs",
                     "edits", "refused", "all", "posts", "belated"}
           c == [count EXCEPT ![what] = @ + 1, !["all"] = @ + 1]
<1>1. count \in [names -> Nat]
  BY DEF Counts
<1>2. c \in [names -> Nat] /\ c["runs"] = count["runs"] /\ c["posts"] = count["posts"]
  BY <1>1
<1>3. Counted(what) = c
  BY DEF Counted
<1>4. \A d \in [names -> Nat] : d \in Counts
  BY DEF Counts
<1> QED  BY <1>2, <1>3, <1>4

\* ... and so do the other counters.
LEMMA CountsType ==
    ASSUME NEW c \in Counts
    PROVE  /\ [c EXCEPT !.runs = @ + 1] \in Counts
           /\ [c EXCEPT !.resets = @ + 1] \in Counts
           /\ [c EXCEPT !.posts = @ + 1] \in Counts
           /\ [c EXCEPT !.belated = @ + 1] \in Counts
<1>1. [c EXCEPT !.runs = @ + 1] \in Counts
  BY DEF Counts
<1>2. [c EXCEPT !.resets = @ + 1] \in Counts
  BY DEF Counts
<1>3. [c EXCEPT !.posts = @ + 1] \in Counts
  BY DEF Counts
<1>4. [c EXCEPT !.belated = @ + 1] \in Counts
  BY DEF Counts
<1> QED  BY <1>1, <1>2, <1>3, <1>4

LEMMA FramesType ==
    /\ \A run \in Nat : StartFrame(run) \in Frames
    /\ \A l \in Lanes, ms \in Elapsed : StopFrame(l, ms) \in Frames
    /\ \A l \in Lanes : ResumeFrame(l) \in Frames
    /\ ResetFrame \in Frames
    /\ \A s \in Stamp, b \in Board : SelectionFrame(s, b) \in Frames
<1>1. \A s \in Stamp, b \in Board : SelectionFrame(s, b) \in Frames
  BY ViewType DEF SelectionFrame, Frames
<1> QED  BY <1>1 DEF StartFrame, StopFrame, ResumeFrame, ResetFrame, Frames

LEMMA FanoutType ==
    ASSUME NEW p \in Panels, NEW frames \in SUBSET Frames
    PROVE  Fanout(p, frames) \subseteq [to : Panels, frame : Frames]
BY DEF Fanout

LEMMA MintedType ==
    ASSUME NEW p \in Panels, NEW s \in Stamp
    PROVE  Minted(p, s, TRUE, 0) \in Stamp /\ Restated(p, s) \in Stamp
BY DEF Minted, Restated, Stamp

\* What a board sends to the server has its type.
LEMMA CommitType ==
    ASSUME TypeOK, NEW p \in Panels, NEW done \in Outcome, Commit(p, done)
    PROVE  /\ board' \in [Panels -> Board] /\ rest' \subseteq Requests
           /\ winner' \in AthleteOrNone
<1>1. done.board \in Board /\ done.put \in AthleteOrNone \union {Keep}
      /\ done.posts \in SUBSET [lane : Lanes, gen : Nat, row : Row]
      /\ done.edits \in SUBSET [lane : Lanes, from : Row, row : Row, closure : Closures]
  BY DEF Outcome
<1>2. \A x \in done.posts : Posted(p, x) \in Requests
  BY <1>1 DEF Posted, Requests
<1>3. \A x \in done.edits : Put(p, x) \in Requests
  BY <1>1 DEF Put, Requests, Closures, Wins, Seats
<1>4. rest' \subseteq Requests
  BY <1>2, <1>3 DEF Commit, TypeOK
<1> QED  BY <1>1, <1>4 DEF Commit, TypeOK

LEMMA BookedType ==
    ASSUME TypeOK, NEW b \in Board, NEW c \in Board
    PROVE  Booked(b, c) \in [1..MaxRuns -> AthleteOrNone]
BY DEF Booked, TypeOK, Board

LEMMA ActType ==
    ASSUME TypeOK, NEW p \in Panels, NEW done \in Outcome, NEW frames \in SUBSET Frames,
           Act(p, done, frames), count' \in Counts
    PROVE  TypeOK'
<1> DEFINE claim == Minted(p, stamp[p], TRUE, 0)
           moved == View(done.board) # View(board[p])
           sent == frames \union IF moved THEN {SelectionFrame(claim, done.board)} ELSE {}
<1>1. board[p] \in Board /\ done.board \in Board /\ stamp[p] \in Stamp
  BY DEF TypeOK, Outcome
<1>2. claim \in Stamp
  BY <1>1, MintedType
<1>3. sent \in SUBSET Frames
  BY <1>1, <1>2, FramesType
<1>4. /\ Commit(p, done)
      /\ stamp' = IF moved THEN [stamp EXCEPT ![p] = claim] ELSE stamp
      /\ net' = net \union Fanout(p, sent)
      /\ times' = Without(times, done.drops)
      /\ ledger' = Booked(board[p], done.board)
  BY DEF Act
<1> HIDE DEF claim, moved, sent
<1>5. stamp' \in [Panels -> Stamp]
  BY <1>2, <1>4 DEF TypeOK
<1>6. net' \subseteq [to : Panels, frame : Frames]
  BY <1>3, <1>4, FanoutType DEF TypeOK
<1>7. times' \subseteq Row
  BY <1>4 DEF TypeOK, Without
<1>8. ledger' \in [1..MaxRuns -> AthleteOrNone]
  BY <1>1, <1>4, BookedType
<1> QED  BY <1>4, <1>5, <1>6, <1>7, <1>8, CommitType DEF TypeOK

\* A frame applied to a board.
LEMMA AppliedType ==
    ASSUME TypeOK, NEW p \in Panels, NEW f \in Frames
    PROVE  Applied(p, f) \in Outcome
<1>1. board[p] \in Board
  BY DEF TypeOK
<1>2. CASE f.kind = "start"
  <2>1. f.run \in Nat
    BY <1>2 DEF Frames
  <2> QED  BY <1>1, <1>2, <2>1, OnRaceStartKeeps, DoneType DEF Applied
<1>3. CASE f.kind = "reset"
  BY <1>1, <1>3, OnResetKeeps, DoneType DEF Applied
<1>4. CASE f.kind = "stop"
  <2>1. f.lane \in Lanes /\ f.ms \in Elapsed
    BY <1>4 DEF Frames
  <2> DEFINE b == [board[p] EXCEPT !.frozen[f.lane] = f.ms]
  <2>2. b \in Board
    BY <1>1, <2>1, FrozenKeeps
  <2>3. Applied(p, f) = IF board[p].run = 0 THEN Done(board[p])
                        ELSE Done(NotePeerFinish(b, f.lane, f.ms))
    BY <1>4 DEF Applied
  <2> HIDE DEF b
  <2>4. NotePeerFinish(b, f.lane, f.ms) \in Board
    BY <2>1, <2>2, NotePeerFinishKeeps
  <2> QED  BY <1>1, <2>3, <2>4, DoneType
<1>5. CASE f.kind = "resume"
  <2>1. f.lane \in Lanes
    BY <1>5 DEF Frames
  <2> DEFINE b == [board[p] EXCEPT !.frozen[f.lane] = 0]
  <2>2. b \in Board
    BY <1>1, <2>1, FrozenKeeps
  <2>3. Applied(p, f) = NotePeerResume(b, f.lane)
    BY <1>5 DEF Applied
  <2> HIDE DEF b
  <2> QED  BY <2>1, <2>2, <2>3, NotePeerResumeKeeps DEF Withdrawn
<1>6. CASE f.kind = "selection"
  <2>1. f.view \in Views
    BY <1>6 DEF Frames
  <2>2. ApplySelection(board[p], f.view) \in Board
    BY <1>1, <2>1, ApplySelectionKeeps
  <2>3. Applied(p, f) = Done(ApplySelection(board[p], f.view)) \/ Applied(p, f) = Done(board[p])
    BY <1>6 DEF Applied
  <2> QED  BY <1>1, <2>2, <2>3, DoneType
<1> QED  BY <1>2, <1>3, <1>4, <1>5, <1>6 DEF Frames

\* The body a press may post is a row.
LEMMA NextRowType ==
    ASSUME TypeOK, NEW p \in Panels, NEW lane \in Lanes, NEW ms \in Result
    PROVE  NextRow(p, lane, ms) \in Row
BY SMTT(30) DEF TypeOK, Board, Seats, Counts, NextRow, Row

\* The stop of a lane that a press recorded before it.
LEMMA StoppedAfterType ==
    ASSUME NEW done \in Outcome, NEW lane \in Lanes, NEW ms \in Elapsed
    PROVE  LET d == [done EXCEPT !.board.frozen[lane] = ms]
           IN  /\ d \in Outcome /\ d.board.run = done.board.run
               /\ d.board.frozen = [done.board.frozen EXCEPT ![lane] = ms]
<1> DEFINE c == [done.board EXCEPT !.frozen[lane] = ms]
<1>1. done.board \in Board
  BY DEF Outcome
<1>2. c \in Board /\ c.run = done.board.run /\ c.frozen = [done.board.frozen EXCEPT ![lane] = ms]
  BY <1>1, FrozenKeeps
<1>3. [done EXCEPT !.board.frozen[lane] = ms] = [done EXCEPT !.board = c]
  OBVIOUS
<1> HIDE DEF c
<1> QED  BY <1>2, <1>3 DEF Outcome

\* One step keeps the types.
LEMMA TypeStep ==
    ASSUME TypeOK, Next
    PROVE  TypeOK'
<1>1. PICK p \in Panels :
        \/ Go(p) \/ Reset(p) \/ Void(p) \/ Swap(p) \/ Award(p)
        \/ \E lane \in Lanes :
             \/ Stop(p, lane) \/ Resume(p, lane) \/ Dnfed(p, lane)
             \/ Flag(p, lane) \/ Correct(p, lane) \/ Retry(p, lane)
        \/ Reply(p) \/ EditReply(p) \/ Refuse(p) \/ Deliver(p)
  BY DEF Next
<1>2. board[p] \in Board /\ count \in Counts /\ stamp[p] \in Stamp
  BY DEF TypeOK
<1>3. CASE Go(p)
  <2> DEFINE run == count.runs + 1
  <2>1. run \in Nat
    BY <1>2 DEF Counts
  <2>2. Done(OnRaceStart(board[p], run)) \in Outcome
    BY <1>2, <2>1, OnRaceStartKeeps, DoneType
  <2>3. {StartFrame(run)} \in SUBSET Frames
    BY <2>1, FramesType
  <2>4. count' \in Counts
    BY <1>2, <1>3, CountsType DEF Go
  <2> QED  BY <1>3, <2>2, <2>3, <2>4, ActType DEF Go
<1>4. CASE Reset(p)
  <2>1. Done(OnReset(board[p])) \in Outcome
    BY <1>2, OnResetKeeps, DoneType
  <2>2. {ResetFrame} \in SUBSET Frames
    BY FramesType
  <2>3. count' \in Counts
    BY <1>2, <1>4, CountsType DEF Reset
  <2> QED  BY <1>4, <2>1, <2>2, <2>3, ActType DEF Reset
<1>5. CASE Void(p)
  <2>1. VoidRun(board[p]) \in Outcome
    BY <1>2, VoidRunKeeps DEF Voided
  <2>2. count' \in Counts
    <3>1. Counted("voids") \in Counts
      BY <1>2, CountedType
    <3>2. [Counted("voids") EXCEPT !.belated = @ + 1] \in Counts
      BY <3>1, CountsType
    <3>3. count' = Counted("voids") \/ count' = [Counted("voids") EXCEPT !.belated = @ + 1]
      <4>1. [Counted("voids") EXCEPT !.belated = @] = Counted("voids")
        BY <3>1 DEF Counts
      <4> QED  BY <1>5, <4>1 DEF Void
    <3> QED  BY <3>1, <3>2, <3>3
  <2> QED  BY <1>5, <2>1, <2>2, ActType DEF Void
<1>6. CASE Swap(p)
  <2>1. Done(SwapLanes(board[p])) \in Outcome
    BY <1>2, SwapLanesKeeps, DoneType
  <2>2. count' \in Counts
    BY <1>2, <1>6, CountedType DEF Swap
  <2> QED  BY <1>6, <2>1, <2>2, ActType DEF Swap
<1>7. CASE Award(p)
  <2> DEFINE done == AwardRunTo(board[p], Other(Offender(board[p])))
             late == board[p].decided \notin {0, done.board.decided}
  <2>1. Other(Offender(board[p])) \in Lanes
    BY <1>7, Kinds DEF Award, Offender
  <2>2. done \in Outcome
    BY <1>2, <2>1, AwardRunToKeeps DEF Voided
  <2>3. Act(p, done, {}) /\ count' = [Counted("awards") EXCEPT !.belated = IF late THEN @ + 1 ELSE @]
    BY <1>7 DEF Award
  <2> HIDE DEF done
  <2>4. count' \in Counts
    <3>1. Counted("awards") \in Counts
      BY <1>2, CountedType
    <3>2. [Counted("awards") EXCEPT !.belated = @ + 1] \in Counts
      BY <3>1, CountsType
    <3>3. [Counted("awards") EXCEPT !.belated = @] = Counted("awards")
      BY <3>1 DEF Counts
    <3>4. CASE late
      BY <2>3, <3>2, <3>4
    <3>5. CASE ~late
      BY <2>3, <3>1, <3>3, <3>5
    <3> QED  BY <3>4, <3>5
  <2> QED  BY <2>2, <2>3, <2>4, ActType
<1>8. ASSUME NEW lane \in Lanes, Stop(p, lane)  PROVE TypeOK'
  <2>1. PICK ms \in Elapsed :
          Act(p, RecordFinish([board[p] EXCEPT !.frozen[lane] = ms], lane, NextRow(p, lane, ms)),
              {StopFrame(lane, ms)})
    BY <1>8 DEF Stop
  <2> DEFINE b == [board[p] EXCEPT !.frozen[lane] = ms]
  <2>2. b \in Board /\ NextRow(p, lane, ms) \in Row
    BY <1>2, FrozenKeeps, NextRowType DEF Result
  <2> HIDE DEF b
  <2>3. RecordFinish(b, lane, NextRow(p, lane, ms)) \in Outcome
    BY <2>2, RecordFinishKeeps
  <2>4. {StopFrame(lane, ms)} \in SUBSET Frames /\ count' \in Counts
    BY <1>2, <1>8, FramesType, CountsType DEF Stop
  <2> QED  BY <2>1, <2>3, <2>4, ActType DEF b
<1>9. ASSUME NEW lane \in Lanes, Resume(p, lane)  PROVE TypeOK'
  <2> DEFINE b == [board[p] EXCEPT !.frozen[lane] = 0]
  <2>1. b \in Board
    BY <1>2, FrozenKeeps
  <2>2. Act(p, ResumeLane(b, lane), {ResumeFrame(lane)}) /\ count' = Counted("resumes")
    BY <1>9 DEF Resume
  <2> HIDE DEF b
  <2>3. ResumeLane(b, lane) \in Outcome
    BY <2>1, ResumeLaneKeeps DEF Withdrawn
  <2>4. {ResumeFrame(lane)} \in SUBSET Frames /\ count' \in Counts
    BY <1>2, <2>2, FramesType, CountedType
  <2> QED  BY <2>2, <2>3, <2>4, ActType
<1>10. ASSUME NEW lane \in Lanes, Dnfed(p, lane)  PROVE TypeOK'
  <2> DEFINE done == RecordDnf(board[p], lane, NextRow(p, lane, Dnf))
  <2>1. NextRow(p, lane, Dnf) \in Row
    BY NextRowType DEF Result
  <2>2. done \in Outcome
    BY <1>2, <2>1, RecordDnfKeeps
  <2>3. \/ Act(p, done, {})
        \/ \E ms \in Elapsed : Act(p, [done EXCEPT !.board.frozen[lane] = ms], {StopFrame(lane, ms)})
    BY <1>10 DEF Dnfed
  <2>4. count' \in Counts
    BY <1>2, <1>10, CountedType, CountsType DEF Dnfed
  <2> HIDE DEF done
  <2>5. ASSUME NEW ms \in Elapsed,
               Act(p, [done EXCEPT !.board.frozen[lane] = ms], {StopFrame(lane, ms)})
        PROVE  TypeOK'
    <3>1. [done EXCEPT !.board.frozen[lane] = ms] \in Outcome
      BY <2>2, StoppedAfterType
    <3>2. {StopFrame(lane, ms)} \in SUBSET Frames
      BY FramesType
    <3> QED  BY <2>4, <2>5, <3>1, <3>2, ActType
  <2> QED  BY <2>2, <2>3, <2>4, <2>5, ActType
<1>11. ASSUME NEW lane \in Lanes, Flag(p, lane)  PROVE TypeOK'
  <2>1. Done(FlagFs(board[p], lane)) \in Outcome /\ Done(ClearFs(board[p], lane)) \in Outcome
    BY <1>2, FlagsKeep, DoneType
  <2>2. count' \in Counts
    BY <1>2, <1>11, CountedType DEF Flag
  <2> QED  BY <1>11, <2>1, <2>2, ActType DEF Flag
<1>12. ASSUME NEW lane \in Lanes, Correct(p, lane)  PROVE TypeOK'
  <2>1. PICK ms \in Elapsed : Act(p, EditLaneTime(board[p], lane, ms), {})
    BY <1>12 DEF Correct
  <2>2. board[p].chip[lane].saved # NoRow /\ ms \in Result
    BY <1>12 DEF Correct, Result
  <2>3. EditLaneTime(board[p], lane, ms) \in Outcome
    BY <1>2, <2>2, EditLaneTimeKeeps
  <2>4. count' \in Counts
    BY <1>2, <1>12, CountedType DEF Correct
  <2> QED  BY <2>1, <2>3, <2>4, ActType
<1>13. ASSUME NEW lane \in Lanes, Retry(p, lane)  PROVE TypeOK'
  <2>1. count.posts + 1 \in Nat
    BY <1>2 DEF Counts
  <2>2. RetrySave(board[p], lane, count.posts + 1) \in Outcome
    BY <1>2, <1>13, <2>1, RetrySaveKeeps DEF Retry
  <2>3. count' \in Counts
    BY <1>2, <1>13, CountsType DEF Retry
  <2> QED  BY <1>13, <2>2, <2>3, ActType DEF Retry
<1>14. CASE Reply(p)
  <2>1. PICK x \in rest :
          /\ x.by = p /\ ~x.edit
          /\ board' = [board EXCEPT ![p] = Saved(board[p], x.lane, x.gen, x.row).board]
          /\ times' = Without(times \union {x.row}, Saved(board[p], x.lane, x.gen, x.row).drops)
          /\ rest' = rest \ {x}
          /\ UNCHANGED <<stamp, net, winner, ledger, count>>
    BY <1>14 DEF Reply
  <2>2. x.lane \in Lanes /\ x.row \in Row
    BY DEF TypeOK, Requests
  <2>3. Saved(board[p], x.lane, x.gen, x.row).board \in Board
    BY <1>2, <2>2, SavedKeeps
  <2> QED  BY <2>1, <2>2, <2>3 DEF TypeOK, Without
<1>15. CASE EditReply(p)
  <2>1. PICK x \in rest :
        /\ x.by = p /\ x.edit /\ x.from \in times
        /\ LET done  == Corrected(board[p], x.lane, x.row, x.closure)
               moved == View(done.board) # View(board[p])
               claim == Minted(p, stamp[p], TRUE, 0)
           IN  /\ board' = [board EXCEPT ![p] = done.board]
               /\ winner' = IF done.put = Keep THEN winner ELSE done.put
               /\ stamp' = IF moved THEN [stamp EXCEPT ![p] = claim] ELSE stamp
               /\ net' = net \union Fanout(p, IF moved THEN {SelectionFrame(claim, done.board)} ELSE {})
               /\ ledger' = Booked(board[p], done.board)
        /\ times' = (times \ {x.from}) \union {x.row}
        /\ rest' = rest \ {x}
        /\ UNCHANGED count
    BY <1>15 DEF EditReply
  <2> DEFINE done == Corrected(board[p], x.lane, x.row, x.closure)
             moved == View(done.board) # View(board[p])
             claim == Minted(p, stamp[p], TRUE, 0)
             sent == IF moved THEN {SelectionFrame(claim, done.board)} ELSE {}
  <2>2. x.lane \in Lanes /\ x.row \in Row /\ x.closure \in Closures
    BY <2>1 DEF TypeOK, Requests, Closures, Wins, Seats
  <2>3. done \in Outcome /\ claim \in Stamp
    BY <1>2, <2>2, CorrectedKeeps, MintedType
  <2> HIDE DEF done, claim
  <2>4. done.board \in Board /\ done.put \in AthleteOrNone \union {Keep}
    BY <2>3 DEF Outcome
  <2>5. sent \in SUBSET Frames
    BY <2>3, <2>4, FramesType
  <2> HIDE DEF moved
  <2>6. /\ board' = [board EXCEPT ![p] = done.board]
        /\ winner' = IF done.put = Keep THEN winner ELSE done.put
        /\ stamp' = IF moved THEN [stamp EXCEPT ![p] = claim] ELSE stamp
        /\ net' = net \union Fanout(p, sent)
        /\ ledger' = Booked(board[p], done.board)
    BY <2>1 DEF done, moved, claim
  <2>7. net' \subseteq [to : Panels, frame : Frames]
    BY <2>5, <2>6, FanoutType DEF TypeOK
  <2>8. board' \in [Panels -> Board] /\ winner' \in AthleteOrNone /\ stamp' \in [Panels -> Stamp]
    BY <2>3, <2>4, <2>6 DEF TypeOK
  <2>9. ledger' \in [1..MaxRuns -> AthleteOrNone]
    BY <1>2, <2>4, <2>6, BookedType
  <2> QED  BY <2>1, <2>2, <2>7, <2>8, <2>9 DEF TypeOK
<1>16. CASE Refuse(p)
  <2>1. PICK x \in rest :
        /\ x.by = p
        /\ count' = count \/ count' = Counted("refused")
        /\ board' = [board EXCEPT ![p] =
                       IF x.edit THEN NotCorrected(board[p], x.lane, x.from).board
                       ELSE Refused(board[p], x.lane, x.gen, x.row).board]
        /\ rest' = rest \ {x}
        /\ UNCHANGED <<stamp, net, times, winner, ledger>>
    BY <1>16 DEF Refuse
  <2>2. x.lane \in Lanes /\ x.row \in Row /\ (x.edit => x.from \in Row)
    BY DEF TypeOK, Requests
  <2>3. Refused(board[p], x.lane, x.gen, x.row).board \in Board
    BY <1>2, <2>2, RefusedKeeps
  <2>4. x.edit => NotCorrected(board[p], x.lane, x.from).board \in Board
    BY <1>2, <2>2, NotCorrectedKeeps
  <2>5. board' \in [Panels -> Board]
    BY <2>1, <2>3, <2>4 DEF TypeOK
  <2>6. count' \in Counts
    BY <1>2, <2>1, CountedType
  <2> QED  BY <2>1, <2>5, <2>6 DEF TypeOK
<1>17. CASE Deliver(p)
  <2>1. PICK m \in net :
        /\ m.to = p
        /\ LET f     == m.frame
               done  == Applied(p, f)
               held  == IF f.kind = "selection" /\ Outranks(f.stamp, stamp[p])
                        THEN f.stamp ELSE stamp[p]
               echo  == IF View(done.board) = View(board[p]) THEN {}
                        ELSE {SelectionFrame(Restated(p, held), done.board)}
           IN  /\ Commit(p, done)
               /\ stamp' = [stamp EXCEPT ![p] = held]
               /\ net' = (net \ {m}) \union Fanout(p, echo)
               /\ times' = Without(times, done.drops)
               /\ ledger' = IF f.kind = "selection" THEN ledger
                            ELSE Booked(board[p], done.board)
        /\ UNCHANGED count
    BY <1>17 DEF Deliver
  <2> DEFINE f == m.frame
             done == Applied(p, f)
             held == IF f.kind = "selection" /\ Outranks(f.stamp, stamp[p])
                     THEN f.stamp ELSE stamp[p]
             echo == IF View(done.board) = View(board[p]) THEN {}
                     ELSE {SelectionFrame(Restated(p, held), done.board)}
  <2>2. f \in Frames
    BY DEF TypeOK
  <2>3. done \in Outcome
    BY <2>2, AppliedType
  <2>4. held \in Stamp
    BY <1>2, <2>2 DEF Frames
  <2> HIDE DEF done, held
  <2>5. done.board \in Board
    BY <2>3 DEF Outcome
  <2>6. Restated(p, held) \in Stamp
    BY <2>4, MintedType
  <2>7. echo \in SUBSET Frames
    BY <2>5, <2>6, FramesType
  <2>8. /\ Commit(p, done) /\ stamp' = [stamp EXCEPT ![p] = held]
        /\ net' = (net \ {m}) \union Fanout(p, echo)
        /\ times' = Without(times, done.drops)
        /\ ledger' = ledger \/ ledger' = Booked(board[p], done.board)
        /\ count' = count
    BY <2>1 DEF done, held
  <2> HIDE DEF echo
  <2>9. net' \subseteq [to : Panels, frame : Frames]
    BY <2>7, <2>8, FanoutType DEF TypeOK
  <2>10. ledger' \in [1..MaxRuns -> AthleteOrNone]
    BY <1>2, <2>5, <2>8, BookedType DEF TypeOK
  <2>11. board' \in [Panels -> Board] /\ rest' \subseteq Requests /\ winner' \in AthleteOrNone
    BY <2>3, <2>8, CommitType
  <2> QED  BY <2>4, <2>8, <2>9, <2>10, <2>11 DEF TypeOK, Without
<1> QED
  BY <1>1, <1>3, <1>4, <1>5, <1>6, <1>7, <1>8, <1>9, <1>10, <1>11, <1>12, <1>13, <1>14, <1>15,
     <1>16, <1>17

\* The boards, frames, requests and rows of the race keep their types, whatever is pressed.
THEOREM RaceTypeCorrect == Spec => []TypeOK
<1>1. Init => TypeOK
  <2>1. InitialStamp \in Stamp /\ NoCount \in Counts
    BY DEF InitialStamp, Stamp, NoCount, Counts
  <2> QED  BY <2>1, FreshBoardType DEF Init, TypeOK, AthleteOrNone
<1>2. TypeOK /\ UNCHANGED vars => TypeOK'
  BY DEF TypeOK, vars
<1>3. TypeOK /\ [Next]_vars => TypeOK'
  BY <1>2, TypeStep
<1> QED  BY <1>1, <1>3, PTL DEF Spec

-----------------------------------------------------------------------------
(* The clocks.                                                             *)

IsLane(f) == f.kind \in {"stop", "resume"}

LaneTo(p, l) == \E m \in net : m.to = p /\ IsLane(m.frame) /\ m.frame.lane = l
StartTo(p) == \E m \in net : m.to = p /\ m.frame.kind = "start"
ResetTo(p) == \E m \in net : m.to = p /\ m.frame.kind = "reset"

\* The reset of every clock that is still on a run is on its way.
Closing == \A p \in Panels : board[p].run # 0 => ResetTo(p)

\* What the clock of a lane shows once the frame is in.
Shown(f) == IF f.kind = "stop" THEN f.ms ELSE 0

\* A panel is on the last run started, or on none ...
RunIsLast == \A p \in Panels : board[p].run \in {0, count.runs}
\* ... a start finds a panel that is reset ...
StartFindsReset ==
    \A m \in net : m.frame.kind = "start" =>
        m.frame.run = count.runs /\ count.runs > 0 /\ board[m.to].run = 0
\* ... and is over before the run it starts moves on ...
StartIsFirst ==
    ~StartLanded =>
        /\ \A m \in net : m.frame.kind # "reset" /\ ~IsLane(m.frame)
        /\ \A p \in Panels : board[p].run # 0 => board[p].frozen = Both(0)
\* ... and one reset, landed or not, is a reset of all.
ResetIsForAll ==
    \A p \in Panels :
        (board[p].run = 0 /\ ~StartTo(p)) \/ ResetTo(p) => Closing /\ StartLanded

RunInv == RunIsLast /\ StartFindsReset /\ StartIsFirst /\ ResetIsForAll

\* The frames of a lane in flight say the same ...
OneWordPerLane ==
    \A m, n \in net : IsLane(m.frame) /\ IsLane(n.frame) /\ m.frame.lane = n.frame.lane
        => m.frame = n.frame
\* ... the panels with none to come agree on the lane, and with those frames ...
HeardAgree ==
    \A p, q \in Panels, l \in Lanes :
        board[p].run # 0 /\ board[q].run # 0 /\ ~LaneTo(p, l) /\ ~LaneTo(q, l)
        => board[p].frozen[l] = board[q].frozen[l]
HeardShows ==
    \A m \in net, q \in Panels :
        IsLane(m.frame) /\ board[q].run # 0 /\ ~LaneTo(q, m.frame.lane)
        => board[q].frozen[m.frame.lane] = Shown(m.frame)
\* ... and a stop finds a clock that runs.
StopFindsRunning ==
    \A m \in net : m.frame.kind = "stop" /\ board[m.to].run # 0
        => board[m.to].frozen[m.frame.lane] = 0

LaneInv == OneWordPerLane /\ HeardAgree /\ HeardShows /\ StopFindsRunning

ClockInv == RunInv /\ LaneInv

\* A step of a panel: c is on its board, `gone` is delivered to it, the frames leave
\* and with them what it says of the selection.
Sends(p, c, gone, frames) ==
    /\ c \in Board /\ board' = [board EXCEPT ![p] = c]
    /\ \E echo \in SUBSET Frames :
         /\ \A f \in echo : f.kind = "selection"
         /\ net' = (net \ gone) \union Fanout(p, frames \union echo)

LEMMA ActSends ==
    ASSUME TypeOK, NEW p \in Panels, NEW done \in Outcome, NEW frames, Act(p, done, frames)
    PROVE  Sends(p, done.board, {}, frames)
<1> DEFINE claim == Minted(p, stamp[p], TRUE, 0)
           moved == View(done.board) # View(board[p])
           echo == IF moved THEN {SelectionFrame(claim, done.board)} ELSE {}
<1>1. done.board \in Board /\ stamp[p] \in Stamp
  BY DEF TypeOK, Outcome
<1>2. claim \in Stamp
  BY <1>1, MintedType
<1>3. echo \in SUBSET Frames /\ \A f \in echo : f.kind = "selection"
  <2>1. SelectionFrame(claim, done.board) \in Frames
    BY <1>1, <1>2, FramesType
  <2>2. SelectionFrame(claim, done.board).kind = "selection"
    BY DEF SelectionFrame
  <2> QED  BY <2>1, <2>2
<1>4. board' = [board EXCEPT ![p] = done.board] /\ net' = net \union Fanout(p, frames \union echo)
  BY DEF Act, Commit
<1> HIDE DEF echo
<1> QED  BY <1>1, <1>3, <1>4 DEF Sends

\* What is in flight after it.
LEMMA SendsWhat ==
    ASSUME NEW p \in Panels, NEW c, NEW gone, NEW frames, Sends(p, c, gone, frames),
           board \in [Panels -> Board]
    PROVE  /\ board'[p] = c /\ \A q \in Panels : q # p => board'[q] = board[q]
           /\ \A m \in net : m \notin gone => m \in net'
           /\ \A m \in net' :
                \/ m \in net /\ m \notin gone
                \/ m.to \in Panels /\ m.to # p /\ (m.frame \in frames \/ m.frame.kind = "selection")
           /\ \A q \in Panels, f \in frames : q # p => [to |-> q, frame |-> f] \in net'
<1>1. PICK echo \in SUBSET Frames :
        /\ \A f \in echo : f.kind = "selection"
        /\ net' = (net \ gone) \union Fanout(p, frames \union echo)
  BY DEF Sends
<1>2. board'[p] = c /\ \A q \in Panels : q # p => board'[q] = board[q]
  BY DEF Sends
<1>3. \A q \in Panels \ {p}, f \in frames \union echo :
        [to |-> q, frame |-> f] \in Fanout(p, frames \union echo)
  BY DEF Fanout
<1>4. \A m \in Fanout(p, frames \union echo) :
        m.to \in Panels \ {p} /\ m.frame \in frames \union echo
  BY DEF Fanout
<1> QED  BY <1>1, <1>2, <1>3, <1>4

\* A step that moves no clock and no frame about one, but to a panel without a run.
LEMMA ClocksStand ==
    ASSUME TypeOK, ClockInv, NEW p \in Panels, NEW c, NEW gone, Sends(p, c, gone, {}),
           c.run = board[p].run, board[p].run # 0 => c.frozen = board[p].frozen,
           count'.runs = count.runs,
           \A m \in gone : m.to = p /\ (m.frame.kind = "selection" \/ (IsLane(m.frame) /\ board[p].run = 0))
    PROVE  ClockInv'
<1> USE DEF TypeOK
<1>1. /\ board'[p] = c /\ \A q \in Panels : q # p => board'[q] = board[q]
      /\ \A m \in net : m \notin gone => m \in net'
      /\ \A m \in net' : (m \in net /\ m \notin gone) \/ m.frame.kind = "selection"
  BY SendsWhat
<1>2. \A q \in Panels :
        board'[q].run = board[q].run /\ (board[q].run # 0 => board'[q].frozen = board[q].frozen)
  BY <1>1
<1>3. /\ \A q \in Panels : StartTo(q)' = StartTo(q) /\ ResetTo(q)' = ResetTo(q)
      /\ StartLanded' = StartLanded
  BY <1>1 DEF StartTo, ResetTo, StartLanded, IsLane
<1>4. \A q \in Panels, l \in Lanes : board[q].run # 0 => LaneTo(q, l)' = LaneTo(q, l)
  BY <1>1 DEF LaneTo, IsLane
<1>5. Closing' = Closing
  BY <1>2, <1>3 DEF Closing
<1>6. RunInv'
  <2>1. RunIsLast'
    BY <1>2 DEF ClockInv, RunInv, RunIsLast
  <2>2. StartFindsReset'
    BY <1>1, <1>2 DEF ClockInv, RunInv, StartFindsReset
  <2>3. StartIsFirst'
    BY <1>1, <1>2, <1>3 DEF ClockInv, RunInv, StartIsFirst, IsLane
  <2>4. ResetIsForAll'
    BY <1>2, <1>3, <1>5 DEF ClockInv, RunInv, ResetIsForAll
  <2> QED  BY <2>1, <2>2, <2>3, <2>4 DEF RunInv
<1>7. LaneInv'
  <2>1. OneWordPerLane'
    BY <1>1 DEF ClockInv, LaneInv, OneWordPerLane, IsLane
  <2>2. HeardAgree'
    BY <1>2, <1>4 DEF ClockInv, LaneInv, HeardAgree
  <2>3. HeardShows'
    <3>1. SUFFICES ASSUME NEW m \in net', NEW q \in Panels, IsLane(m.frame), board'[q].run # 0,
                          ~LaneTo(q, m.frame.lane)'
                   PROVE  board'[q].frozen[m.frame.lane] = Shown(m.frame)
      BY DEF HeardShows
    <3>2. m \in net
      BY <1>1, <3>1 DEF IsLane
    <3>3. m.frame.lane \in Lanes
      BY <3>1, <3>2 DEF Frames, IsLane
    <3> QED  BY <1>2, <1>4, <3>1, <3>2, <3>3 DEF ClockInv, LaneInv, HeardShows
  <2>4. StopFindsRunning'
    BY <1>1, <1>2 DEF ClockInv, LaneInv, StopFindsRunning
  <2> QED  BY <2>1, <2>2, <2>3, <2>4 DEF LaneInv
<1> QED  BY <1>6, <1>7 DEF ClockInv

LEMMA GoClocks ==
    ASSUME TypeOK, ClockInv, NEW p \in Panels, NEW c, count'.runs = count.runs + 1, net = {},
           board[p].run = 0, c.run = count.runs + 1, c.frozen = Both(0),
           Sends(p, c, {}, {StartFrame(count.runs + 1)})
    PROVE  ClockInv'
<1> USE DEF TypeOK
<1> DEFINE run == count.runs + 1
<1>1. /\ board'[p] = c /\ \A q \in Panels : q # p => board'[q] = board[q]
      /\ \A m \in net' : m.to \in Panels /\ m.to # p
                         /\ (m.frame = StartFrame(run) \/ m.frame.kind = "selection")
      /\ \A q \in Panels : q # p => [to |-> q, frame |-> StartFrame(run)] \in net'
  BY SendsWhat
<1>2. \A q \in Panels : board[q].run = 0
  BY DEF ClockInv, RunInv, ResetIsForAll, StartTo, Closing, ResetTo
<1>3. StartFrame(run).kind = "start" /\ StartFrame(run).run = run /\ run > 0
  BY DEF StartFrame, Counts
<1>4. \A q \in Panels : q # p => StartTo(q)'
  BY <1>1, <1>3 DEF StartTo
<1>5. \A m \in net' : m.frame.kind # "reset" /\ ~IsLane(m.frame)
  BY <1>1, <1>3 DEF IsLane
<1>6. \A q \in Panels : ~ResetTo(q)'
  BY <1>5 DEF ResetTo
<1>7. RunInv'
  <2>1. RunIsLast'
    BY <1>1, <1>2 DEF RunIsLast
  <2>2. StartFindsReset'
    BY <1>1, <1>2, <1>3 DEF StartFindsReset
  <2>3. StartIsFirst'
    BY <1>1, <1>2, <1>5 DEF StartIsFirst
  <2>4. ResetIsForAll'
    BY <1>1, <1>3, <1>4, <1>6 DEF ResetIsForAll
  <2> QED  BY <2>1, <2>2, <2>3, <2>4 DEF RunInv
<1>8. LaneInv'
  <2>1. \A q \in Panels : board'[q].run # 0 => q = p
    BY <1>1, <1>2
  <2> QED  BY <1>5, <2>1 DEF LaneInv, OneWordPerLane, HeardAgree, HeardShows, StopFindsRunning, IsLane
<1> QED  BY <1>7, <1>8 DEF ClockInv

LEMMA ResetClocks ==
    ASSUME TypeOK, ClockInv, NEW p \in Panels, NEW c, count'.runs = count.runs, StartLanded,
           c.run = 0, Sends(p, c, {}, {ResetFrame})
    PROVE  ClockInv'
<1> USE DEF TypeOK
<1>1. /\ board'[p] = c /\ \A q \in Panels : q # p => board'[q] = board[q]
      /\ \A m \in net : m \in net'
      /\ \A m \in net' : m \in net \/ m.frame = ResetFrame \/ m.frame.kind = "selection"
      /\ \A q \in Panels : q # p => [to |-> q, frame |-> ResetFrame] \in net'
  BY SendsWhat
<1>2. ResetFrame.kind = "reset"
  BY DEF ResetFrame
<1>3. \A m \in net' : IsLane(m.frame) => m \in net
  BY <1>1, <1>2 DEF IsLane
<1>4. StartLanded'
  BY <1>1, <1>2 DEF StartLanded
<1>5. Closing'
  BY <1>1, <1>2 DEF Closing, ResetTo
<1>6. RunInv'
  BY <1>1, <1>4, <1>5
     DEF ClockInv, RunInv, RunIsLast, StartFindsReset, StartIsFirst, ResetIsForAll, StartLanded
<1>7. \A q \in Panels, l \in Lanes : LaneTo(q, l)' = LaneTo(q, l)
  BY <1>1, <1>3 DEF LaneTo
<1>8. LaneInv'
  <2>1. OneWordPerLane'
    BY <1>3 DEF ClockInv, LaneInv, OneWordPerLane
  <2>2. HeardAgree'
    BY <1>1, <1>7 DEF ClockInv, LaneInv, HeardAgree
  <2>3. HeardShows'
    <3>1. SUFFICES ASSUME NEW m \in net', NEW q \in Panels, IsLane(m.frame), board'[q].run # 0,
                          ~LaneTo(q, m.frame.lane)'
                   PROVE  board'[q].frozen[m.frame.lane] = Shown(m.frame)
      BY DEF HeardShows
    <3>2. m \in net
      BY <1>3, <3>1
    <3>3. m.frame.lane \in Lanes
      BY <3>1, <3>2 DEF Frames, IsLane
    <3> QED  BY <1>1, <1>7, <3>1, <3>2, <3>3 DEF ClockInv, LaneInv, HeardShows
  <2>4. StopFindsRunning'
    BY <1>1, <1>3 DEF ClockInv, LaneInv, StopFindsRunning, IsLane
  <2> QED  BY <2>1, <2>2, <2>3, <2>4 DEF LaneInv
<1> QED  BY <1>6, <1>8 DEF ClockInv

\* Where a lane is pressed, every panel is on the run.
LEMMA PressedOnAll ==
    ASSUME TypeOK, ClockInv, NEW p \in Panels, OnlyLanesMove, board[p].run # 0
    PROVE  \A q \in Panels : board[q].run = count.runs /\ board[q].run # 0
<1>1. \A q \in Panels : ~StartTo(q) /\ ~ResetTo(q)
  BY DEF StartTo, ResetTo, OnlyLanesMove
<1>2. \A q \in Panels : board[q].run # 0
  BY <1>1 DEF ClockInv, RunInv, ResetIsForAll, Closing
<1> QED  BY <1>2 DEF ClockInv, RunInv, RunIsLast

\* A lane stopped or resumed on a panel, and the frame for the others.
LEMMA PressClocks ==
    ASSUME TypeOK, ClockInv, NEW p \in Panels, NEW c, NEW lane \in Lanes, NEW f \in Frames,
           count'.runs = count.runs, Sends(p, c, {}, {f}),
           LaneLanded(lane), StartLanded, board[p].run # 0,
           IsLane(f), f.lane = lane,
           c.run = board[p].run, c.frozen = [board[p].frozen EXCEPT ![lane] = Shown(f)],
           f.kind = "stop" => OnlyLanesMove /\ board[p].frozen[lane] = 0
    PROVE  ClockInv'
<1> USE DEF TypeOK
<1>1. /\ board'[p] = c /\ \A q \in Panels : q # p => board'[q] = board[q]
      /\ \A m \in net : m \in net'
      /\ \A m \in net' : m \in net \/ (m.to # p /\ m.frame = f) \/ m.frame.kind = "selection"
      /\ \A q \in Panels : q # p => [to |-> q, frame |-> f] \in net'
  BY SendsWhat
<1>2. \A q \in Panels : board'[q].run = board[q].run
  BY <1>1
<1>3. \A q \in Panels : q # p => board'[q].frozen = board[q].frozen
  BY <1>1
<1>4. board'[p].frozen[lane] = Shown(f)
      /\ \A l \in Lanes : l # lane => board'[p].frozen[l] = board[p].frozen[l]
  <2>1. board[p].frozen \in [Lanes -> Elapsed \union {0}]
    BY DEF Board
  <2> QED  BY <1>1, <2>1
<1>5. \A q \in Panels, l \in Lanes : l # lane => board'[q].frozen[l] = board[q].frozen[l]
  BY <1>3, <1>4
<1>6. \A m \in net' : m.frame.kind \in {"start", "reset"} => m \in net
  BY <1>1 DEF IsLane
<1>7. /\ \A q \in Panels : StartTo(q)' = StartTo(q) /\ ResetTo(q)' = ResetTo(q)
      /\ StartLanded'
  BY <1>1, <1>6 DEF StartTo, ResetTo, StartLanded
<1>8. Closing' = Closing
  BY <1>2, <1>7 DEF Closing
<1>9. RunInv'
  BY <1>2, <1>6, <1>7, <1>8
     DEF ClockInv, RunInv, RunIsLast, StartFindsReset, StartIsFirst, ResetIsForAll, StartLanded
<1>10. /\ \A m \in net' : IsLane(m.frame) /\ m.frame.lane = lane => m.frame = f /\ m.to # p
       /\ \A m \in net' : IsLane(m.frame) /\ m.frame.lane # lane => m \in net
  BY <1>1 DEF LaneLanded, IsLane
<1>11. /\ \A q \in Panels : q # p => LaneTo(q, lane)'
       /\ \A q \in Panels, l \in Lanes : l # lane => LaneTo(q, l)' = LaneTo(q, l)
  <2>1. \A q \in Panels : q # p => [to |-> q, frame |-> f].to = q /\ [to |-> q, frame |-> f].frame = f
    OBVIOUS
  <2>2. \A q \in Panels : q # p => LaneTo(q, lane)'
    BY <1>1, <2>1 DEF LaneTo
  <2>3. \A q \in Panels, l \in Lanes : l # lane => LaneTo(q, l)' = LaneTo(q, l)
    BY <1>1, <1>10 DEF LaneTo
  <2> QED  BY <2>2, <2>3
<1>12. \A m \in net' : IsLane(m.frame) => m.frame.lane \in Lanes
  BY <1>10 DEF Frames, IsLane
<1>13. LaneInv'
  <2>1. OneWordPerLane'
    BY <1>10 DEF ClockInv, LaneInv, OneWordPerLane
  <2>2. HeardAgree'
    <3>1. SUFFICES ASSUME NEW q \in Panels, NEW r \in Panels, NEW l \in Lanes,
                          board'[q].run # 0, board'[r].run # 0, ~LaneTo(q, l)', ~LaneTo(r, l)'
                   PROVE  board'[q].frozen[l] = board'[r].frozen[l]
      BY DEF HeardAgree
    <3>2. CASE l = lane
      BY <1>11, <3>1, <3>2
    <3>3. CASE l # lane
      BY <1>2, <1>5, <1>11, <3>1, <3>3 DEF ClockInv, LaneInv, HeardAgree
    <3> QED  BY <3>2, <3>3
  <2>3. HeardShows'
    <3>1. SUFFICES ASSUME NEW m \in net', NEW q \in Panels, IsLane(m.frame), board'[q].run # 0,
                          ~LaneTo(q, m.frame.lane)'
                   PROVE  board'[q].frozen[m.frame.lane] = Shown(m.frame)
      BY DEF HeardShows
    <3>2. CASE m.frame.lane = lane
      <4>1. q = p /\ m.frame = f
        BY <1>10, <1>11, <3>1, <3>2
      <4> QED  BY <1>4, <3>2, <4>1
    <3>3. CASE m.frame.lane # lane
      <4>1. m \in net /\ m.frame.lane \in Lanes
        BY <1>10, <1>12, <3>1, <3>3
      <4>2. board[q].frozen[m.frame.lane] = Shown(m.frame)
        BY <1>2, <1>11, <3>1, <3>3, <4>1 DEF ClockInv, LaneInv, HeardShows
      <4> QED  BY <1>5, <3>3, <4>1, <4>2
    <3> QED  BY <3>2, <3>3
  <2>4. StopFindsRunning'
    <3>1. SUFFICES ASSUME NEW m \in net', m.frame.kind = "stop", board'[m.to].run # 0
                   PROVE  board'[m.to].frozen[m.frame.lane] = 0
      BY DEF StopFindsRunning
    <3>2. IsLane(m.frame) /\ m.frame.lane \in Lanes
      BY <1>12, <3>1 DEF IsLane
    <3>3. m.to \in Panels
      BY <1>10, <3>1, SendsWhat, <3>2
    <3>4. CASE m.frame.lane = lane
      <4>1. m.to # p /\ f.kind = "stop"
        BY <1>10, <3>1, <3>2, <3>4
      <4>2. \A q \in Panels : board[q].run # 0
        BY <4>1, PressedOnAll
      <4>3. \A q \in Panels : ~LaneTo(q, lane)
        BY DEF LaneTo, LaneLanded, IsLane
      <4>4. board[m.to].frozen[lane] = board[p].frozen[lane]
        BY <3>3, <4>2, <4>3 DEF ClockInv, LaneInv, HeardAgree
      <4> QED  BY <1>3, <3>3, <3>4, <4>1, <4>4
    <3>5. CASE m.frame.lane # lane
      <4>1. m \in net
        BY <1>10, <3>2, <3>5
      <4>2. board[m.to].frozen[m.frame.lane] = 0
        BY <1>2, <3>1, <3>3, <4>1 DEF ClockInv, LaneInv, StopFindsRunning
      <4> QED  BY <1>5, <3>2, <3>3, <3>5, <4>2
    <3> QED  BY <3>4, <3>5
  <2> QED  BY <2>1, <2>2, <2>3, <2>4 DEF LaneInv
<1> QED  BY <1>9, <1>13 DEF ClockInv

\* A start taken over.
LEMMA StartedClocks ==
    ASSUME TypeOK, ClockInv, NEW p \in Panels, NEW c, NEW m \in net, m.to = p,
           m.frame.kind = "start", c.run = m.frame.run, c.frozen = Both(0),
           count'.runs = count.runs, Sends(p, c, {m}, {})
    PROVE  ClockInv'
<1> USE DEF TypeOK
<1>1. /\ board'[p] = c /\ \A q \in Panels : q # p => board'[q] = board[q]
      /\ \A n \in net : n \notin {m} => n \in net'
      /\ \A n \in net' : (n \in net /\ n \notin {m}) \/ n.frame.kind = "selection"
  BY SendsWhat
<1>2. ~StartLanded
  BY DEF StartLanded
<1>3. /\ m.frame.run = count.runs /\ count.runs > 0 /\ board[p].run = 0
      /\ \A n \in net : n.frame.kind # "reset" /\ ~IsLane(n.frame)
      /\ \A q \in Panels : board[q].run # 0 => board[q].frozen = Both(0)
  BY <1>2 DEF ClockInv, RunInv, StartFindsReset, StartIsFirst
<1>4. \A n \in net' : n.frame.kind # "reset" /\ ~IsLane(n.frame)
  BY <1>1, <1>3 DEF IsLane
<1>5. \A n \in net : n.frame.kind = "start" /\ n.to = p => n = m
  <2>1. \A n \in net : n.frame.kind = "start" => n.frame = [kind |-> "start", run |-> count.runs]
    BY DEF Frames, ClockInv, RunInv, StartFindsReset
  <2>2. \A n \in net : n = [to |-> n.to, frame |-> n.frame]
    OBVIOUS
  <2> QED  BY <2>1, <2>2
<1>6. \A q \in Panels : q # p => StartTo(q)' = StartTo(q)
  BY <1>1 DEF StartTo
<1>7. \A q \in Panels : ~ResetTo(q)' /\ ~ResetTo(q)
  BY <1>3, <1>4 DEF ResetTo
<1>8. \A q \in Panels : board[q].run = 0 => StartTo(q)
  BY <1>2 DEF ClockInv, RunInv, ResetIsForAll
<1>9. RunInv'
  <2>1. RunIsLast'
    BY <1>1, <1>3 DEF ClockInv, RunInv, RunIsLast
  <2>2. StartFindsReset'
    BY <1>1, <1>3, <1>5 DEF ClockInv, RunInv, StartFindsReset
  <2>3. StartIsFirst'
    BY <1>1, <1>3, <1>4 DEF StartIsFirst
  <2>4. ResetIsForAll'
    BY <1>1, <1>3, <1>6, <1>7, <1>8 DEF ResetIsForAll
  <2> QED  BY <2>1, <2>2, <2>3, <2>4 DEF RunInv
<1>10. LaneInv'
  <2>1. \A q \in Panels : board'[q].run # 0 => board'[q].frozen = Both(0)
    BY <1>1, <1>3
  <2> QED
    BY <1>4, <2>1 DEF LaneInv, OneWordPerLane, HeardAgree, HeardShows, StopFindsRunning, IsLane
<1> QED  BY <1>9, <1>10 DEF ClockInv

\* A reset taken over.
LEMMA ClearedClocks ==
    ASSUME TypeOK, ClockInv, NEW p \in Panels, NEW c, NEW m \in net, m.to = p,
           m.frame.kind = "reset", c.run = 0,
           count'.runs = count.runs, Sends(p, c, {m}, {})
    PROVE  ClockInv'
<1> USE DEF TypeOK
<1>1. /\ board'[p] = c /\ \A q \in Panels : q # p => board'[q] = board[q]
      /\ \A n \in net : n \notin {m} => n \in net'
      /\ \A n \in net' : (n \in net /\ n \notin {m}) \/ n.frame.kind = "selection"
  BY SendsWhat
<1>2. ResetTo(p)
  BY DEF ResetTo
<1>3. Closing /\ StartLanded
  BY <1>2 DEF ClockInv, RunInv, ResetIsForAll
<1>4. \A q \in Panels : q # p => ResetTo(q)' = ResetTo(q)
  BY <1>1 DEF ResetTo
<1>5. Closing' /\ StartLanded'
  BY <1>1, <1>3, <1>4 DEF Closing, StartLanded
<1>6. RunInv'
  BY <1>1, <1>5 DEF ClockInv, RunInv, RunIsLast, StartFindsReset, StartIsFirst, ResetIsForAll, StartLanded
<1>7. \A q \in Panels, l \in Lanes : LaneTo(q, l)' = LaneTo(q, l)
  BY <1>1 DEF LaneTo, IsLane
<1>8. \A n \in net' : IsLane(n.frame) => n \in net
  BY <1>1 DEF IsLane
<1>9. LaneInv'
  <2>1. OneWordPerLane'
    BY <1>8 DEF ClockInv, LaneInv, OneWordPerLane
  <2>2. HeardAgree'
    BY <1>1, <1>7 DEF ClockInv, LaneInv, HeardAgree
  <2>3. HeardShows'
    <3>1. SUFFICES ASSUME NEW n \in net', NEW q \in Panels, IsLane(n.frame), board'[q].run # 0,
                          ~LaneTo(q, n.frame.lane)'
                   PROVE  board'[q].frozen[n.frame.lane] = Shown(n.frame)
      BY DEF HeardShows
    <3>2. n \in net
      BY <1>8, <3>1
    <3>3. n.frame.lane \in Lanes
      BY <3>1, <3>2 DEF Frames, IsLane
    <3> QED  BY <1>1, <1>7, <3>1, <3>2, <3>3 DEF ClockInv, LaneInv, HeardShows
  <2>4. StopFindsRunning'
    BY <1>1, <1>8 DEF ClockInv, LaneInv, StopFindsRunning, IsLane
  <2> QED  BY <2>1, <2>2, <2>3, <2>4 DEF LaneInv
<1> QED  BY <1>6, <1>9 DEF ClockInv

\* A lane's frame taken over by a clock that is on a run.
LEMMA FollowedClocks ==
    ASSUME TypeOK, ClockInv, NEW p \in Panels, NEW c, NEW m \in net, m.to = p,
           IsLane(m.frame), board[p].run # 0, c.run = board[p].run,
           c.frozen = [board[p].frozen EXCEPT ![m.frame.lane] = Shown(m.frame)],
           count'.runs = count.runs, Sends(p, c, {m}, {})
    PROVE  ClockInv'
<1> USE DEF TypeOK
<1> DEFINE lane == m.frame.lane
<1>1. /\ board'[p] = c /\ \A q \in Panels : q # p => board'[q] = board[q]
      /\ \A n \in net : n \notin {m} => n \in net'
      /\ \A n \in net' : (n \in net /\ n \notin {m}) \/ n.frame.kind = "selection"
  BY SendsWhat
<1>2. lane \in Lanes
  BY DEF Frames, IsLane
<1>3. \A q \in Panels : board'[q].run = board[q].run
  BY <1>1
<1>4. \A q \in Panels, l \in Lanes : q # p \/ l # lane => board'[q].frozen[l] = board[q].frozen[l]
  BY <1>1, <1>2 DEF Board
<1>5. board'[p].frozen[lane] = Shown(m.frame)
  BY <1>1, <1>2 DEF Board
<1>6. /\ \A q \in Panels : StartTo(q)' = StartTo(q) /\ ResetTo(q)' = ResetTo(q)
      /\ StartLanded' = StartLanded
  BY <1>1 DEF StartTo, ResetTo, StartLanded, IsLane
<1>7. Closing' = Closing
  BY <1>3, <1>6 DEF Closing
<1>8. RunInv'
  <2>1. StartLanded'
    BY <1>6 DEF ClockInv, RunInv, StartIsFirst
  <2> QED
    BY <1>1, <1>3, <1>6, <1>7, <2>1
       DEF ClockInv, RunInv, RunIsLast, StartFindsReset, StartIsFirst, ResetIsForAll
<1>9. \A n \in net' : IsLane(n.frame) => n \in net /\ n.frame.lane \in Lanes /\ n.to \in Panels
  BY <1>1 DEF Frames, IsLane
<1>10. \A n \in net : IsLane(n.frame) /\ n.frame.lane = lane => n.frame = m.frame
  BY DEF ClockInv, LaneInv, OneWordPerLane
<1>11. \A n \in net' : IsLane(n.frame) /\ n.frame.lane = lane => n.to # p
  <2>1. SUFFICES ASSUME NEW n \in net', IsLane(n.frame), n.frame.lane = lane, n.to = p  PROVE FALSE
    OBVIOUS
  <2>2. n \in net /\ n # m
    BY <1>1, <2>1 DEF IsLane
  <2>3. n.frame = m.frame
    BY <1>10, <2>1, <2>2
  <2>4. n = [to |-> n.to, frame |-> n.frame] /\ m = [to |-> m.to, frame |-> m.frame]
    BY <2>2
  <2> QED  BY <2>1, <2>2, <2>3, <2>4
<1>12. \A q \in Panels, l \in Lanes : q # p \/ l # lane => LaneTo(q, l)' = LaneTo(q, l)
  BY <1>1 DEF LaneTo, IsLane
<1>13. LaneInv'
  <2>1. OneWordPerLane'
    BY <1>9 DEF ClockInv, LaneInv, OneWordPerLane
  <2>2. HeardAgree'
    <3>1. SUFFICES ASSUME NEW q \in Panels, NEW r \in Panels, NEW l \in Lanes,
                          board'[q].run # 0, board'[r].run # 0, ~LaneTo(q, l)', ~LaneTo(r, l)'
                   PROVE  board'[q].frozen[l] = board'[r].frozen[l]
      BY DEF HeardAgree
    <3>2. ASSUME NEW s \in Panels, s # p, ~LaneTo(s, lane)', board'[s].run # 0
          PROVE  board'[s].frozen[lane] = Shown(m.frame)
      <4>1. ~LaneTo(s, lane) /\ board[s].run # 0
        BY <1>2, <1>3, <1>12, <3>2
      <4>2. board[s].frozen[lane] = Shown(m.frame)
        BY <4>1 DEF ClockInv, LaneInv, HeardShows
      <4> QED  BY <1>2, <1>4, <3>2, <4>2
    <3>3. CASE l = lane
      BY <1>5, <3>1, <3>2, <3>3
    <3>4. CASE l # lane
      BY <1>3, <1>4, <1>12, <3>1, <3>4 DEF ClockInv, LaneInv, HeardAgree
    <3> QED  BY <3>3, <3>4
  <2>3. HeardShows'
    <3>1. SUFFICES ASSUME NEW n \in net', NEW q \in Panels, IsLane(n.frame), board'[q].run # 0,
                          ~LaneTo(q, n.frame.lane)'
                   PROVE  board'[q].frozen[n.frame.lane] = Shown(n.frame)
      BY DEF HeardShows
    <3>2. n \in net /\ n.frame.lane \in Lanes
      BY <1>9, <3>1
    <3>3. CASE q = p /\ n.frame.lane = lane
      BY <1>5, <1>10, <3>1, <3>2, <3>3
    <3>4. CASE q # p \/ n.frame.lane # lane
      BY <1>3, <1>4, <1>12, <3>1, <3>2, <3>4 DEF ClockInv, LaneInv, HeardShows
    <3> QED  BY <3>3, <3>4
  <2>4. StopFindsRunning'
    <3>1. SUFFICES ASSUME NEW n \in net', n.frame.kind = "stop", board'[n.to].run # 0
                   PROVE  board'[n.to].frozen[n.frame.lane] = 0
      BY DEF StopFindsRunning
    <3>2. IsLane(n.frame) /\ n \in net /\ n.frame.lane \in Lanes /\ n.to \in Panels
      BY <1>9, <3>1 DEF IsLane
    <3>3. n.to # p \/ n.frame.lane # lane
      BY <1>11, <3>2
    <3> QED  BY <1>3, <1>4, <3>1, <3>2, <3>3 DEF ClockInv, LaneInv, StopFindsRunning
  <2> QED  BY <2>1, <2>2, <2>3, <2>4 DEF LaneInv
<1> QED  BY <1>8, <1>13 DEF ClockInv

LEMMA StillSends ==
    ASSUME NEW p \in Panels, NEW c \in Board, board' = [board EXCEPT ![p] = c], net' = net
    PROVE  Sends(p, c, {}, {})
<1>1. net' = (net \ {}) \union Fanout(p, {} \union {})
  BY DEF Fanout
<1> QED  BY <1>1 DEF Sends

\* A frame is delivered: which, and what that sends.
LEMMA DeliverSends ==
    ASSUME TypeOK, NEW p \in Panels, Deliver(p)
    PROVE  \E m \in net :
             /\ m.to = p /\ m.frame \in Frames
             /\ Applied(p, m.frame) \in Outcome
             /\ Commit(p, Applied(p, m.frame))
             /\ times' = Without(times, Applied(p, m.frame).drops)
             /\ Sends(p, Applied(p, m.frame).board, {m}, {})
             /\ count' = count
<1>1. PICK m \in net :
      /\ m.to = p
      /\ LET f     == m.frame
             done  == Applied(p, f)
             held  == IF f.kind = "selection" /\ Outranks(f.stamp, stamp[p])
                      THEN f.stamp ELSE stamp[p]
             echo  == IF View(done.board) = View(board[p]) THEN {}
                      ELSE {SelectionFrame(Restated(p, held), done.board)}
         IN  /\ Commit(p, done)
             /\ stamp' = [stamp EXCEPT ![p] = held]
             /\ net' = (net \ {m}) \union Fanout(p, echo)
             /\ times' = Without(times, done.drops)
             /\ ledger' = IF f.kind = "selection" THEN ledger
                          ELSE Booked(board[p], done.board)
      /\ UNCHANGED count
  BY DEF Deliver
<1> DEFINE f == m.frame
           done == Applied(p, f)
           held == IF f.kind = "selection" /\ Outranks(f.stamp, stamp[p]) THEN f.stamp ELSE stamp[p]
           again == SelectionFrame(Restated(p, held), done.board)
           echo == IF View(done.board) = View(board[p]) THEN {} ELSE {again}
<1>2. f \in Frames /\ stamp[p] \in Stamp
  BY DEF TypeOK
<1>3. done \in Outcome
  BY <1>2, AppliedType
<1>4. held \in Stamp
  BY <1>2 DEF Frames
<1> HIDE DEF held, done
<1>5. done.board \in Board /\ Restated(p, held) \in Stamp
  BY <1>3, <1>4, MintedType DEF Outcome
<1>6. again \in Frames
  BY <1>5, FramesType
<1>7. again.kind = "selection"
  BY DEF SelectionFrame
<1>8. echo \in SUBSET Frames /\ \A g \in echo : g.kind = "selection"
  BY <1>6, <1>7
<1>9. /\ Commit(p, done) /\ times' = Without(times, done.drops)
      /\ net' = (net \ {m}) \union Fanout(p, {} \union echo) /\ count' = count
  BY <1>1 DEF done, held
<1> HIDE DEF echo
<1>10. Sends(p, done.board, {m}, {})
  BY <1>5, <1>8, <1>9 DEF Sends, Commit
<1> QED  BY <1>1, <1>2, <1>3, <1>9, <1>10 DEF done

\* The correction of a Time is answered.
LEMMA EditReplySends ==
    ASSUME TypeOK, NEW p \in Panels, EditReply(p)
    PROVE  \E c \in Board : Sends(p, c, {}, {}) /\ SameClocks(board[p], c) /\ count' = count
<1>1. PICK x \in rest :
      /\ x.edit
      /\ LET done  == Corrected(board[p], x.lane, x.row, x.closure)
             moved == View(done.board) # View(board[p])
             claim == Minted(p, stamp[p], TRUE, 0)
         IN  /\ board' = [board EXCEPT ![p] = done.board]
             /\ net' = net \union Fanout(p, IF moved THEN {SelectionFrame(claim, done.board)} ELSE {})
      /\ UNCHANGED count
  BY DEF EditReply
<1> DEFINE done == Corrected(board[p], x.lane, x.row, x.closure)
           claim == Minted(p, stamp[p], TRUE, 0)
           said == SelectionFrame(claim, done.board)
           echo == IF View(done.board) # View(board[p]) THEN {said} ELSE {}
<1>2. x.lane \in Lanes /\ x.row \in Row /\ x.closure \in Closures
  BY <1>1 DEF TypeOK, Requests, Closures, Wins, Seats
<1>3. board[p] \in Board /\ stamp[p] \in Stamp
  BY DEF TypeOK
<1>4. done \in Outcome /\ SameClocks(board[p], done.board) /\ claim \in Stamp
  BY <1>2, <1>3, CorrectedKeeps, MintedType
<1> HIDE DEF done, claim
<1>5. done.board \in Board
  BY <1>4 DEF Outcome
<1>6. said \in Frames
  BY <1>4, <1>5, FramesType
<1>7. said.kind = "selection"
  BY DEF SelectionFrame
<1>8. echo \in SUBSET Frames /\ \A g \in echo : g.kind = "selection"
  BY <1>6, <1>7
<1>9. board' = [board EXCEPT ![p] = done.board] /\ net' = (net \ {}) \union Fanout(p, {} \union echo)
  BY <1>1 DEF done, claim
<1> HIDE DEF echo
<1>10. Sends(p, done.board, {}, {})
  BY <1>5, <1>8, <1>9 DEF Sends
<1> QED  BY <1>1, <1>4, <1>5, <1>10

\* A selection taken over moves no clock.
LEMMA SelectedClocks ==
    ASSUME TypeOK, ClockInv, NEW p \in Panels, NEW c, NEW m \in net, m.to = p,
           m.frame.kind = "selection", c.run = board[p].run, c.frozen = board[p].frozen,
           count'.runs = count.runs, Sends(p, c, {m}, {})
    PROVE  ClockInv'
BY ClocksStand

\* One step keeps the clocks in line.
LEMMA ClockStep ==
    ASSUME TypeOK, ClockInv, Next
    PROVE  ClockInv'
<1>1. PICK p \in Panels :
        \/ Go(p) \/ Reset(p) \/ Void(p) \/ Swap(p) \/ Award(p)
        \/ \E lane \in Lanes :
             \/ Stop(p, lane) \/ Resume(p, lane) \/ Dnfed(p, lane)
             \/ Flag(p, lane) \/ Correct(p, lane) \/ Retry(p, lane)
        \/ Reply(p) \/ EditReply(p) \/ Refuse(p) \/ Deliver(p)
  BY DEF Next
<1>2. board[p] \in Board /\ count \in Counts /\ board \in [Panels -> Board]
  BY DEF TypeOK
\* An act that leaves the clocks alone.
<1>3. ASSUME NEW done \in Outcome, Act(p, done, {}), SameClocks(board[p], done.board),
             count'.runs = count.runs
      PROVE  ClockInv'
  <2>1. Sends(p, done.board, {}, {})
    BY <1>3, ActSends
  <2> QED  BY <1>3, <2>1, ClocksStand DEF SameClocks
<1>4. CASE Go(p)
  <2> DEFINE c == OnRaceStart(board[p], count.runs + 1)
  <2>1. c \in Board /\ c.run = count.runs + 1 /\ c.frozen = Both(0)
    <3>1. count.runs + 1 \in Nat
      BY <1>2 DEF Counts
    <3> QED  BY <1>2, <3>1, OnRaceStartKeeps
  <2>2. Act(p, Done(c), {StartFrame(count.runs + 1)}) /\ net = {} /\ board[p].run = 0
        /\ count'.runs = count.runs + 1
    BY <1>2, <1>4 DEF Go, Landed, Counts
  <2> HIDE DEF c
  <2>3. Sends(p, c, {}, {StartFrame(count.runs + 1)})
    BY <2>1, <2>2, ActSends, DoneType
  <2> QED  BY <2>1, <2>2, <2>3, GoClocks
<1>5. CASE Reset(p)
  <2> DEFINE c == OnReset(board[p])
  <2>1. c \in Board /\ c.run = 0
    BY <1>2, OnResetKeeps
  <2>2. Act(p, Done(c), {ResetFrame}) /\ StartLanded /\ count'.runs = count.runs
    BY <1>2, <1>5 DEF Reset, Counts
  <2> HIDE DEF c
  <2>3. Sends(p, c, {}, {ResetFrame})
    BY <2>1, <2>2, ActSends, DoneType
  <2> QED  BY <2>1, <2>2, <2>3, ResetClocks
<1>6. CASE Void(p)
  <2>1. VoidRun(board[p]) \in Outcome /\ SameClocks(board[p], VoidRun(board[p]).board)
    BY <1>2, VoidRunKeeps DEF Voided
  <2>2. count'.runs = count.runs
    BY <1>2, <1>6, CountedType DEF Void, Counts
  <2> QED  BY <1>3, <1>6, <2>1, <2>2 DEF Void
<1>7. CASE Swap(p)
  <2>1. SwapLanes(board[p]) \in Board /\ SameClocks(board[p], SwapLanes(board[p]))
    BY <1>2, SwapLanesKeeps
  <2>2. count'.runs = count.runs
    BY <1>2, <1>7, CountedType DEF Swap
  <2> QED  BY <1>3, <1>7, <2>1, <2>2, DoneType DEF Swap
<1>8. CASE Award(p)
  <2> DEFINE done == AwardRunTo(board[p], Other(Offender(board[p])))
  <2>1. Other(Offender(board[p])) \in Lanes
    BY <1>8, Kinds DEF Award, Offender
  <2>2. done \in Outcome /\ SameClocks(board[p], done.board)
    BY <1>2, <2>1, AwardRunToKeeps DEF Voided
  <2>3. Act(p, done, {}) /\ count'.runs = Counted("awards").runs
    BY <1>2, <1>8, CountedType DEF Award, Counts
  <2> HIDE DEF done
  <2>4. count'.runs = count.runs
    BY <1>2, <2>3, CountedType
  <2> QED  BY <1>3, <2>2, <2>3, <2>4
<1>9. ASSUME NEW lane \in Lanes, Stop(p, lane)  PROVE ClockInv'
  <2>1. PICK ms \in Elapsed :
          Act(p, RecordFinish([board[p] EXCEPT !.frozen[lane] = ms], lane, NextRow(p, lane, ms)),
              {StopFrame(lane, ms)})
    BY <1>9 DEF Stop
  <2> DEFINE b == [board[p] EXCEPT !.frozen[lane] = ms]
             done == RecordFinish(b, lane, NextRow(p, lane, ms))
             f == StopFrame(lane, ms)
  <2>2. b \in Board /\ b.run = board[p].run /\ b.frozen = [board[p].frozen EXCEPT ![lane] = ms]
    BY <1>2, FrozenKeeps
  <2>3. NextRow(p, lane, ms) \in Row
    BY NextRowType DEF Result
  <2>4. /\ LaneLanded(lane) /\ OnlyLanesMove /\ board[p].run # 0 /\ board[p].frozen[lane] = 0
        /\ count'.runs = count.runs
    BY <1>2, <1>9 DEF Stop, Judged, Runs, Counts
  <2> HIDE DEF b
  <2>5. done \in Outcome /\ SameClocks(b, done.board)
    BY <2>2, <2>3, RecordFinishKeeps
  <2>6. Act(p, done, {f})
    BY <2>1 DEF b
  <2> HIDE DEF done
  <2>7. Sends(p, done.board, {}, {f})
    BY <2>5, <2>6, ActSends
  <2>8. f \in Frames /\ IsLane(f) /\ f.lane = lane /\ Shown(f) = ms
    BY FramesType DEF StopFrame, IsLane, Shown
  <2>9. StartLanded
    BY <2>4 DEF StartLanded, OnlyLanesMove
  <2>10. done.board.run = board[p].run /\ done.board.frozen = [board[p].frozen EXCEPT ![lane] = Shown(f)]
    BY <2>2, <2>5, <2>8 DEF SameClocks
  <2> HIDE DEF f
  <2> QED  BY <2>4, <2>7, <2>8, <2>9, <2>10, PressClocks
<1>10. ASSUME NEW lane \in Lanes, Resume(p, lane)  PROVE ClockInv'
  <2> DEFINE b == [board[p] EXCEPT !.frozen[lane] = 0]
             done == ResumeLane(b, lane)
             f == ResumeFrame(lane)
  <2>1. b \in Board /\ b.run = board[p].run /\ b.frozen = [board[p].frozen EXCEPT ![lane] = 0]
    BY <1>2, FrozenKeeps
  <2>2. /\ LaneLanded(lane) /\ board[p].run # 0 /\ board[p].frozen[lane] # 0
        /\ Act(p, done, {f}) /\ count' = Counted("resumes")
    BY <1>10 DEF Resume
  <2> HIDE DEF b
  <2>3. done \in Outcome /\ SameClocks(b, done.board)
    BY <2>1, ResumeLaneKeeps DEF Withdrawn
  <2> HIDE DEF done
  <2>4. Sends(p, done.board, {}, {f})
    BY <2>2, <2>3, ActSends
  <2>5. f \in Frames /\ IsLane(f) /\ f.lane = lane /\ Shown(f) = 0 /\ f.kind # "stop"
    BY FramesType DEF ResumeFrame, IsLane, Shown
  <2>6. StartLanded
    BY <2>2 DEF ClockInv, RunInv, StartIsFirst, Both
  <2>7. done.board.run = board[p].run /\ done.board.frozen = [board[p].frozen EXCEPT ![lane] = Shown(f)]
    BY <2>1, <2>3, <2>5 DEF SameClocks
  <2>8. count'.runs = count.runs
    BY <1>2, <2>2, CountedType
  <2> HIDE DEF f
  <2> QED  BY <2>2, <2>4, <2>5, <2>6, <2>7, <2>8, PressClocks
<1>11. ASSUME NEW lane \in Lanes, Dnfed(p, lane)  PROVE ClockInv'
  <2> DEFINE done == RecordDnf(board[p], lane, NextRow(p, lane, Dnf))
  <2>1. NextRow(p, lane, Dnf) \in Row
    BY NextRowType DEF Result
  <2>2. done \in Outcome /\ SameClocks(board[p], done.board)
    BY <1>2, <2>1, RecordDnfKeeps
  <2>3. /\ LaneLanded(lane) /\ OnlyLanesMove /\ board[p].run # 0
        /\ \/ Act(p, done, {})
           \/ /\ board[p].frozen[lane] = 0
              /\ \E ms \in Elapsed :
                   Act(p, [done EXCEPT !.board.frozen[lane] = ms], {StopFrame(lane, ms)})
    BY <1>11 DEF Dnfed, Judged, Runs
  <2>4. count'.runs = count.runs
    BY <1>2, <1>11, CountedType DEF Dnfed, Counts
  <2> HIDE DEF done
  <2>5. ASSUME NEW ms \in Elapsed, board[p].frozen[lane] = 0,
               Act(p, [done EXCEPT !.board.frozen[lane] = ms], {StopFrame(lane, ms)})
        PROVE  ClockInv'
    <3> DEFINE d == [done EXCEPT !.board.frozen[lane] = ms]
               f == StopFrame(lane, ms)
    <3>1. d \in Outcome /\ d.board.run = board[p].run
          /\ d.board.frozen = [board[p].frozen EXCEPT ![lane] = ms]
      BY <2>2, StoppedAfterType DEF SameClocks
    <3> HIDE DEF d
    <3>2. Sends(p, d.board, {}, {f})
      BY <2>5, <3>1, ActSends DEF d
    <3>3. f \in Frames /\ IsLane(f) /\ f.lane = lane /\ Shown(f) = ms
      BY FramesType DEF StopFrame, IsLane, Shown
    <3>4. StartLanded
      BY <2>3 DEF StartLanded, OnlyLanesMove
    <3> HIDE DEF f
    <3> QED  BY <2>3, <2>4, <2>5, <3>1, <3>2, <3>3, <3>4, PressClocks
  <2> QED  BY <1>3, <2>2, <2>3, <2>4, <2>5
<1>12. ASSUME NEW lane \in Lanes, Flag(p, lane)  PROVE ClockInv'
  <2>1. count'.runs = count.runs
    BY <1>2, <1>12, CountedType DEF Flag
  <2>2. Act(p, Done(FlagFs(board[p], lane)), {}) \/ Act(p, Done(ClearFs(board[p], lane)), {})
    BY <1>12 DEF Flag
  <2> QED  BY <1>2, <1>3, <2>1, <2>2, FlagsKeep, DoneType
<1>13. ASSUME NEW lane \in Lanes, Correct(p, lane)  PROVE ClockInv'
  <2>1. PICK ms \in Elapsed : Act(p, EditLaneTime(board[p], lane, ms), {})
    BY <1>13 DEF Correct
  <2>2. board[p].chip[lane].saved # NoRow /\ ms \in Result
    BY <1>13 DEF Correct, Result
  <2>3. EditLaneTime(board[p], lane, ms) \in Outcome
        /\ SameClocks(board[p], EditLaneTime(board[p], lane, ms).board)
    BY <1>2, <2>2, EditLaneTimeKeeps
  <2>4. count'.runs = count.runs
    BY <1>2, <1>13, CountedType DEF Correct
  <2> QED  BY <1>3, <2>1, <2>3, <2>4
<1>14. ASSUME NEW lane \in Lanes, Retry(p, lane)  PROVE ClockInv'
  <2> DEFINE done == RetrySave(board[p], lane, count.posts + 1)
  <2>1. done \in Outcome /\ SameClocks(board[p], done.board)
    <3>1. count.posts + 1 \in Nat
      BY <1>2 DEF Counts
    <3> QED  BY <1>2, <1>14, <3>1, RetrySaveKeeps DEF Retry
  <2>2. Act(p, done, {}) /\ count'.runs = count.runs
    BY <1>2, <1>14 DEF Retry, Counts
  <2> HIDE DEF done
  <2> QED  BY <1>3, <2>1, <2>2
<1>15. CASE Reply(p)
  <2>1. PICK x \in rest :
          board' = [board EXCEPT ![p] = Saved(board[p], x.lane, x.gen, x.row).board]
          /\ net' = net /\ count' = count
    BY <1>15 DEF Reply
  <2>2. x.lane \in Lanes /\ x.row \in Row
    BY DEF TypeOK, Requests
  <2> DEFINE c == Saved(board[p], x.lane, x.gen, x.row).board
  <2>3. c \in Board /\ SameClocks(board[p], c)
    BY <1>2, <2>2, SavedKeeps
  <2> HIDE DEF c
  <2>4. Sends(p, c, {}, {})
    BY <2>1, <2>3, StillSends DEF c
  <2> QED  BY <2>1, <2>3, <2>4, ClocksStand DEF SameClocks
<1>16. CASE EditReply(p)
  BY <1>16, EditReplySends, ClocksStand DEF SameClocks
<1>17. CASE Refuse(p)
  <2>1. PICK x \in rest :
        /\ count' = count \/ count' = Counted("refused")
        /\ board' = [board EXCEPT ![p] =
                       IF x.edit THEN NotCorrected(board[p], x.lane, x.from).board
                       ELSE Refused(board[p], x.lane, x.gen, x.row).board]
        /\ net' = net
    BY <1>17 DEF Refuse
  <2>2. x.lane \in Lanes /\ x.row \in Row /\ (x.edit => x.from \in Row)
    BY DEF TypeOK, Requests
  <2> DEFINE c == IF x.edit THEN NotCorrected(board[p], x.lane, x.from).board
                  ELSE Refused(board[p], x.lane, x.gen, x.row).board
  <2>3. c \in Board /\ SameClocks(board[p], c)
    <3>1. CASE x.edit
      BY <1>2, <2>2, <3>1, NotCorrectedKeeps
    <3>2. CASE ~x.edit
      BY <1>2, <2>2, <3>2, RefusedKeeps
    <3> QED  BY <3>1, <3>2
  <2>4. board' = [board EXCEPT ![p] = c]
    BY <2>1
  <2> HIDE DEF c
  <2>5. Sends(p, c, {}, {}) /\ count'.runs = count.runs
    BY <1>2, <2>1, <2>3, <2>4, StillSends, CountedType
  <2> QED  BY <2>3, <2>5, ClocksStand DEF SameClocks
<1>18. CASE Deliver(p)
  <2>1. PICK m \in net :
             /\ m.to = p /\ m.frame \in Frames
             /\ Sends(p, Applied(p, m.frame).board, {m}, {})
             /\ count' = count
    BY <1>18, DeliverSends
  <2> DEFINE f == m.frame
             c == Applied(p, f).board
  <2>2. CASE f.kind = "start"
    <3>1. c = OnRaceStart(board[p], f.run) /\ f.run \in Nat
      BY <2>1, <2>2 DEF Applied, Done, Frames
    <3>2. c.run = f.run /\ c.frozen = Both(0)
      BY <1>2, <3>1, OnRaceStartKeeps
    <3> HIDE DEF c
    <3> QED  BY <2>1, <2>2, <3>2, StartedClocks DEF c
  <2>3. CASE f.kind = "reset"
    <3>1. c = OnReset(board[p])
      BY <2>3 DEF Applied, Done
    <3>2. c.run = 0
      BY <1>2, <3>1, OnResetKeeps
    <3> HIDE DEF c
    <3> QED  BY <2>1, <2>3, <3>2, ClearedClocks DEF c
  <2>4. CASE f.kind = "stop" /\ board[p].run = 0
    <3>1. c = board[p]
      BY <2>4 DEF Applied, Done
    <3> HIDE DEF c
    <3> QED  BY <2>1, <2>4, <3>1, ClocksStand DEF c, SameClocks, IsLane
  <2>5. CASE f.kind = "stop" /\ board[p].run # 0
    <3> DEFINE b == [board[p] EXCEPT !.frozen[f.lane] = f.ms]
    <3>1. c = NotePeerFinish(b, f.lane, f.ms) /\ f.lane \in Lanes /\ f.ms \in Elapsed
      BY <2>1, <2>5 DEF Applied, Done, Frames
    <3>2. b \in Board /\ b.run = board[p].run /\ b.frozen = [board[p].frozen EXCEPT ![f.lane] = f.ms]
      BY <1>2, <3>1, FrozenKeeps
    <3> HIDE DEF b
    <3>3. SameClocks(b, c)
      BY <3>1, <3>2, NotePeerFinishKeeps
    <3>4. IsLane(f) /\ Shown(f) = f.ms
      BY <2>5 DEF IsLane, Shown
    <3> HIDE DEF c
    <3>5. c.run = board[p].run /\ c.frozen = [board[p].frozen EXCEPT ![f.lane] = Shown(f)]
      BY <3>2, <3>3, <3>4 DEF SameClocks
    <3> QED  BY <2>1, <2>5, <3>4, <3>5, FollowedClocks DEF c
  <2>6. CASE f.kind = "resume"
    <3> DEFINE b == [board[p] EXCEPT !.frozen[f.lane] = 0]
    <3>1. c = NotePeerResume(b, f.lane).board /\ f.lane \in Lanes
      BY <2>1, <2>6 DEF Applied, Frames
    <3>2. b \in Board /\ b.run = board[p].run /\ b.frozen = [board[p].frozen EXCEPT ![f.lane] = 0]
      BY <1>2, <3>1, FrozenKeeps
    <3> HIDE DEF b
    <3>3. SameClocks(b, c)
      BY <3>1, <3>2, NotePeerResumeKeeps DEF Withdrawn
    <3>4. IsLane(f) /\ Shown(f) = 0
      BY <2>6 DEF IsLane, Shown
    <3> HIDE DEF c
    <3>5. c.run = board[p].run /\ c.frozen = [board[p].frozen EXCEPT ![f.lane] = Shown(f)]
      BY <3>2, <3>3, <3>4 DEF SameClocks
    <3>6. CASE board[p].run # 0
      BY <2>1, <2>6, <3>4, <3>5, <3>6, FollowedClocks DEF c
    <3>7. CASE board[p].run = 0
      BY <2>1, <3>4, <3>5, <3>7, ClocksStand DEF c
    <3> QED  BY <3>6, <3>7
  <2>7. CASE f.kind = "selection"
    <3>1. f.view \in Views
      BY <2>1, <2>7 DEF Frames
    <3>2. c = board[p] \/ c = ApplySelection(board[p], f.view)
      BY <2>7 DEF Applied, Done
    <3>3. SameClocks(board[p], c)
      BY <1>2, <3>1, <3>2, ApplySelectionKeeps DEF SameClocks
    <3> HIDE DEF c
    <3>4. Sends(p, c, {m}, {})
      BY <2>1 DEF c
    <3>5. /\ c.run = board[p].run /\ c.frozen = board[p].frozen /\ count'.runs = count.runs
          /\ \A n \in {m} : n.to = p /\ n.frame.kind = "selection"
      BY <2>1, <2>7, <3>3 DEF SameClocks
    <3> QED  BY <2>1, <2>7, <3>4, <3>5, SelectedClocks DEF c
  <2> QED  BY <2>1, <2>2, <2>3, <2>4, <2>5, <2>6, <2>7 DEF Frames
<1> QED
  BY <1>1, <1>4, <1>5, <1>6, <1>7, <1>8, <1>9, <1>10, <1>11, <1>12, <1>13, <1>14, <1>15, <1>16,
     <1>17, <1>18

\* The clocks stay in line throughout.
LEMMA ClocksHold == Spec => []ClockInv
<1>1. Init => ClockInv
  <2>1. SUFFICES ASSUME Init  PROVE ClockInv
    OBVIOUS
  <2>2. net = {} /\ count.runs = 0 /\ \A p \in Panels : board[p].run = 0
    BY <2>1, FreshBoardType DEF Init, NoCount
  <2> QED
    BY <2>2 DEF ClockInv, RunInv, RunIsLast, StartFindsReset, StartIsFirst, ResetIsForAll, StartTo,
                ResetTo, Closing, StartLanded, LaneInv, OneWordPerLane, HeardAgree, HeardShows,
                StopFindsRunning
<1>2. ClockInv /\ UNCHANGED vars => ClockInv'
  BY DEF vars, ClockInv, RunInv, RunIsLast, StartFindsReset, StartIsFirst, ResetIsForAll, StartTo,
         ResetTo, Closing, StartLanded, LaneInv, OneWordPerLane, HeardAgree, HeardShows,
         StopFindsRunning, LaneTo
<1>3. TypeOK /\ ClockInv /\ [Next]_vars => ClockInv'
  BY <1>2, ClockStep
<1> QED  BY <1>1, <1>3, RaceTypeCorrect, PTL DEF Spec

\* The Speedline control page mirrors start, stop, resume and reset: when no frame is in
\* flight all clocks agree, for any number of panels and judges and whatever was pressed.
THEOREM RoomClocksAgree == Spec => []ClocksAgree
<1>1. TypeOK /\ ClockInv => ClocksAgree
  <2>1. SUFFICES ASSUME TypeOK, ClockInv, Landed, NEW p \in Panels, NEW q \in Panels
                 PROVE  /\ board[p].run = board[q].run
                        /\ board[p].run # 0 => board[p].frozen = board[q].frozen
    BY DEF ClocksAgree
  <2>2. \A r \in Panels : ~StartTo(r) /\ ~ResetTo(r) /\ \A l \in Lanes : ~LaneTo(r, l)
    BY <2>1 DEF Landed, StartTo, ResetTo, LaneTo
  <2>3. board[p].run = board[q].run
    BY <2>1, <2>2 DEF ClockInv, RunInv, RunIsLast, ResetIsForAll, Closing
  <2>4. ASSUME board[p].run # 0  PROVE board[p].frozen = board[q].frozen
    <3>1. \A l \in Lanes : board[p].frozen[l] = board[q].frozen[l]
      BY <2>1, <2>2, <2>3, <2>4 DEF ClockInv, LaneInv, HeardAgree
    <3>2. board[p].frozen \in [Lanes -> Elapsed \union {0}]
          /\ board[q].frozen \in [Lanes -> Elapsed \union {0}]
      BY <2>1 DEF TypeOK, Board
    <3> QED  BY <3>1, <3>2
  <2> QED  BY <2>3, <2>4
<1> QED  BY <1>1, RaceTypeCorrect, ClocksHold, PTL

-----------------------------------------------------------------------------
(* The Times.                                                              *)

\* Sides stay, no DNF and no correction is pressed, and the server answers before
\* the next start.
PlainSeries == MaxSwaps = 0 /\ MaxDnfs = 0 /\ MaxEdits = 0 /\ PromptServer = TRUE

Same(x, y) == x.run = y.run /\ x.athlete = y.athlete

\* A POST whose lane was not withdrawn since.
Owed(x) == x.gen = board[x.by].gen[x.lane]

\* The rows a lane's chip holds: a saved one, and the body of a refused one.
HeldRow(p, l) == board[p].chip[l].saved
RefusedRow(p, l) == board[p].chip[l].failed

\* A row of the run on the clocks, of this lane, with the time it shows.
Fits(b, l, row) ==
    row.run = count.runs /\ row.athlete = FirstSeats[l] /\ row.ms = b.frozen[l]

SeatsStay ==
    /\ \A p \in Panels : board[p].seats = FirstSeats
    /\ \A m \in net : m.frame.kind = "selection" => m.frame.view.seats = FirstSeats

\* Only POSTs are in flight, under a generation the lane has had.
PostsOnly == \A x \in rest : ~x.edit /\ x.gen <= board[x.by].gen[x.lane]

\* Rows are of runs that were started ...
RunsPast ==
    /\ \A x \in times : x.run \in 1..count.runs
    /\ \A x \in rest : x.row.run \in 1..count.runs
    /\ \A p \in Panels, l \in Lanes :
         RefusedRow(p, l) # NoRow => RefusedRow(p, l).run \in 1..count.runs
\* ... and none is of a run before all clocks have it.
StartIsClean == StartLanded \/ (rest = {} /\ \A x \in times : x.run # count.runs)

\* What a running panel holds, or waits for, is what its clocks show.
HoldsFit ==
    \A p \in Panels, l \in Lanes : board[p].run # 0 =>
        /\ HeldRow(p, l) # NoRow => Fits(board[p], l, HeldRow(p, l))
        /\ RefusedRow(p, l) # NoRow => Fits(board[p], l, RefusedRow(p, l))
        /\ \A x \in rest : x.by = p /\ x.lane = l /\ Owed(x) => Fits(board[p], l, x.row)

\* A Time of the run on the clocks is held by a panel on that run.
TimesAreHeld ==
    \A x \in times : x.run = count.runs =>
        \/ \E p \in Panels, l \in Lanes : board[p].run = count.runs /\ HeldRow(p, l) = x
        \/ Closing

\* A run and an athlete have one row: at the server, on its way to be saved, or
\* refused and waiting for a retry.
Sole ==
    /\ \A x, y \in times : Same(x, y) => x = y
    /\ \A x \in times, y \in rest : Owed(y) => ~Same(x, y.row)
    /\ \A x \in times, p \in Panels, l \in Lanes :
         RefusedRow(p, l) # NoRow => ~Same(x, RefusedRow(p, l))
    /\ \A x, y \in rest : Owed(x) /\ Owed(y) /\ Same(x.row, y.row) => x = y
    /\ \A x \in rest, p \in Panels, l \in Lanes :
         Owed(x) /\ RefusedRow(p, l) # NoRow => ~Same(x.row, RefusedRow(p, l))
    /\ \A p, q \in Panels, k, l \in Lanes :
         /\ RefusedRow(p, k) # NoRow /\ RefusedRow(q, l) # NoRow
         /\ Same(RefusedRow(p, k), RefusedRow(q, l))
         => p = q /\ k = l

RowsInv ==
    SeatsStay /\ PostsOnly /\ RunsPast /\ StartIsClean /\ HoldsFit /\ TimesAreHeld /\ Sole

\* The chip of a lane has no row, and none of its own generation is on its way.
Free(p, b, l) ==
    /\ b.chip[l].saved = NoRow /\ b.chip[l].failed = NoRow
    /\ \A x \in rest : x.by = p /\ x.lane = l => x.gen # b.gen[l]

LEMMA RequestParts ==
    ASSUME TypeOK, NEW x \in rest
    PROVE  /\ x.by \in Panels /\ x.lane \in Lanes /\ x.row \in Row
           /\ ~x.edit => x.gen \in Nat
<1>1. x \in Requests
  BY DEF TypeOK
<1> QED  BY <1>1 DEF Requests

\* A step after which there is no row that was not there before.
LEMMA RowsShrink ==
    ASSUME TypeOK, TypeOK', RowsInv, NEW p \in Panels, NEW c \in Board,
           board' = [board EXCEPT ![p] = c], count'.runs = count.runs,
           SeatsStay', rest' \subseteq rest, times' \subseteq times,
           \A l \in Lanes : c.gen[l] >= board[p].gen[l],
           \A l \in Lanes : c.chip[l].failed \in {board[p].chip[l].failed, NoRow},
           \A l \in Lanes : c.chip[l].saved \in {board[p].chip[l].saved, NoRow},
           c.run # 0 => /\ c.run = board[p].run
                        /\ \A l \in Lanes : c.frozen[l] = board[p].frozen[l] \/ Free(p, c, l),
           StartLanded => StartLanded',
           \/ Closing'
           \/ /\ ~Closing /\ c.run = board[p].run
              /\ \A l \in Lanes, x \in times' : board[p].chip[l].saved = x => c.chip[l].saved = x
    PROVE  RowsInv'
<1> USE DEF TypeOK
<1>1. board'[p] = c /\ \A q \in Panels : q # p => board'[q] = board[q]
  OBVIOUS
<1>2. \A q \in Panels, l \in Lanes : board'[q].gen[l] \in Nat /\ board[q].gen[l] \in Nat
  BY DEF Board
<1>3. \A x \in rest : x.by \in Panels /\ x.lane \in Lanes /\ x.gen \in Nat
  BY RequestParts DEF RowsInv, PostsOnly
<1>4. \A q \in Panels, l \in Lanes : board'[q].gen[l] >= board[q].gen[l]
  BY <1>1, <1>2
<1>5. \A x \in rest' : Owed(x)' => Owed(x)
  BY <1>2, <1>3, <1>4 DEF Owed, RowsInv, PostsOnly
<1>6. \A q \in Panels, l \in Lanes : RefusedRow(q, l)' # NoRow => RefusedRow(q, l)' = RefusedRow(q, l)
  BY <1>1 DEF RefusedRow
<1>7. \A q \in Panels, l \in Lanes : HeldRow(q, l)' # NoRow => HeldRow(q, l)' = HeldRow(q, l)
  BY <1>1 DEF HeldRow
<1>8. PostsOnly'
  BY <1>2, <1>3, <1>4 DEF RowsInv, PostsOnly
<1>9. RunsPast'
  BY <1>6 DEF RowsInv, RunsPast
<1>10. StartIsClean'
  BY DEF RowsInv, StartIsClean
<1>11. HoldsFit'
  <2>1. SUFFICES ASSUME NEW q \in Panels, NEW l \in Lanes, board'[q].run # 0
                 PROVE  /\ HeldRow(q, l)' # NoRow => Fits(board[q], l, HeldRow(q, l))'
                        /\ RefusedRow(q, l)' # NoRow => Fits(board[q], l, RefusedRow(q, l))'
                        /\ \A x \in rest' : x.by = q /\ x.lane = l /\ Owed(x)'
                             => Fits(board[q], l, x.row)'
    BY DEF HoldsFit
  <2>2. CASE board'[q].frozen[l] = board[q].frozen[l]
    <3>1. board[q].run # 0
      BY <1>1, <2>1
    <3> QED  BY <1>5, <1>6, <1>7, <2>1, <2>2, <3>1 DEF RowsInv, HoldsFit, Fits
  <2>3. CASE q = p /\ Free(p, c, l)
    BY <1>1, <2>3 DEF Free, HeldRow, RefusedRow, Owed
  <2> QED  BY <1>1, <2>1, <2>2, <2>3
<1>12. TimesAreHeld'
  <2>1. CASE Closing'
    BY <2>1 DEF TimesAreHeld
  <2>2. CASE /\ ~Closing /\ c.run = board[p].run
             /\ \A l \in Lanes, x \in times' : board[p].chip[l].saved = x => c.chip[l].saved = x
    <3>1. SUFFICES ASSUME NEW x \in times', x.run = count.runs
                   PROVE  \E q \in Panels, l \in Lanes : board'[q].run = count.runs /\ HeldRow(q, l)' = x
      BY DEF TimesAreHeld
    <3>2. PICK q \in Panels, l \in Lanes : board[q].run = count.runs /\ HeldRow(q, l) = x
      BY <2>2, <3>1 DEF RowsInv, TimesAreHeld
    <3>3. board'[q].run = count.runs /\ HeldRow(q, l)' = x
      BY <1>1, <2>2, <3>2 DEF HeldRow
    <3> QED  BY <3>3
  <2> QED  BY <2>1, <2>2
<1>13. Sole'
  BY <1>5, <1>6 DEF RowsInv, Sole
<1> QED  BY <1>8, <1>9, <1>10, <1>11, <1>12, <1>13 DEF RowsInv

\* A POST leaves for a row that is nowhere else.
LEMMA PostRows ==
    ASSUME TypeOK, TypeOK', RowsInv, NEW p \in Panels, NEW c \in Board, NEW lane \in Lanes, NEW row \in Row,
           board' = [board EXCEPT ![p] = c], count'.runs = count.runs,
           SeatsStay', StartLanded', times' = times,
           rest' = rest \union
             {[by |-> p, edit |-> FALSE, lane |-> lane, gen |-> c.gen[lane], row |-> row]},
           c.run = board[p].run, c.chip = [board[p].chip EXCEPT ![lane] = Pending],
           \A l \in Lanes : l # lane => c.frozen[l] = board[p].frozen[l],
           \A l \in Lanes : c.gen[l] >= board[p].gen[l],
           row.run \in 1..count.runs, c.run # 0 => Fits(c, lane, row),
           \/ c.frozen[lane] = board[p].frozen[lane]
           \/ \A x \in rest : x.by = p /\ x.lane = lane => ~Owed(x),
           \A x \in times : ~Same(x, row),
           \A x \in rest : Owed(x) => ~Same(x.row, row),
           \A q \in Panels, l \in Lanes :
             RefusedRow(q, l) # NoRow /\ Same(RefusedRow(q, l), row) => q = p /\ l = lane,
           c.run # 0 => HeldRow(p, lane) \notin times,
           Closing => Closing'
    PROVE  RowsInv'
<1> USE DEF TypeOK
<1> DEFINE post == [by |-> p, edit |-> FALSE, lane |-> lane, gen |-> c.gen[lane], row |-> row]
<1>1. board'[p] = c /\ \A q \in Panels : q # p => board'[q] = board[q]
  OBVIOUS
<1>2. \A q \in Panels, l \in Lanes : board'[q].gen[l] \in Nat /\ board[q].gen[l] \in Nat
  BY DEF Board
<1>3. \A x \in rest : x.by \in Panels /\ x.lane \in Lanes /\ x.gen \in Nat
  BY RequestParts DEF RowsInv, PostsOnly
<1>4. \A q \in Panels, l \in Lanes : board'[q].gen[l] >= board[q].gen[l]
  BY <1>1, <1>2
<1>5. \A x \in rest : Owed(x)' => Owed(x)
  BY <1>2, <1>3, <1>4 DEF Owed, RowsInv, PostsOnly
<1>6. /\ c.chip[lane].saved = NoRow /\ c.chip[lane].failed = NoRow
      /\ \A l \in Lanes : l # lane => c.chip[l] = board[p].chip[l]
  BY PendingType DEF Board
<1>7. \A q \in Panels, l \in Lanes : RefusedRow(q, l)' # NoRow
        => RefusedRow(q, l)' = RefusedRow(q, l) /\ ~(q = p /\ l = lane)
  BY ZenonT(40), <1>1, <1>6 DEF RefusedRow
<1>8. \A q \in Panels, l \in Lanes : HeldRow(q, l)' # NoRow
        => HeldRow(q, l)' = HeldRow(q, l) /\ ~(q = p /\ l = lane)
  BY ZenonT(40), <1>1, <1>6 DEF HeldRow
<1>9. \A x \in rest' : x \in rest \/ x = post
  OBVIOUS
<1>10. PostsOnly'
  <2>1. \A x \in rest : ~x.edit /\ x.gen <= board'[x.by].gen[x.lane]
    BY <1>2, <1>3, <1>4 DEF RowsInv, PostsOnly
  <2>2. ~post.edit /\ post.gen <= board'[post.by].gen[post.lane]
    BY <1>1, <1>2
  <2> QED  BY <1>9, <2>1, <2>2 DEF PostsOnly
<1>11. RunsPast'
  BY <1>7 DEF RowsInv, RunsPast
<1>12. StartIsClean'
  BY DEF StartIsClean
<1>13. HoldsFit'
  <2>1. SUFFICES ASSUME NEW q \in Panels, NEW l \in Lanes, board'[q].run # 0
                 PROVE  /\ HeldRow(q, l)' # NoRow => Fits(board[q], l, HeldRow(q, l))'
                        /\ RefusedRow(q, l)' # NoRow => Fits(board[q], l, RefusedRow(q, l))'
                        /\ \A x \in rest' : x.by = q /\ x.lane = l /\ Owed(x)'
                             => Fits(board[q], l, x.row)'
    BY DEF HoldsFit
  <2>2. board[q].run # 0
    BY <1>1, <2>1
  <2>3. CASE q # p \/ l # lane
    <3>1. board'[q].frozen[l] = board[q].frozen[l]
      BY <1>1, <2>3
    <3>2. post.by = p /\ post.lane = lane
      OBVIOUS
    <3>3. \A x \in rest' : x.by = q /\ x.lane = l => x \in rest
      BY <1>9, <2>3, <3>2
    <3> QED  BY <1>5, <1>7, <1>8, <2>2, <3>1, <3>3 DEF RowsInv, HoldsFit, Fits
  <2>4. CASE q = p /\ l = lane
    <3>1. HeldRow(q, l)' = NoRow /\ RefusedRow(q, l)' = NoRow
      BY <1>7, <1>8, <2>4
    <3>2. Fits(board[q], l, row)'
      BY <1>1, <2>1, <2>4 DEF Fits
    <3>3. ASSUME NEW x \in rest, x.by = q, x.lane = l, Owed(x)'
          PROVE  Fits(board[q], l, x.row)'
      <4>1. Owed(x)
        BY <1>5, <3>3
      <4>2. c.frozen[lane] = board[p].frozen[lane]
        BY <2>4, <3>3, <4>1
      <4> QED  BY <1>1, <2>2, <2>4, <3>3, <4>1, <4>2 DEF RowsInv, HoldsFit, Fits
    <3> QED  BY <1>9, <3>1, <3>2, <3>3
  <2> QED  BY <2>3, <2>4
<1>14. TimesAreHeld'
  <2>1. SUFFICES ASSUME NEW x \in times, x.run = count.runs, ~Closing
                 PROVE  \E q \in Panels, l \in Lanes : board'[q].run = count.runs /\ HeldRow(q, l)' = x
    BY DEF TimesAreHeld
  <2>2. PICK q \in Panels, l \in Lanes : board[q].run = count.runs /\ HeldRow(q, l) = x
    BY <2>1 DEF RowsInv, TimesAreHeld
  <2>3. count.runs # 0
    <3>1. x.run \in 1..count.runs
      BY <2>1 DEF RowsInv, RunsPast
    <3>2. count.runs \in Nat
      BY DEF Counts
    <3> QED  BY <2>1, <3>1, <3>2
  <2>4. ~(q = p /\ l = lane)
    BY <2>2, <2>3
  <2>5. board'[q].run = count.runs /\ HeldRow(q, l)' = x
    BY <1>1, <1>6, <2>2, <2>4 DEF HeldRow
  <2> QED  BY <2>5
<1>15. Sole'
  <2>1. post.row = row
    OBVIOUS
  <2>2. \A x \in times, y \in rest' : Owed(y)' => ~Same(x, y.row)
    BY <1>5, <1>9, <2>1 DEF RowsInv, Sole
  <2>3. \A x, y \in rest' : Owed(x)' /\ Owed(y)' /\ Same(x.row, y.row) => x = y
    <3>1. SUFFICES ASSUME NEW x \in rest', NEW y \in rest', Owed(x)', Owed(y)', Same(x.row, y.row)
                   PROVE  x = y
      OBVIOUS
    <3>2. CASE x \in rest /\ y \in rest
      BY <1>5, <3>1, <3>2 DEF RowsInv, Sole
    <3>3. CASE x \in rest /\ y = post
      BY <1>5, <2>1, <3>1, <3>3
    <3>4. CASE x = post /\ y \in rest
      BY <1>5, <2>1, <3>1, <3>4 DEF Same
    <3> QED  BY <1>9, <3>2, <3>3, <3>4
  <2>4. \A x \in rest', q \in Panels, l \in Lanes :
          Owed(x)' /\ RefusedRow(q, l)' # NoRow => ~Same(x.row, RefusedRow(q, l)')
    BY <1>5, <1>7, <1>9, <2>1 DEF RowsInv, Sole, Same
  <2> QED  BY <1>7, <2>2, <2>3, <2>4 DEF RowsInv, Sole
<1> QED  BY <1>10, <1>11, <1>12, <1>13, <1>14, <1>15 DEF RowsInv

\* A POST that is still wanted is answered: its row is at the server and on the
\* chip, or is refused and on the chip.
LEMMA AnswerRows ==
    ASSUME TypeOK, TypeOK', ClockInv, RowsInv, NEW x \in rest, NEW c \in Board, Owed(x),
           board' = [board EXCEPT ![x.by] = c], count'.runs = count.runs,
           net' = net, rest' = rest \ {x},
           SameClocks(board[x.by], c), c.seats = board[x.by].seats, c.gen = board[x.by].gen,
           \/ times' = times \union {x.row} /\ c.chip = [board[x.by].chip EXCEPT ![x.lane] = SavedChip(x.row)]
           \/ times' = times /\ c.chip = [board[x.by].chip EXCEPT ![x.lane] = ErrorChip(x.row)],
           c.run = 0 => Closing
    PROVE  RowsInv'
<1> USE DEF TypeOK
<1> DEFINE p == x.by
           lane == x.lane
<1>1. p \in Panels /\ lane \in Lanes /\ x.row \in Row /\ ~x.edit
  BY RequestParts DEF RowsInv, PostsOnly
<1>2. board'[p] = c /\ \A q \in Panels : q # p => board'[q] = board[q]
  BY <1>1
<1>3. \A q \in Panels : SameClocks(board[q], board'[q]) /\ board'[q].gen = board[q].gen
                        /\ board'[q].seats = board[q].seats
  BY <1>2 DEF SameClocks
<1>4. \A y \in rest : y.by \in Panels /\ y.lane \in Lanes
  BY RequestParts
<1>5. \A y \in rest : Owed(y)' = Owed(y)
  BY <1>3, <1>4 DEF Owed
<1>6. \A l \in Lanes : l # lane => c.chip[l] = board[p].chip[l]
  BY <1>1 DEF Board
<1>7. \A q \in Panels, l \in Lanes : q # p \/ l # lane =>
        HeldRow(q, l)' = HeldRow(q, l) /\ RefusedRow(q, l)' = RefusedRow(q, l)
  BY <1>2, <1>6 DEF HeldRow, RefusedRow
<1>8. /\ \/ /\ times' = times \union {x.row} /\ HeldRow(p, lane)' = x.row
            /\ RefusedRow(p, lane)' = NoRow
         \/ times' = times /\ HeldRow(p, lane)' = NoRow /\ RefusedRow(p, lane)' = x.row
  <2>1. c.chip[lane] = SavedChip(x.row) \/ c.chip[lane] = ErrorChip(x.row)
    BY <1>1 DEF Board
  <2>2. CASE times' = times \union {x.row} /\ c.chip = [board[p].chip EXCEPT ![lane] = SavedChip(x.row)]
    <3>1. c.chip[lane] = SavedChip(x.row)
      BY <1>1, <2>2 DEF Board
    <3> QED  BY ZenonT(40), <1>1, <1>2, <2>2, <3>1, SavedChipType DEF HeldRow, RefusedRow
  <2>3. CASE times' = times /\ c.chip = [board[p].chip EXCEPT ![lane] = ErrorChip(x.row)]
    <3>1. c.chip[lane] = ErrorChip(x.row)
      BY <1>1, <2>3 DEF Board
    <3> QED  BY ZenonT(40), <1>1, <1>2, <2>3, <3>1, ErrorChipType DEF HeldRow, RefusedRow
  <2> QED  BY <2>2, <2>3
<1>9. SeatsStay'
  BY <1>3 DEF RowsInv, SeatsStay
<1>10. PostsOnly'
  BY <1>3, <1>4 DEF RowsInv, PostsOnly
<1>11. RunsPast'
  <2>1. x.row.run \in 1..count.runs
    BY DEF RowsInv, RunsPast
  <2>2. \A y \in times' : y \in times \/ y = x.row
    BY <1>8
  <2>3. \A q \in Panels, l \in Lanes : RefusedRow(q, l)' # NoRow =>
          RefusedRow(q, l)' = RefusedRow(q, l) \/ RefusedRow(q, l)' = x.row
    BY <1>7, <1>8
  <2> QED  BY <2>1, <2>2, <2>3 DEF RowsInv, RunsPast
<1>12. StartIsClean'
  <2>1. StartLanded
    BY DEF RowsInv, StartIsClean
  <2> QED  BY <2>1 DEF StartIsClean, StartLanded
<1>13. Closing' = Closing
  BY <1>3 DEF Closing, ResetTo, SameClocks
<1>14. HoldsFit'
  <2>1. SUFFICES ASSUME NEW q \in Panels, NEW l \in Lanes, board'[q].run # 0
                 PROVE  /\ HeldRow(q, l)' # NoRow => Fits(board[q], l, HeldRow(q, l))'
                        /\ RefusedRow(q, l)' # NoRow => Fits(board[q], l, RefusedRow(q, l))'
                        /\ \A y \in rest' : y.by = q /\ y.lane = l /\ Owed(y)'
                             => Fits(board[q], l, y.row)'
    BY DEF HoldsFit
  <2>2. board[q].run # 0 /\ board'[q].frozen = board[q].frozen
    BY <1>3, <2>1 DEF SameClocks
  <2>3. \A row : Fits(board[q], l, row)' <=> Fits(board[q], l, row)
    BY <2>2 DEF Fits
  <2>4. \A y \in rest' : y.by = q /\ y.lane = l /\ Owed(y)' => Fits(board[q], l, y.row)'
    BY <1>5, <2>2, <2>3 DEF RowsInv, HoldsFit
  <2>5. CASE q # p \/ l # lane
    BY <1>7, <2>2, <2>3, <2>4, <2>5 DEF RowsInv, HoldsFit
  <2>6. CASE q = p /\ l = lane
    <3>1. Fits(board[q], l, x.row)
      BY <2>2, <2>6 DEF RowsInv, HoldsFit
    <3> QED  BY <1>8, <2>3, <2>4, <2>6, <3>1
  <2> QED  BY <2>5, <2>6
<1>15. TimesAreHeld'
  <2>1. SUFFICES ASSUME NEW y \in times', y.run = count.runs, ~Closing
                 PROVE  \E q \in Panels, l \in Lanes : board'[q].run = count.runs /\ HeldRow(q, l)' = y
    BY <1>13 DEF TimesAreHeld
  <2>2. c.run # 0
    BY <2>1
  <2>3. board[p].run # 0 /\ board'[p].run = c.run
    BY <1>2, <2>2, <1>3 DEF SameClocks
  <2>4. x.row.run = count.runs /\ x.row.athlete = FirstSeats[lane]
    BY <1>1, <2>3 DEF RowsInv, HoldsFit, Fits
  <2>5. CASE y \in times
    <3>1. PICK q \in Panels, l \in Lanes : board[q].run = count.runs /\ HeldRow(q, l) = y
      BY <2>1, <2>5 DEF RowsInv, TimesAreHeld
    <3>2. ASSUME q = p, l = lane  PROVE FALSE
      <4>1. y # NoRow
        BY <2>5, RowIsOne
      <4>2. y.athlete = FirstSeats[lane]
        BY <1>1, <2>3, <3>1, <3>2, <4>1 DEF RowsInv, HoldsFit, Fits
      <4>3. Same(y, x.row)
        BY <2>1, <2>4, <4>2 DEF Same
      <4> QED  BY <2>5, <4>3 DEF RowsInv, Sole
    <3>3. board'[q].run = count.runs /\ HeldRow(q, l)' = y
      BY <1>3, <1>7, <3>1, <3>2 DEF SameClocks
    <3> QED  BY <3>3
  <2>6. CASE y \notin times
    <3>1. y = x.row /\ HeldRow(p, lane)' = y
      BY <1>8, <2>6
    <3>2. board[p].run = count.runs
      BY <1>1, <2>3 DEF ClockInv, RunInv, RunIsLast
    <3> QED  BY <1>1, <1>3, <3>1, <3>2 DEF SameClocks
  <2> QED  BY <2>5, <2>6
<1>16. Sole'
  <2>1. CASE times' = times \union {x.row} /\ RefusedRow(p, lane)' = NoRow
    <3>1. \A q \in Panels, l \in Lanes : RefusedRow(q, l)' # NoRow => RefusedRow(q, l)' = RefusedRow(q, l)
      BY <1>7, <2>1
    <3>2. \A y, z \in times' : Same(y, z) => y = z
      BY <2>1 DEF RowsInv, Sole, Same
    <3>3. \A y \in times', z \in rest' : Owed(z)' => ~Same(y, z.row)
      BY <1>5, <2>1 DEF RowsInv, Sole, Same
    <3>4. \A y \in times', q \in Panels, l \in Lanes :
            RefusedRow(q, l)' # NoRow => ~Same(y, RefusedRow(q, l)')
      BY <2>1, <3>1 DEF RowsInv, Sole
    <3> QED  BY <1>5, <3>1, <3>2, <3>3, <3>4 DEF RowsInv, Sole
  <2>2. CASE times' = times /\ RefusedRow(p, lane)' = x.row
    <3>1. \A q \in Panels, l \in Lanes : RefusedRow(q, l)' # NoRow =>
            \/ RefusedRow(q, l)' = RefusedRow(q, l) /\ ~(q = p /\ l = lane)
            \/ q = p /\ l = lane /\ RefusedRow(q, l)' = x.row
      BY <1>7, <2>2
    <3>2. \A y \in times', q \in Panels, l \in Lanes :
            RefusedRow(q, l)' # NoRow => ~Same(y, RefusedRow(q, l)')
      BY <2>2, <3>1 DEF RowsInv, Sole
    <3>3. \A y \in rest', q \in Panels, l \in Lanes :
            Owed(y)' /\ RefusedRow(q, l)' # NoRow => ~Same(y.row, RefusedRow(q, l)')
      BY <1>5, <3>1 DEF RowsInv, Sole
    <3>4. \A q, r \in Panels, k, l \in Lanes :
            /\ RefusedRow(q, k)' # NoRow /\ RefusedRow(r, l)' # NoRow
            /\ Same(RefusedRow(q, k)', RefusedRow(r, l)')
            => q = r /\ k = l
      BY <3>1 DEF RowsInv, Sole, Same
    <3> QED  BY <1>5, <2>2, <3>2, <3>3, <3>4 DEF RowsInv, Sole
  <2> QED  BY <1>8, <2>1, <2>2
<1> QED  BY <1>9, <1>10, <1>11, <1>12, <1>14, <1>15, <1>16 DEF RowsInv

\* A board takes a new run.
LEMMA StartedRows ==
    ASSUME TypeOK, TypeOK', RowsInv, NEW p \in Panels, NEW c \in Board,
           board' = [board EXCEPT ![p] = c], c.chip = Both(NoChip),
           rest = {}, rest' = {}, times' \subseteq times,
           count'.runs \in {count.runs, count.runs + 1},
           \A x \in times : x.run # count'.runs,
           \A q \in Panels : q # p /\ board[q].run # 0 => count'.runs = count.runs,
           SeatsStay'
    PROVE  RowsInv'
<1> USE DEF TypeOK
<1>1. board'[p] = c /\ \A q \in Panels : q # p => board'[q] = board[q]
  OBVIOUS
<1>2. count.runs \in Nat /\ count'.runs \in Nat
  BY DEF Counts
<1>3. \A q \in Panels, l \in Lanes :
        IF q = p THEN HeldRow(q, l)' = NoRow /\ RefusedRow(q, l)' = NoRow
        ELSE HeldRow(q, l)' = HeldRow(q, l) /\ RefusedRow(q, l)' = RefusedRow(q, l)
  BY <1>1 DEF HeldRow, RefusedRow, Both, NoChip
<1>4. PostsOnly' /\ StartIsClean' /\ TimesAreHeld'
  BY DEF PostsOnly, StartIsClean, TimesAreHeld
<1>5. RunsPast'
  <2>1. \A n \in 1..count.runs : n \in 1..count'.runs
    BY <1>2
  <2> QED  BY <1>3, <2>1 DEF RowsInv, RunsPast
<1>6. HoldsFit'
  <2>1. SUFFICES ASSUME NEW q \in Panels, NEW l \in Lanes, board'[q].run # 0, q # p
                 PROVE  /\ HeldRow(q, l)' # NoRow => Fits(board[q], l, HeldRow(q, l))'
                        /\ RefusedRow(q, l)' # NoRow => Fits(board[q], l, RefusedRow(q, l))'
    BY <1>3 DEF HoldsFit
  <2> QED  BY <1>1, <1>3, <2>1 DEF RowsInv, HoldsFit, Fits
<1>7. Sole'
  BY <1>3 DEF RowsInv, Sole
<1> QED  BY <1>4, <1>5, <1>6, <1>7 DEF RowsInv

\* Seats stay where a board keeps them and says so.
LEMMA SeatsSent ==
    ASSUME TypeOK, RowsInv, NEW p \in Panels, NEW c \in Board, c.seats = FirstSeats,
           board' = [board EXCEPT ![p] = c],
           \A m \in net' : m \in net \/ (m.frame.kind = "selection" => m.frame.view.seats = FirstSeats)
    PROVE  SeatsStay'
BY DEF TypeOK, RowsInv, SeatsStay

\* What an act says of the seats ...
LEMMA ActSeats ==
    ASSUME TypeOK, RowsInv, NEW p \in Panels, NEW done \in Outcome, NEW frames,
           Act(p, done, frames), done.board.seats = FirstSeats,
           \A f \in frames : f.kind # "selection"
    PROVE  SeatsStay'
<1> DEFINE claim == Minted(p, stamp[p], TRUE, 0)
           moved == View(done.board) # View(board[p])
           sent == frames \union IF moved THEN {SelectionFrame(claim, done.board)} ELSE {}
<1>1. done.board \in Board
  BY DEF Outcome
<1>2. SelectionFrame(claim, done.board).view.seats = FirstSeats
  BY <1>1 DEF SelectionFrame, View
<1>3. board' = [board EXCEPT ![p] = done.board] /\ net' = net \union Fanout(p, sent)
  BY DEF Act, Commit
<1>4. \A f \in sent : f.kind = "selection" => f.view.seats = FirstSeats
  BY <1>2
<1> HIDE DEF sent
<1>5. \A m \in Fanout(p, sent) : m.frame.kind = "selection" => m.frame.view.seats = FirstSeats
  BY <1>4 DEF Fanout
<1> QED  BY <1>1, <1>3, <1>5, SeatsSent

\* ... and a delivery.
LEMMA DeliverSeats ==
    ASSUME TypeOK, RowsInv, NEW p \in Panels, Deliver(p), board'[p].seats = FirstSeats
    PROVE  SeatsStay'
<1>1. PICK m \in net :
      LET f     == m.frame
          done  == Applied(p, f)
          held  == IF f.kind = "selection" /\ Outranks(f.stamp, stamp[p])
                   THEN f.stamp ELSE stamp[p]
          echo  == IF View(done.board) = View(board[p]) THEN {}
                   ELSE {SelectionFrame(Restated(p, held), done.board)}
      IN  Commit(p, done) /\ net' = (net \ {m}) \union Fanout(p, echo)
  BY DEF Deliver
<1> DEFINE f == m.frame
           done == Applied(p, f)
           held == IF f.kind = "selection" /\ Outranks(f.stamp, stamp[p]) THEN f.stamp ELSE stamp[p]
           again == SelectionFrame(Restated(p, held), done.board)
           echo == IF View(done.board) = View(board[p]) THEN {} ELSE {again}
<1>2. f \in Frames
  BY DEF TypeOK
<1>3. done \in Outcome
  BY <1>2, AppliedType
<1> HIDE DEF held, done
<1>4. done.board \in Board
  BY <1>3 DEF Outcome
<1>5. board' = [board EXCEPT ![p] = done.board] /\ net' = (net \ {m}) \union Fanout(p, echo)
  BY <1>1 DEF Commit, done, held
<1>6. done.board.seats = FirstSeats
  BY <1>5 DEF TypeOK
<1>7. again.view.seats = FirstSeats
  BY <1>6 DEF SelectionFrame, View
<1> HIDE DEF again
<1>8. \A n \in Fanout(p, echo) : n.frame.kind = "selection" => n.frame.view.seats = FirstSeats
  BY <1>7 DEF Fanout
<1> QED  BY <1>4, <1>5, <1>6, <1>8, SeatsSent

\* The resets that close a run stay on their way.
LEMMA ClosingStays ==
    ASSUME TypeOK, NEW p \in Panels, NEW c, NEW gone, NEW frames, Sends(p, c, gone, frames),
           c.run \in {0, board[p].run}, Closing,
           \A m \in gone : m.frame.kind # "reset"
    PROVE  Closing'
<1>1. /\ board'[p] = c /\ \A q \in Panels : q # p => board'[q] = board[q]
      /\ \A m \in net : m \notin gone => m \in net'
  BY SendsWhat DEF TypeOK
<1>2. \A q \in Panels : ResetTo(q) => ResetTo(q)'
  BY <1>1 DEF ResetTo
<1> QED  BY <1>1, <1>2 DEF Closing

LEMMA StartStays ==
    ASSUME TypeOK, NEW p \in Panels, NEW c, NEW gone, NEW frames, Sends(p, c, gone, frames),
           StartLanded, \A f \in frames : f.kind # "start"
    PROVE  StartLanded'
<1>1. \A m \in net' : m \in net \/ m.frame \in frames \/ m.frame.kind = "selection"
  BY SendsWhat DEF TypeOK
<1> QED  BY <1>1 DEF StartLanded

\* What deletions leave.
LEMMA WithoutWhat ==
    ASSUME NEW rows, NEW drops
    PROVE  /\ Without(rows, drops) \subseteq rows
           /\ \A x \in Without(rows, drops) : x \notin drops
           /\ drops = {} => Without(rows, drops) = rows
BY DEF Without

\* What a silent step sends to the server.
LEMMA SilentRest ==
    ASSUME NEW p \in Panels, NEW done, Commit(p, done), Silent(done)
    PROVE  rest' = rest
BY DEF Commit, Silent

\* What a step with one POST sends.
LEMMA PostRest ==
    ASSUME NEW p \in Panels, NEW done, Commit(p, done), NEW lane, NEW gen, NEW row,
           done.posts = {[lane |-> lane, gen |-> gen, row |-> row]}, done.edits = {}
    PROVE  rest' = rest \union {[by |-> p, edit |-> FALSE, lane |-> lane, gen |-> gen, row |-> row]}
<1> DEFINE x == [lane |-> lane, gen |-> gen, row |-> row]
<1>1. Posted(p, x) = [by |-> p, edit |-> FALSE, lane |-> lane, gen |-> gen, row |-> row]
  BY DEF Posted
<1>2. {Posted(p, y) : y \in done.posts} = {Posted(p, x)}
  OBVIOUS
<1>3. {Put(p, y) : y \in done.edits} = {}
  OBVIOUS
<1> QED  BY <1>1, <1>2, <1>3 DEF Commit

\* No row has the time 0.
LEMMA RowsTakeTime == \A row \in Row : row.ms # 0 /\ row # NoRow
BY Kinds, RowIsOne DEF Row, Result, Dnf

LEMMA RowsHeld ==
    ASSUME TypeOK, NEW p \in Panels, NEW l \in Lanes
    PROVE  HeldRow(p, l) \in RowOrNone /\ RefusedRow(p, l) \in RowOrNone
<1>1. board[p].chip[l] \in Chip
  BY DEF TypeOK, Board
<1> QED  BY <1>1 DEF Chip, HeldRow, RefusedRow

\* A running panel holds nothing for a lane whose clock runs.
LEMMA RunningIsFree ==
    ASSUME TypeOK, RowsInv, NEW p \in Panels, NEW l \in Lanes, board[p].run # 0, board[p].frozen[l] = 0
    PROVE  /\ HeldRow(p, l) = NoRow /\ RefusedRow(p, l) = NoRow
           /\ \A x \in rest : x.by = p /\ x.lane = l => ~Owed(x)
           /\ Free(p, board[p], l)
<1>1. \A row \in Row : ~Fits(board[p], l, row)
  BY RowsTakeTime DEF Fits
<1>2. HeldRow(p, l) = NoRow /\ RefusedRow(p, l) = NoRow
  BY <1>1, RowsHeld DEF RowsInv, HoldsFit, RowOrNone
<1>3. \A x \in rest : x.by = p /\ x.lane = l => ~Owed(x)
  BY <1>1, RequestParts DEF RowsInv, HoldsFit
<1> QED  BY <1>2, <1>3 DEF Free, HeldRow, RefusedRow, Owed

\* Where a lane may be stopped, nobody has a row of it for the run.
LEMMA LaneIsClear ==
    ASSUME TypeOK, ClockInv, RowsInv, NEW p \in Panels, NEW lane \in Lanes,
           LaneLanded(lane), OnlyLanesMove, board[p].run # 0, board[p].frozen[lane] = 0,
           NEW row \in Row, row.run = count.runs, row.athlete = FirstSeats[lane]
    PROVE  /\ \A x \in times : ~Same(x, row)
           /\ \A x \in rest : Owed(x) => ~Same(x.row, row)
           /\ \A q \in Panels, l \in Lanes : RefusedRow(q, l) # NoRow => ~Same(RefusedRow(q, l), row)
<1>1. \A q \in Panels : board[q].run = count.runs /\ board[q].run # 0
  BY PressedOnAll
<1>2. \A q \in Panels : ~LaneTo(q, lane)
  BY DEF LaneTo, LaneLanded, IsLane
<1>3. \A q \in Panels : board[q].frozen[lane] = 0
  BY <1>1, <1>2 DEF ClockInv, LaneInv, HeardAgree
<1>4. \A l \in Lanes : FirstSeats[l] = FirstSeats[lane] => l = lane
  BY FirstSeatsDiffer DEF Lanes
<1>5. \A q \in Panels, l \in Lanes : RefusedRow(q, l) # NoRow => ~Same(RefusedRow(q, l), row)
  <2>1. SUFFICES ASSUME NEW q \in Panels, NEW l \in Lanes, RefusedRow(q, l) # NoRow,
                        Same(RefusedRow(q, l), row)
                 PROVE  FALSE
    OBVIOUS
  <2>2. l = lane
    BY <1>1, <1>4, <2>1 DEF RowsInv, HoldsFit, Fits, Same
  <2> QED  BY <1>1, <1>3, <2>1, <2>2, RunningIsFree
<1>6. \A x \in rest : Owed(x) => ~Same(x.row, row)
  <2>1. SUFFICES ASSUME NEW x \in rest, Owed(x), Same(x.row, row)  PROVE FALSE
    OBVIOUS
  <2>2. x.by \in Panels /\ x.lane \in Lanes
    BY RequestParts
  <2>3. x.lane = lane
    BY <1>1, <1>4, <2>1, <2>2 DEF RowsInv, HoldsFit, Fits, Same
  <2> QED  BY <1>1, <1>3, <2>1, <2>2, <2>3, RunningIsFree
<1>7. \A x \in times : ~Same(x, row)
  <2>1. SUFFICES ASSUME NEW x \in times, Same(x, row)  PROVE FALSE
    OBVIOUS
  <2>2. ~Closing
    BY <1>1 DEF Closing, ResetTo, OnlyLanesMove
  <2>3. PICK q \in Panels, l \in Lanes : HeldRow(q, l) = x
    BY <2>1, <2>2 DEF RowsInv, TimesAreHeld, Same
  <2>4. x # NoRow
    BY <2>1, RowsTakeTime DEF TypeOK
  <2>5. l = lane
    BY <1>1, <1>4, <2>1, <2>3, <2>4 DEF RowsInv, HoldsFit, Fits, Same
  <2> QED  BY <1>1, <1>3, <2>3, <2>4, <2>5, RunningIsFree
<1> QED  BY <1>5, <1>6, <1>7

\* A step of a panel that takes chips away, with the Times they hold.
LEMMA TakenRows ==
    ASSUME TypeOK, TypeOK', RowsInv, NEW p \in Panels, NEW c, NEW gone, NEW frames,
           Sends(p, c, gone, frames), c.run = board[p].run, count'.runs = count.runs,
           SeatsStay', rest' \subseteq rest, times' \subseteq times,
           \A l \in Lanes : c.gen[l] >= board[p].gen[l],
           \A l \in Lanes : \/ c.chip[l] = board[p].chip[l]
                            \/ c.chip[l] = NoChip /\ HeldRow(p, l) \notin times',
           c.run # 0 => \A l \in Lanes : c.frozen[l] = board[p].frozen[l] \/ Free(p, c, l),
           \A f \in frames : f.kind # "start", \A m \in gone : m.frame.kind # "reset"
    PROVE  RowsInv'
<1>1. c \in Board /\ board' = [board EXCEPT ![p] = c]
  BY DEF Sends
<1>2. StartLanded => StartLanded'
  BY StartStays
<1>3. Closing => Closing'
  BY ClosingStays
<1>4. \A l \in Lanes : c.chip[l].failed \in {board[p].chip[l].failed, NoRow}
                       /\ c.chip[l].saved \in {board[p].chip[l].saved, NoRow}
  BY DEF NoChip
<1>5. \A l \in Lanes, x \in times' : board[p].chip[l].saved = x => c.chip[l].saved = x
  BY DEF HeldRow
<1> QED  BY <1>1, <1>2, <1>3, <1>4, <1>5, RowsShrink

\* A clock that runs again.
LEMMA ResumedKeeps ==
    ASSUME NEW b \in Board, NEW lane \in Lanes
    PROVE  LET c == [b EXCEPT !.frozen[lane] = 0]
           IN  /\ c \in Board /\ c.run = b.run /\ SameSaves(b, c)
               /\ c.frozen = [b.frozen EXCEPT ![lane] = 0]
BY DEF Board, SameSaves

\* A delivered frame leaves one row where there was one.
LEMMA DeliverRows ==
    ASSUME TypeOK, TypeOK', ClockInv, ClockInv', RowsInv, NEW p \in Panels, Deliver(p)
    PROVE  RowsInv'
<1>1. PICK m \in net :
         /\ m.to = p /\ m.frame \in Frames
         /\ Applied(p, m.frame) \in Outcome
         /\ Commit(p, Applied(p, m.frame))
         /\ times' = Without(times, Applied(p, m.frame).drops)
         /\ Sends(p, Applied(p, m.frame).board, {m}, {})
         /\ count' = count
  BY DeliverSends
<1> DEFINE f == m.frame
           done == Applied(p, f)
           c == done.board
<1>2. board[p] \in Board /\ board[p].seats = FirstSeats /\ c \in Board /\ board' = [board EXCEPT ![p] = c]
      /\ board'[p] = c
  BY <1>1 DEF TypeOK, RowsInv, SeatsStay, Sends
<1>3. c.seats = FirstSeats => SeatsStay'
  BY <1>2, DeliverSeats
<1>4. times' \subseteq times /\ \A x \in times' : x \notin done.drops
  BY <1>1, WithoutWhat
<1>5. ASSUME Silent(done)  PROVE rest' = rest
  BY <1>1, <1>5, SilentRest
<1>6. CASE f.kind = "start"
  <2>1. done = Done(OnRaceStart(board[p], f.run)) /\ f.run \in Nat
    BY <1>1, <1>6 DEF Applied, Frames
  <2>2. OnRaceStart(board[p], f.run) \in Board
    BY <1>2, <2>1, OnRaceStartKeeps
  <2>3. c = OnRaceStart(board[p], f.run) /\ Silent(done)
    BY <2>1, <2>2, DoneType DEF Silent
  <2>4. c.chip = Both(NoChip) /\ c.seats = FirstSeats
    BY SMTT(30), <1>2, <2>1, <2>3, OnRaceStartKeeps
  <2>5. ~StartLanded
    BY <1>6 DEF StartLanded
  <2>6. rest = {} /\ \A x \in times : x.run # count.runs
    BY <2>5 DEF RowsInv, StartIsClean
  <2>7. rest' = {}
    BY <1>5, <2>3, <2>6
  <2> HIDE DEF c, done
  <2> QED  BY <1>1, <1>2, <1>3, <1>4, <2>4, <2>6, <2>7, StartedRows
<1>7. CASE f.kind = "reset"
  <2>1. done = Done(OnReset(board[p]))
    BY <1>7 DEF Applied
  <2>2. c = OnReset(board[p]) /\ Silent(done)
    BY <1>2, <2>1, OnResetKeeps, DoneType DEF Silent
  <2>3. c.run = 0 /\ c.chip = Both(NoChip) /\ c.seats = FirstSeats /\ c.gen = board[p].gen
    BY <1>2, <2>2, OnResetKeeps
  <2>4. ResetTo(p)
    BY <1>1, <1>7 DEF ResetTo
  <2>5. StartLanded
    BY <2>4 DEF ClockInv, RunInv, ResetIsForAll
  <2> HIDE DEF c, done
  <2>6. StartLanded'
    BY <1>1, <2>5, StartStays DEF c, done
  <2>7. Closing'
    BY <1>2, <2>3, <2>6 DEF ClockInv, RunInv, ResetIsForAll, StartTo, StartLanded
  <2>8. \A l \in Lanes : c.chip[l].failed = NoRow /\ c.chip[l].saved = NoRow
    BY <2>3 DEF Both, NoChip
  <2>9. \A l \in Lanes : c.gen[l] >= board[p].gen[l]
    BY <1>2, <2>3 DEF Board
  <2>10. SeatsStay' /\ rest' \subseteq rest /\ count'.runs = count.runs
    BY <1>1, <1>3, <1>5, <2>2, <2>3
  <2> QED  BY <1>2, <1>4, <2>3, <2>6, <2>7, <2>8, <2>9, <2>10, RowsShrink
<1>8. CASE f.kind = "stop"
  <2>1. f.lane \in Lanes /\ f.ms \in Elapsed
    BY <1>1, <1>8 DEF Frames
  <2> DEFINE b == [board[p] EXCEPT !.frozen[f.lane] = f.ms]
  <2>2. b \in Board /\ b.run = board[p].run /\ SameSaves(board[p], b)
        /\ b.frozen = [board[p].frozen EXCEPT ![f.lane] = f.ms]
    BY <1>2, <2>1, FrozenKeeps
  <2>3. done = IF board[p].run = 0 THEN Done(board[p]) ELSE Done(NotePeerFinish(b, f.lane, f.ms))
    BY <1>8 DEF Applied
  <2> HIDE DEF b
  <2>4. /\ NotePeerFinish(b, f.lane, f.ms) \in Board
        /\ SameClocks(b, NotePeerFinish(b, f.lane, f.ms)) /\ SameSaves(b, NotePeerFinish(b, f.lane, f.ms))
    BY <2>1, <2>2, NotePeerFinishKeeps
  <2>5. c = (IF board[p].run = 0 THEN board[p] ELSE NotePeerFinish(b, f.lane, f.ms)) /\ Silent(done)
    BY <1>2, <2>3, <2>4, DoneType DEF Silent
  <2>6. c.chip = board[p].chip /\ c.gen = board[p].gen /\ c.seats = FirstSeats /\ c.run = board[p].run
    BY <1>2, <2>2, <2>4, <2>5 DEF SameSaves, SameClocks
  <2> HIDE DEF c, done
  <2>7. \A l \in Lanes : c.gen[l] >= board[p].gen[l]
    BY <1>2, <2>6 DEF Board
  <2>8. c.run # 0 => \A l \in Lanes : c.frozen[l] = board[p].frozen[l] \/ Free(p, c, l)
    <3>1. SUFFICES ASSUME c.run # 0, NEW l \in Lanes  PROVE c.frozen[l] = board[p].frozen[l] \/ Free(p, c, l)
      OBVIOUS
    <3>2. c.frozen = [board[p].frozen EXCEPT ![f.lane] = f.ms]
      BY <2>2, <2>4, <2>5, <2>6, <3>1 DEF SameClocks
    <3>3. CASE l # f.lane
      BY <1>2, <3>2, <3>3 DEF Board
    <3>4. CASE l = f.lane
      <4>1. board[p].frozen[l] = 0
        BY <1>1, <1>8, <2>6, <3>1, <3>4 DEF ClockInv, LaneInv, StopFindsRunning
      <4>2. Free(p, board[p], l)
        BY <2>6, <3>1, <4>1, RunningIsFree
      <4> QED  BY <2>6, <4>2 DEF Free
    <3> QED  BY <3>3, <3>4
  <2>9. SeatsStay' /\ rest' \subseteq rest /\ count'.runs = count.runs
    BY <1>1, <1>3, <1>5, <2>5, <2>6
  <2>10. Sends(p, c, {m}, {}) /\ \A n \in {m} : n.frame.kind # "reset"
    BY <1>1, <1>8 DEF c, done
  <2> QED  BY <1>4, <2>6, <2>7, <2>8, <2>9, <2>10, TakenRows
<1>9. CASE f.kind = "resume"
  <2>1. f.lane \in Lanes /\ board[p] \in Board
    BY <1>1, <1>2, <1>9 DEF Frames
  <2> DEFINE b == [board[p] EXCEPT !.frozen[f.lane] = 0]
  <2>2. b \in Board /\ b.run = board[p].run /\ SameSaves(board[p], b)
        /\ b.frozen = [board[p].frozen EXCEPT ![f.lane] = 0]
    BY <2>1, ResumedKeeps
  <2>3. done = NotePeerResume(b, f.lane)
    BY <1>9 DEF Applied
  <2> HIDE DEF b
  <2>4. Withdrawn(b, f.lane, done)
    BY <2>1, <2>2, <2>3, NotePeerResumeKeeps
  <2> HIDE DEF done
  <2>5. /\ c.run = board[p].run /\ c.frozen = [board[p].frozen EXCEPT ![f.lane] = 0]
        /\ c.seats = FirstSeats /\ c.chip = [board[p].chip EXCEPT ![f.lane] = NoChip]
        /\ c.gen = [board[p].gen EXCEPT ![f.lane] = @ + 1]
        /\ Silent(done) /\ done.drops = SavedRows(board[p], {f.lane})
    BY <1>2, <2>2, <2>4 DEF Withdrawn, SameClocks, SameSaves, SavedRows
  <2> HIDE DEF c
  <2>6. \A l \in Lanes : c.gen[l] >= board[p].gen[l]
    BY <1>2, <2>1, <2>5 DEF Board
  <2>7. \A l \in Lanes : \/ c.chip[l] = board[p].chip[l]
                         \/ c.chip[l] = NoChip /\ HeldRow(p, l) \notin times'
    <3>1. ASSUME HeldRow(p, f.lane) \in times'  PROVE FALSE
      <4>1. HeldRow(p, f.lane) # NoRow
        BY <3>1, <1>4, RowsTakeTime DEF TypeOK
      <4>2. HeldRow(p, f.lane) \in done.drops
        BY <2>5, <4>1 DEF SavedRows, HeldRow
      <4> QED  BY <1>4, <3>1, <4>2
    <3> QED  BY <1>2, <2>1, <2>5, <3>1 DEF Board
  <2>8. Free(p, c, f.lane)
    <3>1. \A x \in rest : x.by = p /\ x.lane = f.lane => x.gen <= board[p].gen[f.lane] /\ x.gen \in Nat
      BY RequestParts DEF RowsInv, PostsOnly
    <3>2. board[p].gen[f.lane] \in Nat /\ c.gen[f.lane] = board[p].gen[f.lane] + 1
      BY <1>2, <2>1, <2>5 DEF Board
    <3>3. c.chip[f.lane] = NoChip
      BY <1>2, <2>1, <2>5 DEF Board
    <3> QED  BY <3>1, <3>2, <3>3 DEF Free, NoChip
  <2>9. \A l \in Lanes : c.frozen[l] = board[p].frozen[l] \/ Free(p, c, l)
    BY <1>2, <2>1, <2>5, <2>8 DEF Board
  <2>10. SeatsStay' /\ rest' \subseteq rest /\ count'.runs = count.runs
    BY <1>1, <1>3, <1>5, <2>5 DEF c
  <2>11. Sends(p, c, {m}, {}) /\ \A n \in {m} : n.frame.kind # "reset"
    BY <1>1, <1>9 DEF c, done
  <2>12. c.run = board[p].run /\ times' \subseteq times
    BY <1>4, <2>5
  <2> QED  BY <2>6, <2>7, <2>9, <2>10, <2>11, <2>12, TakenRows
<1>10. CASE f.kind = "selection"
  <2>1. f.view \in Views /\ f.view.seats = FirstSeats
    BY <1>1, <1>10 DEF Frames, RowsInv, SeatsStay
  <2>2. done = Done(board[p]) \/ done = Done(ApplySelection(board[p], f.view))
    BY <1>10 DEF Applied
  <2>3. /\ c = board[p] \/ c = ApplySelection(board[p], f.view)
        /\ Silent(done)
    BY <1>2, <2>1, <2>2, ApplySelectionKeeps, DoneType DEF Silent
  <2>4. SameClocks(board[p], c) /\ c.seats = FirstSeats /\ c.chip = board[p].chip /\ c.gen = board[p].gen
    BY <1>2, <2>1, <2>3, ApplySelectionKeeps DEF SameClocks
  <2> HIDE DEF c, done
  <2>5. \A l \in Lanes : c.gen[l] >= board[p].gen[l]
    BY <1>2, <2>4 DEF Board
  <2>6. SeatsStay' /\ rest' \subseteq rest /\ count'.runs = count.runs
    BY <1>1, <1>3, <1>5, <2>3, <2>4
  <2>7. Sends(p, c, {m}, {}) /\ \A n \in {m} : n.frame.kind # "reset"
    BY <1>1, <1>10 DEF c, done
  <2> QED  BY <1>4, <2>4, <2>5, <2>6, <2>7, TakenRows DEF SameClocks
<1> QED  BY <1>1, <1>6, <1>7, <1>8, <1>9, <1>10 DEF Frames

\* A Time that is deleted is on no chip's account any more.
LEMMA DroppedRows ==
    ASSUME TypeOK, NEW p \in Panels, NEW l \in Lanes, NEW lanes \in SUBSET Lanes, l \in lanes,
           NEW drops, times' = Without(times, drops), drops = SavedRows(board[p], lanes)
    PROVE  HeldRow(p, l) \notin times'
<1>1. SUFFICES ASSUME HeldRow(p, l) \in times'  PROVE FALSE
  OBVIOUS
<1>2. HeldRow(p, l) \in times /\ HeldRow(p, l) \notin drops
  BY <1>1, WithoutWhat
<1>3. HeldRow(p, l) # NoRow
  BY <1>2, RowsTakeTime DEF TypeOK
<1> QED  BY <1>2, <1>3 DEF SavedRows, HeldRow

\* An act that takes chips away, with the Times they hold, and posts nothing.
LEMMA TakenActs ==
    ASSUME TypeOK, TypeOK', RowsInv, NEW p \in Panels, NEW done \in Outcome, NEW frames,
           Act(p, done, frames), Silent(done), count'.runs = count.runs,
           done.board.run = board[p].run, done.board.seats = FirstSeats,
           \A l \in Lanes : done.board.gen[l] >= board[p].gen[l],
           \A l \in Lanes : \/ done.board.chip[l] = board[p].chip[l]
                            \/ done.board.chip[l] = NoChip /\ HeldRow(p, l) \notin times',
           board[p].run # 0 =>
             \A l \in Lanes : done.board.frozen[l] = board[p].frozen[l] \/ Free(p, done.board, l),
           \A f \in frames : f.kind \in {"stop", "resume"}
    PROVE  RowsInv'
<1> DEFINE c == done.board
<1>1. Sends(p, c, {}, frames)
  BY ActSends
<1>2. SeatsStay'
  BY ActSeats
<1>3. Commit(p, done) /\ times' = Without(times, done.drops)
  BY DEF Act
<1>4. rest' = rest /\ times' \subseteq times
  BY <1>3, SilentRest, WithoutWhat
<1> HIDE DEF c
<1>5. /\ c.run = board[p].run
      /\ \A l \in Lanes : c.gen[l] >= board[p].gen[l]
      /\ \A l \in Lanes : \/ c.chip[l] = board[p].chip[l]
                          \/ c.chip[l] = NoChip /\ HeldRow(p, l) \notin times'
      /\ c.run # 0 => \A l \in Lanes : c.frozen[l] = board[p].frozen[l] \/ Free(p, c, l)
  BY DEF c
<1>6. \A f \in frames : f.kind # "start"
  OBVIOUS
<1> QED  BY <1>1, <1>2, <1>4, <1>5, <1>6, TakenRows

\* A void or an award.
LEMMA VoidedRows ==
    ASSUME TypeOK, TypeOK', RowsInv, NEW p \in Panels, NEW done, Voided(board[p], done),
           Act(p, done, {}), count'.runs = count.runs
    PROVE  RowsInv'
<1>1. board[p] \in Board /\ board[p].seats = FirstSeats
  BY DEF TypeOK, RowsInv, SeatsStay
<1>2. /\ done \in Outcome /\ Silent(done) /\ done.board.run = board[p].run
      /\ done.board.frozen = board[p].frozen /\ done.board.seats = FirstSeats
      /\ done.board.gen = board[p].gen /\ done.board.chip = Both(NoChip)
      /\ done.drops = SavedRows(board[p], Lanes)
  BY <1>1 DEF Voided, SameClocks
<1>3. times' = Without(times, done.drops)
  BY DEF Act
<1>4. \A l \in Lanes : HeldRow(p, l) \notin times'
  BY <1>2, <1>3, DroppedRows
<1>5. \A l \in Lanes : done.board.chip[l] = NoChip
  BY <1>2 DEF Both
<1>6. \A l \in Lanes : done.board.gen[l] >= board[p].gen[l]
  BY <1>1, <1>2 DEF Board
<1> QED  BY <1>2, <1>4, <1>5, <1>6, TakenActs

\* A start.
LEMMA GoRows ==
    ASSUME PlainSeries, TypeOK, TypeOK', ClockInv, RowsInv, NEW p \in Panels, Go(p)
    PROVE  RowsInv'
<1> DEFINE c == OnRaceStart(board[p], count.runs + 1)
<1>1. board[p] \in Board /\ board[p].seats = FirstSeats /\ count \in Counts
  BY DEF TypeOK, RowsInv, SeatsStay
<1>2. c \in Board /\ c.chip = Both(NoChip) /\ c.seats = FirstSeats
  <2>1. count.runs + 1 \in Nat
    BY <1>1 DEF Counts
  <2> QED  BY <1>1, <2>1, OnRaceStartKeeps
<1>3. /\ Act(p, Done(c), {StartFrame(count.runs + 1)}) /\ net = {} /\ rest = {}
      /\ count'.runs = count.runs + 1
  BY <1>1 DEF PlainSeries, Go, Landed, Answered, Counts
<1> HIDE DEF c
<1>4. Done(c) \in Outcome /\ Done(c).board = c /\ Silent(Done(c))
  BY <1>2, DoneType DEF Silent
<1>5. Commit(p, Done(c)) /\ times' = Without(times, Done(c).drops)
  BY <1>3 DEF Act
<1>6. board' = [board EXCEPT ![p] = c] /\ rest' = {} /\ times' \subseteq times
  BY <1>3, <1>4, <1>5, SilentRest, WithoutWhat DEF Commit
<1>7. SeatsStay'
  <2>1. \A f \in {StartFrame(count.runs + 1)} : f.kind # "selection"
    BY DEF StartFrame
  <2> QED  BY <1>2, <1>3, <1>4, <2>1, ActSeats
<1>8. \A q \in Panels : board[q].run = 0
  <2>1. board[p].run = 0
    BY DEF Go
  <2> QED  BY <1>3, <2>1 DEF ClockInv, RunInv, ResetIsForAll, StartTo, Closing, ResetTo
<1>9. \A x \in times : x.run # count'.runs
  <2>1. count.runs \in Nat
    BY <1>1 DEF Counts
  <2> QED  BY <1>3, <2>1 DEF RowsInv, RunsPast
<1> QED  BY <1>2, <1>3, <1>6, <1>7, <1>8, <1>9, StartedRows

\* A reset.
LEMMA ResetRows ==
    ASSUME TypeOK, TypeOK', ClockInv', RowsInv, NEW p \in Panels, Reset(p)
    PROVE  RowsInv'
<1> DEFINE c == OnReset(board[p])
<1>1. board[p] \in Board /\ board[p].seats = FirstSeats /\ count \in Counts
  BY DEF TypeOK, RowsInv, SeatsStay
<1>2. c \in Board /\ c.run = 0 /\ c.chip = Both(NoChip) /\ c.seats = FirstSeats /\ c.gen = board[p].gen
  BY <1>1, OnResetKeeps
<1>3. Act(p, Done(c), {ResetFrame}) /\ StartLanded /\ count'.runs = count.runs
  BY <1>1 DEF Reset, Counts
<1> HIDE DEF c
<1>4. Done(c) \in Outcome /\ Done(c).board = c /\ Silent(Done(c))
  BY <1>2, DoneType DEF Silent
<1>5. Commit(p, Done(c)) /\ times' = Without(times, Done(c).drops)
  BY <1>3 DEF Act
<1>6. board' = [board EXCEPT ![p] = c] /\ rest' = rest /\ times' \subseteq times
  BY <1>4, <1>5, SilentRest, WithoutWhat DEF Commit
<1>7. \A f \in {ResetFrame} : f.kind = "reset"
  BY DEF ResetFrame
<1>8. SeatsStay'
  BY <1>2, <1>3, <1>4, <1>7, ActSeats
<1>9. StartLanded'
  <2>1. Sends(p, c, {}, {ResetFrame})
    BY <1>3, <1>4, ActSends
  <2> QED  BY <1>3, <1>7, <2>1, StartStays
<1>10. Closing'
  <2>1. board'[p].run = 0
    BY <1>2, <1>6 DEF TypeOK
  <2>2. ~StartTo(p)'
    BY <1>9 DEF StartTo, StartLanded
  <2> QED  BY <2>1, <2>2 DEF ClockInv, RunInv, ResetIsForAll
<1>11. \A l \in Lanes : c.chip[l].failed = NoRow /\ c.chip[l].saved = NoRow
  BY <1>2 DEF Both, NoChip
<1>12. \A l \in Lanes : c.gen[l] >= board[p].gen[l]
  BY <1>1, <1>2 DEF Board
<1> QED  BY <1>2, <1>3, <1>6, <1>8, <1>9, <1>10, <1>11, <1>12, RowsShrink

\* A resume deletes the Time its lane holds, and no reply brings it back.
LEMMA ResumeRows ==
    ASSUME TypeOK, TypeOK', RowsInv, NEW p \in Panels, NEW lane \in Lanes, Resume(p, lane)
    PROVE  RowsInv'
<1> DEFINE b == [board[p] EXCEPT !.frozen[lane] = 0]
           done == ResumeLane(b, lane)
<1>1. board[p] \in Board /\ board[p].seats = FirstSeats /\ count \in Counts
  BY DEF TypeOK, RowsInv, SeatsStay
<1>2. b \in Board /\ b.run = board[p].run /\ SameSaves(board[p], b)
      /\ b.frozen = [board[p].frozen EXCEPT ![lane] = 0]
  BY <1>1, ResumedKeeps
<1>3. Act(p, done, {ResumeFrame(lane)}) /\ count' = Counted("resumes")
  BY DEF Resume
<1>4. count'.runs = count.runs
  BY <1>1, <1>3, CountedType
<1> HIDE DEF b
<1>5. Withdrawn(b, lane, done)
  BY <1>2, ResumeLaneKeeps
<1> HIDE DEF done
<1>6. /\ done \in Outcome /\ done.board.run = board[p].run
      /\ done.board.frozen = [board[p].frozen EXCEPT ![lane] = 0]
      /\ done.board.seats = FirstSeats /\ done.board.chip = [board[p].chip EXCEPT ![lane] = NoChip]
      /\ done.board.gen = [board[p].gen EXCEPT ![lane] = @ + 1]
      /\ Silent(done) /\ done.drops = SavedRows(board[p], {lane})
  BY <1>1, <1>2, <1>5 DEF Withdrawn, SameClocks, SameSaves, SavedRows
<1>7. times' = Without(times, done.drops)
  BY <1>3 DEF Act
<1>8. HeldRow(p, lane) \notin times'
  BY <1>6, <1>7, DroppedRows
<1>9. \A l \in Lanes : done.board.gen[l] >= board[p].gen[l]
  BY <1>1, <1>6 DEF Board
<1>10. \A l \in Lanes : \/ done.board.chip[l] = board[p].chip[l]
                        \/ done.board.chip[l] = NoChip /\ HeldRow(p, l) \notin times'
  BY <1>1, <1>6, <1>8 DEF Board
<1>11. Free(p, done.board, lane)
  <2>1. \A x \in rest : x.by = p /\ x.lane = lane => x.gen <= board[p].gen[lane] /\ x.gen \in Nat
    BY RequestParts DEF RowsInv, PostsOnly
  <2>2. board[p].gen[lane] \in Nat /\ done.board.gen[lane] = board[p].gen[lane] + 1
        /\ done.board.chip[lane] = NoChip
    BY <1>1, <1>6 DEF Board
  <2> QED  BY <2>1, <2>2 DEF Free, NoChip
<1>12. \A l \in Lanes : done.board.frozen[l] = board[p].frozen[l] \/ Free(p, done.board, l)
  BY <1>1, <1>6, <1>11 DEF Board
<1>13. \A f \in {ResumeFrame(lane)} : f.kind \in {"stop", "resume"}
  BY DEF ResumeFrame
<1>14. done.board.run = board[p].run /\ done.board.seats = FirstSeats /\ Silent(done) /\ done \in Outcome
  BY <1>6
<1> QED  BY <1>3, <1>4, <1>9, <1>10, <1>12, <1>13, <1>14, TakenActs

\* A stop posts the first row of its lane, or none.
LEMMA StopRows ==
    ASSUME TypeOK, TypeOK', ClockInv, RowsInv, NEW p \in Panels, NEW lane \in Lanes, Stop(p, lane)
    PROVE  RowsInv'
<1>1. board[p] \in Board /\ board[p].seats = FirstSeats /\ count \in Counts
  BY DEF TypeOK, RowsInv, SeatsStay
<1>2. PICK ms \in Elapsed :
        Act(p, RecordFinish([board[p] EXCEPT !.frozen[lane] = ms], lane, NextRow(p, lane, ms)),
            {StopFrame(lane, ms)})
  BY DEF Stop
<1> DEFINE b == [board[p] EXCEPT !.frozen[lane] = ms]
           row == NextRow(p, lane, ms)
           done == RecordFinish(b, lane, row)
           c == done.board
<1>3. b \in Board /\ b.run = board[p].run /\ SameSaves(board[p], b)
      /\ b.frozen = [board[p].frozen EXCEPT ![lane] = ms]
  BY <1>1, FrozenKeeps
<1>4. row \in Row /\ row.run = board[p].run /\ row.athlete = FirstSeats[lane] /\ row.ms = ms
  BY <1>1, NextRowType DEF Result, NextRow
<1>5. /\ LaneLanded(lane) /\ OnlyLanesMove /\ board[p].run # 0 /\ board[p].frozen[lane] = 0
      /\ count'.runs = count.runs
  BY <1>1 DEF Stop, Judged, Runs, Counts
<1> HIDE DEF b, row
<1>6. /\ done \in Outcome /\ SameClocks(b, c) /\ c.seats = b.seats /\ c.gen = b.gen
      /\ done.edits = {} /\ done.drops = {}
      /\ \/ done.posts = {} /\ c.chip = b.chip
         \/ done.posts = OnePost(b, lane, row) /\ c.chip = [b.chip EXCEPT ![lane] = Pending]
  BY <1>3, <1>4, RecordFinishKeeps
<1>7. Act(p, done, {StopFrame(lane, ms)})
  BY <1>2 DEF b, row
<1> HIDE DEF done
<1>8. /\ c \in Board /\ c.run = board[p].run /\ c.frozen = [board[p].frozen EXCEPT ![lane] = ms]
      /\ c.seats = FirstSeats /\ c.gen = board[p].gen
  BY <1>1, <1>3, <1>6 DEF SameClocks, SameSaves, Outcome
<1>9. \A l \in Lanes : c.gen[l] >= board[p].gen[l]
  BY <1>1, <1>8 DEF Board
<1>10. \A f \in {StopFrame(lane, ms)} : f.kind = "stop"
  BY DEF StopFrame
<1>11. c.frozen[lane] = ms /\ \A l \in Lanes : l # lane => c.frozen[l] = board[p].frozen[l]
  BY <1>1, <1>8 DEF Board
<1>12. CASE done.posts = {} /\ c.chip = b.chip
  <2>1. Silent(done)
    BY <1>6, <1>12 DEF Silent
  <2>2. c.chip = board[p].chip
    BY <1>3, <1>12 DEF SameSaves
  <2>3. Free(p, board[p], lane)
    BY <1>5, RunningIsFree
  <2>4. Free(p, c, lane)
    BY <1>8, <2>2, <2>3 DEF Free
  <2>5. \A l \in Lanes : c.frozen[l] = board[p].frozen[l] \/ Free(p, c, l)
    BY <1>11, <2>4
  <2>6. \A l \in Lanes : c.chip[l] = board[p].chip[l]
    BY <2>2
  <2>7. \A f \in {StopFrame(lane, ms)} : f.kind \in {"stop", "resume"}
    BY <1>10
  <2>8. done \in Outcome /\ c.run = board[p].run /\ c.seats = FirstSeats
    BY <1>6, <1>8
  <2> QED  BY <1>5, <1>7, <1>9, <2>1, <2>5, <2>6, <2>7, <2>8, TakenActs
<1>13. CASE done.posts = OnePost(b, lane, row) /\ c.chip = [b.chip EXCEPT ![lane] = Pending]
  <2>1. Commit(p, done) /\ times' = Without(times, done.drops)
    BY <1>7 DEF Act
  <2>2. times' = times /\ board' = [board EXCEPT ![p] = c]
    BY <1>6, <2>1, WithoutWhat DEF Commit
  <2>3. done.posts = {[lane |-> lane, gen |-> c.gen[lane], row |-> row]}
    BY <1>6, <1>13 DEF OnePost
  <2>4. rest' = rest \union
          {[by |-> p, edit |-> FALSE, lane |-> lane, gen |-> c.gen[lane], row |-> row]}
    BY SMTT(30), <1>6, <2>1, <2>3, PostRest
  <2>5. SeatsStay'
    BY <1>6, <1>7, <1>8, <1>10, ActSeats
  <2>6. StartLanded'
    <3>1. StartLanded
      BY <1>5 DEF OnlyLanesMove, StartLanded
    <3>2. Sends(p, c, {}, {StopFrame(lane, ms)})
      BY <1>6, <1>7, ActSends
    <3> QED  BY <1>10, <3>1, <3>2, StartStays
  <2>7. ~Closing
    BY <1>5 DEF Closing, ResetTo, OnlyLanesMove
  <2>8. board[p].run = count.runs /\ count.runs \in 1..count.runs
    <3>1. board[p].run = count.runs
      BY <1>5 DEF ClockInv, RunInv, RunIsLast
    <3> QED  BY <1>1, <1>5, <3>1 DEF Counts
  <2>9. row.run \in 1..count.runs /\ Fits(c, lane, row)
    BY <1>4, <1>11, <2>8 DEF Fits
  <2>10. /\ HeldRow(p, lane) = NoRow
         /\ \A x \in rest : x.by = p /\ x.lane = lane => ~Owed(x)
    BY <1>5, RunningIsFree
  <2>11. HeldRow(p, lane) \notin times
    BY <2>10, RowsTakeTime DEF TypeOK
  <2>12. /\ \A x \in times : ~Same(x, row)
         /\ \A x \in rest : Owed(x) => ~Same(x.row, row)
         /\ \A q \in Panels, l \in Lanes : RefusedRow(q, l) # NoRow => ~Same(RefusedRow(q, l), row)
    BY <1>4, <1>5, <2>8, LaneIsClear
  <2>13. c.chip = [board[p].chip EXCEPT ![lane] = Pending]
    BY <1>3, <1>13 DEF SameSaves
  <2> HIDE DEF c
  <2> QED  BY <1>4, <1>5, <1>8, <1>9, <1>11, <2>2, <2>4, <2>5, <2>6, <2>7, <2>9, <2>10, <2>11,
              <2>12, <2>13, PostRows
<1> QED  BY <1>6, <1>12, <1>13

\* A retry posts the refused row again, and the chip forgets it.
LEMMA RetryRows ==
    ASSUME TypeOK, TypeOK', RowsInv, NEW p \in Panels, NEW lane \in Lanes, Retry(p, lane)
    PROVE  RowsInv'
<1>1. board[p] \in Board /\ board[p].seats = FirstSeats /\ count \in Counts
  BY DEF TypeOK, RowsInv, SeatsStay
<1> DEFINE done == RetrySave(board[p], lane, count.posts + 1)
           was == board[p].chip[lane].failed
           row == Again(was, count.posts + 1)
           c == done.board
<1>2. /\ StartLanded /\ was # NoRow /\ was \in Row /\ Act(p, done, {}) /\ count'.runs = count.runs
  BY <1>1, RowsHeld DEF Retry, RefusedRow, Counts, RowOrNone
<1>3. /\ done \in Outcome /\ SameClocks(board[p], c) /\ c.seats = FirstSeats
      /\ c.gen = [board[p].gen EXCEPT ![lane] = @ + 1]
      /\ c.chip = [board[p].chip EXCEPT ![lane] = Pending]
      /\ row \in Row
      /\ done.posts = {[lane |-> lane, gen |-> board[p].gen[lane] + 1, row |-> row]}
      /\ done.edits = {} /\ done.drops = {}
  <2>1. count.posts + 1 \in Nat
    BY <1>1 DEF Counts
  <2>2. board[p].chip[lane].failed # NoRow
    BY <1>2
  <2> DEFINE post == count.posts + 1
             again == Again(board[p].chip[lane].failed, post)
             d == RetrySave(board[p], lane, post)
  <2>3. board[p] \in Board /\ post \in Nat
    BY <1>1, <2>1
  <2> HIDE DEF post
  <2>4. /\ d \in Outcome /\ SameClocks(board[p], d.board) /\ d.board.seats = board[p].seats
        /\ d.board.gen = [board[p].gen EXCEPT ![lane] = @ + 1]
        /\ d.board.chip = [board[p].chip EXCEPT ![lane] = Pending]
        /\ again \in Row
        /\ d.posts = {[lane |-> lane, gen |-> board[p].gen[lane] + 1, row |-> again]}
        /\ d.edits = {} /\ d.drops = {}
    BY <2>2, <2>3, RetrySaveKeeps
  <2> QED  BY <1>1, <2>4 DEF post
<1>4. row.run = was.run /\ row.athlete = was.athlete /\ row.ms = was.ms
  BY <1>2 DEF Again, Row
<1> HIDE DEF done, row, was
<1>5. Commit(p, done) /\ times' = Without(times, done.drops)
  BY <1>2 DEF Act
<1>6. c \in Board /\ c.run = board[p].run /\ c.frozen = board[p].frozen
  BY <1>3 DEF Outcome, SameClocks
<1>7. times' = times /\ board' = [board EXCEPT ![p] = c]
  BY <1>3, <1>5, WithoutWhat DEF Commit
<1>8. c.gen[lane] = board[p].gen[lane] + 1 /\ \A l \in Lanes : c.gen[l] >= board[p].gen[l]
  BY <1>1, <1>3 DEF Board
<1>9. rest' = rest \union
        {[by |-> p, edit |-> FALSE, lane |-> lane, gen |-> c.gen[lane], row |-> row]}
  BY <1>3, <1>5, <1>8, PostRest
<1>10. SeatsStay'
  BY <1>2, <1>3, ActSeats
<1>11. Sends(p, c, {}, {})
  BY <1>2, <1>3, ActSends
<1>12. StartLanded' /\ (Closing => Closing')
  BY <1>2, <1>6, <1>11, StartStays, ClosingStays
<1>13. row.run \in 1..count.runs
  BY <1>2, <1>4 DEF RowsInv, RunsPast, RefusedRow, was
<1>14. c.run # 0 => Fits(c, lane, row)
  BY <1>2, <1>4, <1>6 DEF RowsInv, HoldsFit, Fits, RefusedRow, was
<1>15. /\ \A x \in times : ~Same(x, row)
       /\ \A x \in rest : Owed(x) => ~Same(x.row, row)
       /\ \A q \in Panels, l \in Lanes :
            RefusedRow(q, l) # NoRow /\ Same(RefusedRow(q, l), row) => q = p /\ l = lane
  <2>1. was = RefusedRow(p, lane)
    BY DEF RefusedRow, was
  <2> QED  BY <1>2, <1>4, <2>1 DEF RowsInv, Sole, Same
<1>16. c.run # 0 => HeldRow(p, lane) \notin times
  <2>1. SUFFICES ASSUME c.run # 0, HeldRow(p, lane) \in times  PROVE FALSE
    OBVIOUS
  <2>2. HeldRow(p, lane) # NoRow
    BY <2>1, RowsTakeTime DEF TypeOK
  <2>3. Same(HeldRow(p, lane), row)
    BY <1>6, <1>14, <2>1, <2>2 DEF RowsInv, HoldsFit, Fits, Same
  <2> QED  BY <1>15, <2>1, <2>3
<1> HIDE DEF c
<1>17. /\ \A l \in Lanes : l # lane => c.frozen[l] = board[p].frozen[l]
       /\ c.frozen[lane] = board[p].frozen[lane]
  BY <1>6
<1> QED  BY <1>2, <1>3, <1>6, <1>7, <1>8, <1>9, <1>10, <1>12, <1>13, <1>14, <1>15, <1>16, <1>17,
            PostRows DEF c

\* What a panel without a run waits for is of a run that is over.
LEMMA LateReplies ==
    ASSUME TypeOK, ClockInv, RowsInv, NEW x \in rest
    PROVE  board[x.by].run = 0 => Closing
<1>1. StartLanded /\ x.by \in Panels
  BY RequestParts DEF RowsInv, StartIsClean
<1>2. ~StartTo(x.by)
  BY <1>1 DEF StartTo, StartLanded
<1> QED  BY <1>1, <1>2 DEF ClockInv, RunInv, ResetIsForAll

\* A request is answered too late, and nothing comes of it.
LEMMA DroppedReply ==
    ASSUME TypeOK, TypeOK', RowsInv, NEW p \in Panels, board' = board, net' = net,
           count'.runs = count.runs, rest' \subseteq rest, times' \subseteq times
    PROVE  RowsInv'
<1>1. board[p] \in Board /\ board' = [board EXCEPT ![p] = board[p]]
  BY DEF TypeOK
<1>2. SeatsStay'
  BY DEF RowsInv, SeatsStay
<1>3. Closing' = Closing /\ StartLanded' = StartLanded
  BY DEF Closing, ResetTo, StartLanded
<1>4. \A l \in Lanes : board[p].gen[l] >= board[p].gen[l]
  BY <1>1 DEF Board
<1> QED  BY <1>1, <1>2, <1>3, <1>4, RowsShrink

\* The reply to a save.
LEMMA ReplyRows ==
    ASSUME TypeOK, TypeOK', ClockInv, RowsInv, NEW p \in Panels, Reply(p)
    PROVE  RowsInv'
<1>1. PICK x \in rest :
        /\ x.by = p
        /\ board' = [board EXCEPT ![p] = Saved(board[p], x.lane, x.gen, x.row).board]
        /\ times' = Without(times \union {x.row}, Saved(board[p], x.lane, x.gen, x.row).drops)
        /\ rest' = rest \ {x} /\ net' = net /\ count' = count
  BY DEF Reply
<1> DEFINE d == Saved(board[p], x.lane, x.gen, x.row)
           c == d.board
<1>2. x.lane \in Lanes /\ x.row \in Row /\ board[p] \in Board
  BY RequestParts DEF TypeOK
<1>3. /\ c \in Board /\ SameClocks(board[p], c) /\ c.seats = board[p].seats /\ c.gen = board[p].gen
      /\ x.gen # board[p].gen[x.lane] => c = board[p] /\ d.drops = {x.row}
      /\ x.gen = board[p].gen[x.lane] =>
           c.chip = [board[p].chip EXCEPT ![x.lane] = SavedChip(x.row)] /\ d.drops = {}
  BY <1>2, SavedKeeps
<1> HIDE DEF d
<1>4. CASE Owed(x)
  <2>1. c.chip = [board[p].chip EXCEPT ![x.lane] = SavedChip(x.row)] /\ d.drops = {}
    BY <1>1, <1>3, <1>4 DEF Owed
  <2>2. times' = times \union {x.row}
    BY <1>1, <2>1, WithoutWhat DEF d
  <2>3. board' = [board EXCEPT ![p] = c]
    BY <1>1 DEF d
  <2>4. c.run = 0 => Closing
    BY <1>1, <1>3, LateReplies DEF SameClocks
  <2>5. c \in Board
    BY <1>3
  <2> HIDE DEF c
  <2>6. /\ board' = [board EXCEPT ![x.by] = c] /\ count'.runs = count.runs
        /\ SameClocks(board[x.by], c) /\ c.seats = board[x.by].seats /\ c.gen = board[x.by].gen
        /\ c.chip = [board[x.by].chip EXCEPT ![x.lane] = SavedChip(x.row)]
    BY <1>1, <1>3, <2>1, <2>3 DEF c
  <2> QED  BY <1>1, <1>4, <2>2, <2>4, <2>5, <2>6, AnswerRows
<1>5. CASE ~Owed(x)
  <2>1. c = board[p] /\ d.drops = {x.row}
    BY <1>1, <1>3, <1>5 DEF Owed
  <2>2. times' \subseteq times
    BY <1>1, <2>1 DEF d, Without
  <2>3. board' = board
    BY <1>1, <2>1 DEF TypeOK, d
  <2> QED  BY <1>1, <2>2, <2>3, DroppedReply
<1> QED  BY <1>4, <1>5

\* The save is refused.
LEMMA RefuseRows ==
    ASSUME TypeOK, TypeOK', ClockInv, RowsInv, NEW p \in Panels, Refuse(p)
    PROVE  RowsInv'
<1>1. PICK x \in rest :
        /\ x.by = p /\ (count' = count \/ count' = Counted("refused"))
        /\ board' = [board EXCEPT ![p] =
                       IF x.edit THEN NotCorrected(board[p], x.lane, x.from).board
                       ELSE Refused(board[p], x.lane, x.gen, x.row).board]
        /\ times' = times /\ rest' = rest \ {x} /\ net' = net
  BY DEF Refuse
<1> DEFINE c == Refused(board[p], x.lane, x.gen, x.row).board
<1>2. x.lane \in Lanes /\ x.row \in Row /\ ~x.edit /\ board[p] \in Board /\ count \in Counts
  BY RequestParts DEF TypeOK, RowsInv, PostsOnly
<1>3. count'.runs = count.runs
  BY <1>1, <1>2, CountedType
<1>4. board' = [board EXCEPT ![p] = c]
  BY <1>1, <1>2
<1>5. /\ c \in Board /\ SameClocks(board[p], c) /\ c.seats = board[p].seats /\ c.gen = board[p].gen
      /\ x.gen # board[p].gen[x.lane] => c = board[p]
      /\ x.gen = board[p].gen[x.lane] => c.chip = [board[p].chip EXCEPT ![x.lane] = ErrorChip(x.row)]
  BY <1>2, RefusedKeeps
<1> HIDE DEF c
<1>6. CASE Owed(x)
  <2>1. c.chip = [board[p].chip EXCEPT ![x.lane] = ErrorChip(x.row)]
    BY <1>1, <1>5, <1>6 DEF Owed
  <2>2. c.run = 0 => Closing
    BY <1>1, <1>5, LateReplies DEF SameClocks
  <2>3. /\ board' = [board EXCEPT ![x.by] = c]
        /\ SameClocks(board[x.by], c) /\ c.seats = board[x.by].seats /\ c.gen = board[x.by].gen
        /\ c.chip = [board[x.by].chip EXCEPT ![x.lane] = ErrorChip(x.row)]
    BY <1>1, <1>4, <1>5, <2>1
  <2> QED  BY <1>1, <1>3, <1>5, <1>6, <2>2, <2>3, AnswerRows
<1>7. CASE ~Owed(x)
  <2>1. c = board[p]
    BY <1>1, <1>5, <1>7 DEF Owed
  <2>2. board' = board
    BY <1>4, <2>1 DEF TypeOK
  <2> QED  BY <1>1, <1>3, <2>2, DroppedReply
<1> QED  BY <1>6, <1>7

\* One step keeps the rows in order.
LEMMA RowStep ==
    ASSUME PlainSeries, TypeOK, TypeOK', ClockInv, ClockInv', RowsInv, Next
    PROVE  RowsInv'
<1>1. PICK p \in Panels :
        \/ Go(p) \/ Reset(p) \/ Void(p) \/ Swap(p) \/ Award(p)
        \/ \E lane \in Lanes :
             \/ Stop(p, lane) \/ Resume(p, lane) \/ Dnfed(p, lane)
             \/ Flag(p, lane) \/ Correct(p, lane) \/ Retry(p, lane)
        \/ Reply(p) \/ EditReply(p) \/ Refuse(p) \/ Deliver(p)
  BY DEF Next
<1>2. board[p] \in Board /\ count \in Counts /\ board[p].seats = FirstSeats
  BY DEF TypeOK, RowsInv, SeatsStay
\* What the assumption excludes.
<1>3. ~Swap(p) /\ \A lane \in Lanes : ~Dnfed(p, lane) /\ ~Correct(p, lane)
  <2>1. count["swaps"] \in Nat /\ count["dnfs"] \in Nat /\ count["edits"] \in Nat
    BY <1>2 DEF Counts
  <2> QED  BY <2>1 DEF PlainSeries, Swap, Dnfed, Correct, Pressed
<1>4. ~EditReply(p)
  BY DEF EditReply, RowsInv, PostsOnly
<1>5. CASE Void(p)
  <2>1. count'.runs = count.runs
    BY <1>2, <1>5, CountedType DEF Void, Counts
  <2> QED  BY <1>2, <1>5, <2>1, VoidRunKeeps, VoidedRows DEF Void
<1>6. CASE Award(p)
  <2> DEFINE done == AwardRunTo(board[p], Other(Offender(board[p])))
  <2>1. Other(Offender(board[p])) \in Lanes
    BY <1>6, Kinds DEF Award, Offender
  <2>2. Voided(board[p], done)
    BY <1>2, <2>1, AwardRunToKeeps
  <2>3. Act(p, done, {}) /\ count'.runs = Counted("awards").runs
    BY <1>2, <1>6, CountedType DEF Award, Counts
  <2> HIDE DEF done
  <2>4. count'.runs = count.runs
    BY <1>2, <2>3, CountedType
  <2> QED  BY <2>2, <2>3, <2>4, VoidedRows
<1>7. ASSUME NEW lane \in Lanes, Flag(p, lane)  PROVE RowsInv'
  <2>1. count'.runs = count.runs
    BY <1>2, <1>7, CountedType DEF Flag
  <2>2. PICK c \in {FlagFs(board[p], lane), ClearFs(board[p], lane)} : Act(p, Done(c), {})
    BY <1>7 DEF Flag
  <2>3. c \in Board /\ SameClocks(board[p], c) /\ SameSaves(board[p], c)
    BY <1>2, FlagsKeep
  <2>4. Done(c) \in Outcome /\ Done(c).board = c /\ Silent(Done(c))
    BY <2>3, DoneType DEF Silent
  <2>5. \A l \in Lanes : c.gen[l] >= board[p].gen[l]
    BY <1>2, <2>3 DEF Board, SameSaves
  <2> QED  BY <1>2, <2>1, <2>2, <2>3, <2>4, <2>5, TakenActs DEF SameClocks, SameSaves
<1> QED
  BY <1>1, <1>3, <1>4, <1>5, <1>6, <1>7, GoRows, ResetRows, StopRows, ResumeRows, RetryRows,
     ReplyRows, RefuseRows, DeliverRows

\* At the outset there are no rows.
LEMMA RowsInit ==
    ASSUME Init
    PROVE  RowsInv
<1>1. /\ net = {} /\ rest = {} /\ times = {}
      /\ \A p \in Panels : board[p].seats = FirstSeats /\ board[p].run = 0
                           /\ board[p].chip = Both(NoChip)
  BY FreshBoardType DEF Init
<1>2. \A p \in Panels, l \in Lanes : RefusedRow(p, l) = NoRow
  BY <1>1 DEF RefusedRow, Both, NoChip
<1> QED
  BY <1>1, <1>2 DEF RowsInv, SeatsStay, PostsOnly, RunsPast, StartIsClean, HoldsFit, TimesAreHeld, Sole

\* In a plain series all of it holds throughout.
LEMMA RowsHold ==
    ASSUME PlainSeries
    PROVE  Spec => [](TypeOK /\ ClockInv /\ RowsInv)
<1>1. Init => RowsInv
  BY RowsInit
<1>2. TypeOK /\ TypeOK' /\ ClockInv /\ ClockInv' /\ RowsInv /\ [Next]_vars => RowsInv'
  <2>1. ASSUME RowsInv, UNCHANGED vars  PROVE RowsInv'
    <3>1. UNCHANGED <<board, net, rest, times, count>>
      BY <2>1 DEF vars
    <3>2. SeatsStay' /\ PostsOnly' /\ StartIsClean'
      BY <2>1, <3>1 DEF RowsInv, SeatsStay, PostsOnly, StartIsClean, StartLanded
    <3>3. RunsPast'
      BY <2>1, <3>1 DEF RowsInv, RunsPast, RefusedRow
    <3>4. HoldsFit'
      BY <2>1, <3>1 DEF RowsInv, HoldsFit, Owed, Fits, HeldRow, RefusedRow
    <3>5. TimesAreHeld'
      BY <2>1, <3>1 DEF RowsInv, TimesAreHeld, Closing, ResetTo, HeldRow
    <3>6. Sole'
      BY <2>1, <3>1 DEF RowsInv, Sole, Owed, RefusedRow
    <3> QED  BY <3>2, <3>3, <3>4, <3>5, <3>6 DEF RowsInv
  <2> QED  BY <2>1, RowStep
<1>3. Spec => [](TypeOK /\ ClockInv)
  BY RaceTypeCorrect, ClocksHold, PTL
<1> QED  BY <1>1, <1>2, <1>3, PTL DEF Spec

\* A stop that is resumed, voided or awarded away leaves no Time behind: OneTimePerRun
\* of useRaceRecorder.tsx's save generations and of its deletions, for every number of
\* panels, judges and presses, where sides, DNFs and corrections are not pressed and the
\* server answers before the next start.
THEOREM RoomOneTimePerRun ==
    ASSUME PlainSeries
    PROVE  Spec => []OneTimePerRun
<1>1. RowsInv => OneTimePerRun
  BY DEF RowsInv, Sole, Same, OneTimePerRun
<1> QED  BY <1>1, RowsHold, PTL

\* ... and the Time a run keeps is what the clocks show of it.
THEOREM RoomTimesAreTheClocks ==
    ASSUME PlainSeries
    PROVE  Spec => []TimesAreTheClocks
<1>1. ASSUME TypeOK, ClockInv, RowsInv  PROVE TimesAreTheClocks
  <2>1. SUFFICES ASSUME Quiet, NEW p \in Panels, NEW x \in times, NEW l \in Lanes,
                        x.run = board[p].run, x.athlete = board[p].seats[l]
                 PROVE  x.ms = board[p].frozen[l]
    BY DEF TimesAreTheClocks
  <2>2. x \in Row /\ board[p].seats = FirstSeats /\ board[p] \in Board /\ count.runs \in Nat
    BY <1>1 DEF TypeOK, RowsInv, SeatsStay, Counts
  <2>3. board[p].run = count.runs /\ board[p].run # 0
    <3>1. x.run \in 1..count.runs
      BY <1>1 DEF RowsInv, RunsPast
    <3> QED  BY <1>1, <2>1, <2>2, <3>1 DEF ClockInv, RunInv, RunIsLast
  <2>4. ~Closing
    BY <2>1, <2>3 DEF Quiet, Closing, ResetTo
  <2>5. PICK q \in Panels, k \in Lanes : board[q].run = count.runs /\ HeldRow(q, k) = x
    BY <1>1, <2>1, <2>3, <2>4 DEF RowsInv, TimesAreHeld
  <2>6. Fits(board[q], k, x)
    BY <1>1, <2>2, <2>3, <2>5, RowsTakeTime DEF RowsInv, HoldsFit
  <2>7. k = l
    BY <2>1, <2>2, <2>6, FirstSeatsDiffer DEF Fits, Lanes
  <2>8. board[q].frozen[l] = board[p].frozen[l]
    <3>1. ~LaneTo(p, l) /\ ~LaneTo(q, l)
      BY <2>1 DEF Quiet, LaneTo
    <3> QED  BY <1>1, <2>3, <2>5, <3>1 DEF ClockInv, LaneInv, HeardAgree
  <2> QED  BY <2>6, <2>7, <2>8 DEF Fits
<1> QED  BY <1>1, RowsHold, PTL
-----------------------------------------------------------------------------
(* The tally.                                                              *)

\* No lane is resumed and no saved Time corrected by hand, and the server answers
\* before an operator does what needs the answer.
UncorrectedSeries == MaxResumes = 0 /\ MaxEdits = 0 /\ PromptServer = TRUE

\* The credits of a ledger, athlete by athlete; Credits are those of the room's.
CreditsOf(credits) == [a \in Athletes |-> Cardinality({r \in 1..MaxRuns : credits[r] = a})]

\* The credit of the last run started.
LastCredit == IF count.runs = 0 THEN 0 ELSE ledger[count.runs]

Ledgers == [1..MaxRuns -> AthleteOrNone]

Given(wins, athlete) == IF athlete = 0 THEN wins ELSE AddRunWin(wins, athlete)

\* What the runs of one athlete come to.
LEMMA RunsOf ==
    ASSUME NEW credits \in Ledgers, NEW a
    PROVE  /\ IsFiniteSet({r \in 1..MaxRuns : credits[r] = a})
           /\ Cardinality({r \in 1..MaxRuns : credits[r] = a}) \in Nat
<1>1. IsFiniteSet(1..MaxRuns)
  <2>1. 1 \in Int /\ MaxRuns \in Int
    BY RaceBoundsAssumption
  <2> QED  BY <2>1, FS_Interval
<1>2. IsFiniteSet({r \in 1..MaxRuns : credits[r] = a})
  BY <1>1, FS_Subset
<1> QED  BY <1>2, FS_CardinalityType

LEMMA CreditsType ==
    /\ \A credits \in Ledgers : CreditsOf(credits) \in Wins
    /\ Credits = CreditsOf(ledger)
BY RunsOf DEF CreditsOf, Wins, Credits

\* A run without a credit is given one ...
LEMMA CreditGiven ==
    ASSUME NEW credits \in Ledgers, NEW r \in 1..MaxRuns, credits[r] = 0, NEW a \in Athletes
    PROVE  CreditsOf([credits EXCEPT ![r] = a]) = AddRunWin(CreditsOf(credits), a)
<1> DEFINE after == [credits EXCEPT ![r] = a]
           Of(c, x) == {i \in 1..MaxRuns : c[i] = x}
<1>1. after \in Ledgers
  BY DEF Ledgers, AthleteOrNone
<1>2. Of(after, a) = Of(credits, a) \union {r} /\ r \notin Of(credits, a)
  BY Kinds DEF Ledgers
<1>3. Cardinality(Of(after, a)) = Cardinality(Of(credits, a)) + 1
  <2>1. IsFiniteSet(Of(credits, a))
    BY RunsOf
  <2> HIDE DEF Of
  <2> QED  BY <1>2, <2>1, FS_AddElement
<1>4. ASSUME NEW x \in Athletes, x # a  PROVE Of(after, x) = Of(credits, x)
  BY <1>4, Kinds DEF Ledgers
<1>5. \A x \in Athletes : CreditsOf(after)[x] = Cardinality(Of(after, x))
                          /\ CreditsOf(credits)[x] = Cardinality(Of(credits, x))
  BY DEF CreditsOf
<1> HIDE DEF Of, after
<1>6. \A x \in Athletes : CreditsOf(after)[x] = AddRunWin(CreditsOf(credits), a)[x]
  <2>1. CreditsOf(credits) \in Wins
    BY CreditsType
  <2>2. AddRunWin(CreditsOf(credits), a) = [CreditsOf(credits) EXCEPT ![a] = @ + 1]
    BY DEF AddRunWin
  <2> QED  BY <1>3, <1>4, <1>5, <2>1, <2>2 DEF Wins
<1>7. CreditsOf(after) \in Wins /\ AddRunWin(CreditsOf(credits), a) \in Wins
  BY <1>1, CreditsType, TallyTypes
<1>8. CreditsOf(after) = AddRunWin(CreditsOf(credits), a)
  BY <1>6, <1>7 DEF Wins
<1> QED  BY <1>8 DEF after

\* ... or loses it ...
LEMMA CreditTaken ==
    ASSUME NEW credits \in Ledgers, NEW r \in 1..MaxRuns, NEW a \in Athletes, credits[r] = a
    PROVE  /\ CreditsOf([credits EXCEPT ![r] = 0]) = RemoveRunWin(CreditsOf(credits), a)
           /\ AddRunWin(RemoveRunWin(CreditsOf(credits), a), a) = CreditsOf(credits)
<1> DEFINE before == [credits EXCEPT ![r] = 0]
<1>1. before \in Ledgers /\ before[r] = 0
  BY DEF Ledgers, AthleteOrNone
<1>2. [before EXCEPT ![r] = a] = credits
  BY DEF Ledgers
<1> HIDE DEF before
<1>3. CreditsOf(credits) = AddRunWin(CreditsOf(before), a)
  BY <1>1, <1>2, CreditGiven
<1>4. CreditsOf(before) \in Wins
  BY <1>1, CreditsType
<1>5. RemoveRunWin(CreditsOf(credits), a) = CreditsOf(before)
  <2> DEFINE w == CreditsOf(before)
  <2>1. AddRunWin(w, a) = [w EXCEPT ![a] = @ + 1] /\ w[a] \in Nat
    BY <1>4 DEF AddRunWin, Wins
  <2>2. RemoveRunWin(AddRunWin(w, a), a)
          = [AddRunWin(w, a) EXCEPT ![a] = IF @ > 0 THEN @ - 1 ELSE 0]
    BY Kinds DEF RemoveRunWin
  <2>3. w \in [Athletes -> Nat]
    BY <1>4 DEF Wins
  <2> HIDE DEF w
  <2>4. RemoveRunWin(AddRunWin(w, a), a) = w
    BY <2>1, <2>2, <2>3
  <2> QED  BY <1>3, <2>4 DEF w
<1> QED  BY <1>3, <1>5 DEF before

\* ... or has it moved.
LEMMA CreditMoved ==
    ASSUME NEW credits \in Ledgers, NEW r \in 1..MaxRuns, NEW a \in AthleteOrNone
    PROVE  CreditsOf([credits EXCEPT ![r] = a])
             = Given(RemoveRunWin(CreditsOf(credits), credits[r]), a)
<1> DEFINE open == [credits EXCEPT ![r] = 0]
<1>1. credits[r] \in AthleteOrNone
  BY DEF Ledgers
<1>2. open \in Ledgers /\ open[r] = 0 /\ [credits EXCEPT ![r] = a] = [open EXCEPT ![r] = a]
  BY DEF Ledgers, AthleteOrNone
<1>3. CreditsOf(open) = RemoveRunWin(CreditsOf(credits), credits[r])
  <2>1. CASE credits[r] = 0
    <3>1. open = credits
      BY <2>1 DEF Ledgers
    <3> QED  BY <2>1, <3>1 DEF RemoveRunWin
  <2>2. CASE credits[r] \in Athletes
    BY <2>2, CreditTaken
  <2> QED  BY <1>1, <2>1, <2>2 DEF AthleteOrNone
<1> HIDE DEF open
<1>4. CASE a = 0
  <2>1. [open EXCEPT ![r] = a] = open
    BY <1>2, <1>4 DEF Ledgers
  <2> QED  BY <1>2, <1>3, <1>4, <2>1 DEF Given
<1>5. CASE a \in Athletes
  <2>1. CreditsOf([open EXCEPT ![r] = a]) = AddRunWin(CreditsOf(open), a)
    BY <1>2, <1>5, CreditGiven
  <2> QED  BY <1>2, <1>3, <1>5, <2>1, Kinds DEF Given
<1> QED  BY <1>4, <1>5 DEF AthleteOrNone

\* Both athletes stand on a board whose seats differ.
LEMMA BothSeated ==
    ASSUME NEW seats \in Seats, seats[1] # seats[2]
    PROVE  Athletes = {seats[1], seats[2]}
<1> DEFINE two == {seats[1], seats[2]}
<1>1. two \in SUBSET Athletes
  BY DEF Seats, Lanes
<1>2. Cardinality(two) = 2
  <2>1. IsFiniteSet({seats[1]}) /\ Cardinality({seats[1]}) = 1
    BY FS_Singleton
  <2>2. two = {seats[1]} \union {seats[2]} /\ seats[2] \notin {seats[1]}
    OBVIOUS
  <2> HIDE DEF two
  <2>3. Cardinality({seats[1]} \union {seats[2]})
          = IF seats[2] \in {seats[1]} THEN Cardinality({seats[1]})
            ELSE Cardinality({seats[1]}) + 1
    BY <2>1, FS_AddElement
  <2> QED  BY <2>1, <2>2, <2>3
<1>3. IsFiniteSet(Athletes) /\ Cardinality(Athletes) = 2
  BY AthletesAssumption
<1> HIDE DEF two
<1>4. Athletes = two
  BY <1>1, <1>2, <1>3, FS_Subset
<1> QED  BY <1>4 DEF two

\* No more credits stand than runs were started.
LEMMA CreditsBounded ==
    ASSUME NEW credits \in Ledgers, NEW n \in Nat, n <= MaxRuns,
           \A r \in 1..MaxRuns : r > n => credits[r] = 0
    PROVE  Sum(CreditsOf(credits)) <= n
<1> DEFINE a == FirstSeats[1]
           b == FirstSeats[2]
           Of(x) == {r \in 1..MaxRuns : credits[r] = x}
<1>1. a \in Athletes /\ b \in Athletes /\ a # b
  BY FirstSeatsDiffer DEF Seats, Lanes
<1>2. MaxRuns \in Nat
  BY RaceBoundsAssumption
<1>3. Of(a) \union Of(b) \in SUBSET (1..n)
  BY <1>1, <1>2, Kinds
<1>4. Of(a) \intersect Of(b) = {}
  BY <1>1
<1>5. /\ IsFiniteSet(Of(a)) /\ IsFiniteSet(Of(b))
      /\ Cardinality(Of(a)) \in Nat /\ Cardinality(Of(b)) \in Nat
  BY RunsOf
<1>6. Sum(CreditsOf(credits)) = Cardinality(Of(a)) + Cardinality(Of(b))
  BY <1>1 DEF Sum, CreditsOf
<1> HIDE DEF Of, a, b
<1>7. Cardinality(Of(a) \union Of(b)) = Cardinality(Of(a)) + Cardinality(Of(b))
  <2>1. Cardinality(Of(a) \union Of(b))
          = Cardinality(Of(a)) + Cardinality(Of(b)) - Cardinality(Of(a) \intersect Of(b))
    BY <1>5, FS_Union
  <2> QED  BY <1>4, <1>5, <2>1, FS_EmptySet
<1>8. IsFiniteSet(1..n) /\ Cardinality(1..n) = n
  <2>1. 1 \in Int /\ n \in Int
    OBVIOUS
  <2>2. IsFiniteSet(1..n) /\ Cardinality(1..n) = IF 1 > n THEN 0 ELSE n - 1 + 1
    BY <2>1, FS_Interval
  <2> QED  BY <2>2
<1>9. Cardinality(Of(a) \union Of(b)) <= Cardinality(1..n)
  BY <1>3, <1>8, FS_Subset
<1> QED  BY <1>6, <1>7, <1>8, <1>9

-----------------------------------------------------------------------------
(* The handlers: what they make of results and tally.                      *)

\* The results are none, or those of nobody who finished.
Untimed(b) == \A l \in Lanes : b.result[l] \in {0, Dnf}

\* A result on the board is of a clock that stopped, and two are scored; a panel
\* that holds the credit of the run on its clocks has none left to score.
Sound(b) ==
    /\ b.run # 0 => \A l \in Lanes : b.result[l] # 0 => b.frozen[l] # 0
    /\ (\A l \in Lanes : b.result[l] # 0) => b.tallied
    /\ b.run = 0 => Untimed(b)
    /\ b.run # 0 /\ b.credited # 0 =>
         (\A l \in Lanes : b.frozen[l] # 0) /\ (b.tallied \/ Untimed(b))
    /\ b.seats[1] # b.seats[2]

SameTally(b, c) == c.wins = b.wins /\ c.credited = b.credited
SameResults(b, c) == c.result = b.result /\ c.tallied = b.tallied
SameSides(b, c) == c.seats = b.seats /\ c.fs = b.fs

\* Nothing a score is made from has moved.
SameRace(b, c) ==
    /\ SameClocks(b, c) /\ SameTally(b, c) /\ SameResults(b, c) /\ SameSides(b, c)
    /\ c.decided = b.decided

\* The winner of a tally is put on the Match and kept for its undo.
Clinches(b, d, wins) ==
    /\ d.put = IF SeriesWinner(wins) # 0 THEN SeriesWinner(wins) ELSE Keep
    /\ d.board.decided = IF SeriesWinner(wins) # 0 THEN SeriesWinner(wins) ELSE b.decided

\* A result was recorded against a tally, and the run scored or not.
Recorded(b, d, lane, result, wins) ==
    LET c == d.board
    IN  /\ c.run = b.run /\ SameSides(b, c)
        /\ c.result = [b.result EXCEPT ![lane] = result]
        /\ c.tallied = (b.tallied \/ \A l \in Lanes : c.result[l] # 0)
        /\ \/ SameTally(b, c) /\ Clinches(b, d, wins)
           \/ /\ ~b.tallied /\ (\A l \in Lanes : c.result[l] # 0) /\ ~Untimed(c)
              /\ c.credited \in Athletes /\ c.wins = AddRunWin(wins, c.credited)
              /\ Clinches(b, d, c.wins)

LEMMA SoundSame ==
    ASSUME NEW b, NEW c, SameRace(b, c), Sound(b)
    PROVE  Sound(c)
BY DEF SameRace, SameClocks, SameTally, SameResults, SameSides, Sound, Untimed

LEMMA RecordedSame ==
    ASSUME NEW b, NEW c, NEW d, NEW lane, NEW result, NEW wins,
           Recorded(c, d, lane, result, wins), c.run = b.run, SameTally(b, c), SameResults(b, c),
           SameSides(b, c), c.decided = b.decided
    PROVE  Recorded(b, d, lane, result, wins)
BY DEF Recorded, SameTally, SameResults, SameSides, Clinches

LEMMA RecordedOnto ==
    ASSUME NEW b, NEW d, NEW e, NEW lane, NEW result, NEW wins,
           Recorded(b, d, lane, result, wins), SameRace(d.board, e.board), e.put = d.put
    PROVE  Recorded(b, e, lane, result, wins)
<1>1. /\ e.board.run = d.board.run /\ e.board.result = d.board.result
      /\ e.board.tallied = d.board.tallied /\ e.board.decided = d.board.decided
      /\ e.board.wins = d.board.wins /\ e.board.credited = d.board.credited
      /\ e.board.seats = d.board.seats /\ e.board.fs = d.board.fs
  BY DEF SameRace, SameClocks, SameTally, SameResults, SameSides
<1>2. \A w : Clinches(b, d, w) => Clinches(b, e, w)
  BY <1>1 DEF Clinches
<1>3. Untimed(e.board) => Untimed(d.board)
  BY <1>1 DEF Untimed
<1>4. CASE SameTally(b, d.board) /\ Clinches(b, d, wins)
  BY <1>1, <1>2, <1>4 DEF Recorded, SameSides, SameTally
<1>5. CASE /\ ~b.tallied /\ (\A l \in Lanes : d.board.result[l] # 0) /\ ~Untimed(d.board)
           /\ d.board.credited \in Athletes /\ d.board.wins = AddRunWin(wins, d.board.credited)
           /\ Clinches(b, d, d.board.wins)
  <2>1. Clinches(b, e, e.board.wins)
    BY <1>1, <1>2, <1>5
  <2> QED  BY <1>1, <1>3, <1>5, <2>1 DEF Recorded, SameSides
<1> QED  BY <1>4, <1>5 DEF Recorded

\* The lane that won a run has a time on it.
LEMMA WinsWithTime ==
    ASSUME NEW result \in [Lanes -> Result \union {0}], RunWinningLane(result) # 0
    PROVE  /\ \A l \in Lanes : result[l] # 0
           /\ RunWinningLane(result) \in Lanes
           /\ \E l \in Lanes : result[l] \notin {0, Dnf}
BY DEF RunWinningLane, Lanes

LEMMA RecordLaneResultTally ==
    ASSUME NEW b \in Board, NEW lane \in Lanes, NEW result \in Result, NEW closure \in Closures
    PROVE  Recorded(b, RecordLaneResult(b, lane, result, closure), lane, result, closure.wins)
<1> DEFINE results  == [b.result EXCEPT ![lane] = result]
           resolves == ~b.tallied /\ \A l \in Lanes : results[l] # 0
           won      == RunWinningLane(results)
           scores   == resolves /\ won # 0
           credited == closure.seats[won]
           wins     == IF scores THEN AddRunWin(closure.wins, credited) ELSE closure.wins
           winner_  == SeriesWinner(wins)
           left == [b EXCEPT !.result = results,
                        !.tallied = @ \/ resolves,
                        !.closed = IF resolves THEN Both(TRUE) ELSE @,
                        !.runLane = IF resolves THEN won ELSE @,
                        !.wins = IF scores THEN wins ELSE @,
                        !.credited = IF scores THEN credited ELSE @,
                        !.decided = IF winner_ # 0 THEN winner_ ELSE @]
           d == [Done(left) EXCEPT !.put = IF winner_ # 0 THEN winner_ ELSE Keep]
<1>1. RecordLaneResult(b, lane, result, closure) = d
  BY DEF RecordLaneResult
<1>2. results \in [Lanes -> Result \union {0}]
  BY DEF Board
<1>3. /\ resolves = (~b.tallied /\ \A l \in Lanes : results[l] # 0)
      /\ wins = IF scores THEN AddRunWin(closure.wins, credited) ELSE closure.wins
      /\ winner_ = SeriesWinner(wins) /\ scores = (resolves /\ won # 0)
  OBVIOUS
<1>4. scores => (\E l \in Lanes : results[l] \notin {0, Dnf}) /\ credited \in Athletes
  <2>1. won # 0 => won \in Lanes /\ \E l \in Lanes : results[l] \notin {0, Dnf}
    BY <1>2, WinsWithTime
  <2>2. closure.seats \in Seats
    BY DEF Closures
  <2> HIDE DEF won
  <2> QED  BY <2>1, <2>2 DEF Seats
<1>5. b.tallied \in BOOLEAN
  BY DEF Board
<1> HIDE DEF results, resolves, won, scores, credited, wins, winner_
<1>6. /\ d.board = left /\ d.put = IF winner_ # 0 THEN winner_ ELSE Keep
  BY DEF Done
<1>7. /\ left.run = b.run /\ left.seats = b.seats /\ left.fs = b.fs /\ left.result = results
      /\ left.tallied = (b.tallied \/ resolves)
      /\ left.wins = (IF scores THEN wins ELSE b.wins)
      /\ left.credited = (IF scores THEN credited ELSE b.credited)
      /\ left.decided = (IF winner_ # 0 THEN winner_ ELSE b.decided)
  BY DEF Board
<1>8. left.result = [b.result EXCEPT ![lane] = result]
  BY <1>7 DEF results
<1> HIDE DEF left, d
<1>9. left.tallied = (b.tallied \/ \A l \in Lanes : left.result[l] # 0)
  BY <1>3, <1>5, <1>7
<1>10. SameSides(b, left) /\ left.run = b.run
  BY <1>7 DEF SameSides
<1>11. ASSUME scores  PROVE Recorded(b, d, lane, result, closure.wins)
  <2>1. /\ ~b.tallied /\ (\A l \in Lanes : left.result[l] # 0) /\ ~Untimed(left)
        /\ left.credited \in Athletes /\ left.wins = AddRunWin(closure.wins, left.credited)
    BY <1>3, <1>4, <1>7, <1>11 DEF Untimed
  <2>2. Clinches(b, d, left.wins)
    BY <1>3, <1>6, <1>7, <1>11 DEF Clinches
  <2> QED  BY <1>6, <1>8, <1>9, <1>10, <2>1, <2>2 DEF Recorded
<1>12. ASSUME ~scores  PROVE Recorded(b, d, lane, result, closure.wins)
  <2>1. SameTally(b, left)
    BY <1>7, <1>12 DEF SameTally
  <2>2. Clinches(b, d, closure.wins)
    BY <1>3, <1>6, <1>7, <1>12 DEF Clinches
  <2> QED  BY <1>6, <1>8, <1>9, <1>10, <2>1, <2>2 DEF Recorded
<1> QED  BY <1>1, <1>11, <1>12

LEMMA SaveTally ==
    ASSUME NEW b \in Board, NEW lane \in Lanes, NEW row \in Row
    PROVE  Recorded(b, Save(b, lane, row), lane, row.ms, b.wins)
<1> DEFINE left == [b EXCEPT !.chip[lane] = Pending, !.closed[lane] = TRUE]
           recorded == RecordLaneResult(left, lane, row.ms, Closure(b))
<1>1. left \in Board /\ SameRace(b, left)
  BY PendingType DEF Board, SameRace, SameClocks, SameTally, SameResults, SameSides
<1>2. Save(b, lane, row) = [recorded EXCEPT !.posts = OnePost(b, lane, row)]
  BY DEF Save, SaveTime, Done, OnePost, Pending
<1> HIDE DEF left
<1>3. row.ms \in Result /\ Closure(b) \in Closures /\ Closure(b).wins = b.wins
  BY ClosureType DEF Row, Closure
<1>4. recorded \in Outcome /\ Recorded(left, recorded, lane, row.ms, b.wins)
  BY <1>1, <1>3, RecordLaneResultTally, RecordLaneResultKeeps
<1> HIDE DEF recorded
<1>5. Recorded(b, recorded, lane, row.ms, b.wins)
  BY <1>1, <1>4, RecordedSame DEF SameRace, SameClocks
<1>6. Save(b, lane, row).board = recorded.board /\ Save(b, lane, row).put = recorded.put
  BY <1>2, <1>4 DEF Outcome
<1> QED  BY <1>5, <1>6 DEF Recorded, Clinches

\* A stop records the time of a lane that had none, or nothing.
LEMMA RecordFinishTally ==
    ASSUME NEW b \in Board, NEW lane \in Lanes, NEW row \in Row
    PROVE  LET d == RecordFinish(b, lane, row)
           IN  \/ SameRace(b, d.board) /\ d.put = Keep
               \/ b.result[lane] = 0 /\ Recorded(b, d, lane, row.ms, b.wins)
<1> DEFINE closed_ == [b EXCEPT !.closed[lane] = TRUE]
<1>1. closed_ \in Board /\ SameRace(b, closed_) /\ SameRace(b, b)
  BY DEF Board, SameRace, SameClocks, SameTally, SameResults, SameSides
<1>2. CASE RecordFinish(b, lane, row) = Done(b)
  BY <1>1, <1>2, DoneType
<1>3. CASE RecordFinish(b, lane, row) = Done(closed_)
  BY <1>1, <1>3, DoneType
<1>4. CASE RecordFinish(b, lane, row) = Save(b, lane, row) /\ b.result[lane] = 0
  BY <1>4, SaveTally
<1> QED  BY <1>2, <1>3, <1>4 DEF RecordFinish

\* An edit moves no score.
LEMMA EditLaneTimeTally ==
    ASSUME NEW b \in Board, NEW lane \in Lanes, NEW ms \in Result, b.chip[lane].saved # NoRow
    PROVE  LET d == EditLaneTime(b, lane, ms)
           IN  /\ SameRace(b, d.board)
               /\ \A x \in d.edits : x.lane = lane /\ x.row.ms = ms /\ x.closure = Closure(b)
<1> DEFINE saved == b.chip[lane].saved
           chip_ == [SavedChip(saved) EXCEPT !.status = "pending"]
           left == [b EXCEPT !.chip[lane] = chip_]
           edits == {[lane |-> lane, from |-> saved, row |-> [saved EXCEPT !.ms = ms],
                      closure |-> Closure(b)]}
<1>1. SameRace(b, left)
  BY DEF Board, SameRace, SameClocks, SameTally, SameResults, SameSides
<1>2. b.chip[lane] \in Chip
  BY DEF Board
<1>3. saved \in Row
  BY <1>2 DEF Chip, RowOrNone
<1>4. [saved EXCEPT !.ms = ms].ms = ms
  BY <1>3 DEF Row
<1>5. \A x \in edits : x.lane = lane /\ x.row.ms = ms /\ x.closure = Closure(b)
  <2> DEFINE row == [saved EXCEPT !.ms = ms]
  <2>1. row.ms = ms
    BY <1>4
  <2>2. edits = {[lane |-> lane, from |-> saved, row |-> row, closure |-> Closure(b)]}
    OBVIOUS
  <2> HIDE DEF row, edits
  <2> QED  BY <2>1, <2>2
<1>6. EditLaneTime(b, lane, ms) = [Done(left) EXCEPT !.edits = edits]
  BY DEF EditLaneTime
<1> HIDE DEF left, edits
<1> QED  BY <1>1, <1>5, <1>6 DEF Done

\* A DNF is recorded, and edits the row of a lane that saved one.
LEMMA RecordDnfTally ==
    ASSUME NEW b \in Board, NEW lane \in Lanes, NEW row \in Row, row.ms = Dnf
    PROVE  LET d == RecordDnf(b, lane, row)
           IN  /\ \/ SameRace(b, d.board) /\ d.put = Keep
                  \/ Recorded(b, d, lane, Dnf, b.wins)
               /\ \A x \in d.edits :
                    /\ x.lane = lane /\ x.row.ms = Dnf /\ x.closure.wins = d.board.wins
                    /\ d.board.result[lane] = Dnf
<1> DEFINE marked == RecordLaneResult(b, lane, Dnf, Closure(b))
           edited == EditLaneTime(marked.board, lane, Dnf)
<1>1. CASE RecordDnf(b, lane, row) = Done(b)
  <2>1. SameRace(b, b)
    BY DEF SameRace, SameClocks, SameTally, SameResults, SameSides
  <2> QED  BY <1>1, <2>1, DoneType
<1>2. CASE RecordDnf(b, lane, row) = Save(b, lane, row)
  <2>1. Recorded(b, Save(b, lane, row), lane, Dnf, b.wins) /\ Save(b, lane, row).edits = {}
    BY ZenonT(40), SaveTally, SaveKeeps
  <2> QED  BY <1>2, <2>1
<1>3. CASE b.chip[lane].saved # NoRow /\ RecordDnf(b, lane, row) = [edited EXCEPT !.put = marked.put]
  <2>1. Dnf \in Result /\ Closure(b) \in Closures /\ Closure(b).wins = b.wins
    BY ClosureType DEF Result, Closure
  <2>2. marked \in Outcome /\ SameSaves(b, marked.board) /\ Recorded(b, marked, lane, Dnf, b.wins)
    BY <2>1, RecordLaneResultKeeps, RecordLaneResultTally
  <2> HIDE DEF marked
  <2>3. marked.board \in Board /\ marked.board.chip[lane].saved # NoRow
    BY <1>3, <2>2 DEF Outcome, SameSaves
  <2>4. /\ edited \in Outcome /\ SameRace(marked.board, edited.board)
        /\ \A x \in edited.edits : x.lane = lane /\ x.row.ms = Dnf /\ x.closure = Closure(marked.board)
    BY <2>1, <2>3, EditLaneTimeKeeps, EditLaneTimeTally
  <2> HIDE DEF edited
  <2> DEFINE d == [edited EXCEPT !.put = marked.put]
  <2>5. d.board = edited.board /\ d.put = marked.put /\ d.edits = edited.edits
    BY <2>4 DEF Outcome
  <2> HIDE DEF d
  <2>6. Recorded(b, d, lane, Dnf, b.wins)
    BY <2>2, <2>4, <2>5, RecordedOnto
  <2>7. d.board.result[lane] = Dnf
    BY <2>6 DEF Recorded, Board
  <2>8. \A x \in d.edits : x.closure.wins = d.board.wins
    BY <2>4, <2>5 DEF SameRace, SameTally, Closure
  <2> QED  BY <1>3, <2>4, <2>5, <2>6, <2>7, <2>8 DEF d
<1> QED  BY <1>1, <1>2, <1>3 DEF RecordDnf

\* A stop another panel made is noted.
LEMMA NotePeerFinishTally ==
    ASSUME NEW b \in Board, NEW lane \in Lanes, NEW ms \in Elapsed
    PROVE  LET c == NotePeerFinish(b, lane, ms)
           IN  /\ SameClocks(b, c) /\ SameTally(b, c) /\ SameSides(b, c) /\ c.decided = b.decided
               /\ c.result = [b.result EXCEPT ![lane] = ms]
               /\ c.tallied = (b.tallied \/ \A l \in Lanes : c.result[l] # 0)
<1> DEFINE results == [b.result EXCEPT ![lane] = ms]
           done == \A l \in Lanes : results[l] # 0
           closed_ == [l \in Lanes |-> done \/ l = lane \/ b.closed[l]]
           peer == [b.peer EXCEPT ![lane] = @ \/ ShouldRecordTime(b, lane)]
           tallied == b.tallied \/ done
<1>1. NotePeerFinish(b, lane, ms)
        = [b EXCEPT !.result = results, !.tallied = tallied, !.peer = peer, !.closed = closed_]
  BY DEF NotePeerFinish, Board
<1>2. tallied = (b.tallied \/ \A l \in Lanes : results[l] # 0)
  OBVIOUS
<1> HIDE DEF closed_, peer, tallied, results
<1>3. LET c == NotePeerFinish(b, lane, ms)
      IN  /\ SameClocks(b, c) /\ SameTally(b, c) /\ SameSides(b, c) /\ c.decided = b.decided
          /\ c.result = results /\ c.tallied = tallied
  BY <1>1 DEF Board, SameClocks, SameTally, SameSides
<1> QED  BY <1>2, <1>3 DEF results

\* The credit of the run on the clocks is taken back, with the results.
Cleared(b, d) ==
    LET c == d.board
    IN  /\ SameClocks(b, c) /\ c.seats = b.seats
        /\ c.result = Both(0) /\ c.tallied = FALSE
        /\ d.posts = {} /\ d.edits = {}

LEMMA VoidRunTally ==
    ASSUME NEW b \in Board
    PROVE  LET d == VoidRun(b)
           IN  /\ Cleared(b, d) /\ d.board.fs = b.fs
               /\ d.board.credited = 0 /\ d.board.wins = RemoveRunWin(b.wins, b.credited)
               /\ d.board.decided = 0
               /\ d.put = IF b.decided # 0 /\ SeriesWinner(d.board.wins) = 0 THEN 0 ELSE Keep
<1> DEFINE wins == RemoveRunWin(b.wins, b.credited)
           left == [b EXCEPT !.wins = wins, !.credited = 0, !.runLane = 0]
           c == [left EXCEPT !.result = Both(0), !.tallied = FALSE, !.chip = Both(NoChip),
                             !.peer = Both(FALSE), !.decided = 0, !.closed = Both(FALSE)]
           drops == SavedRows(b, Lanes)
           put == Reopened(left)
<1>1. left.decided = b.decided /\ left.wins = wins
  BY DEF Board
<1>2. put = IF b.decided # 0 /\ SeriesWinner(wins) = 0 THEN 0 ELSE Keep
  BY <1>1 DEF Reopened
<1>3. /\ SameClocks(b, c) /\ c.seats = b.seats /\ c.fs = b.fs /\ c.result = Both(0)
      /\ c.tallied = FALSE /\ c.credited = 0 /\ c.wins = wins /\ c.decided = 0
  BY DEF Board, SameClocks
<1>4. VoidRun(b) = [Done(c) EXCEPT !.drops = drops, !.put = put]
  BY DEF VoidRun, Uncredited
<1> HIDE DEF c, put, drops, left
<1>5. VoidRun(b).board = c /\ VoidRun(b).posts = {} /\ VoidRun(b).edits = {} /\ VoidRun(b).put = put
  BY <1>4 DEF Done
<1> QED  BY <1>2, <1>3, <1>5 DEF Cleared

LEMMA AwardRunToTally ==
    ASSUME NEW b \in Board, NEW lane \in Lanes
    PROVE  LET d == AwardRunTo(b, lane)
           IN  /\ Cleared(b, d) /\ d.board.credited \in Athletes
               /\ d.board.wins = AddRunWin(RemoveRunWin(b.wins, b.credited), d.board.credited)
               /\ d.board.decided = SeriesWinner(d.board.wins)
               /\ d.put = IF SeriesWinner(d.board.wins) = 0 THEN Keep ELSE SeriesWinner(d.board.wins)
<1> DEFINE to == b.seats[lane]
           wins == AddRunWin(RemoveRunWin(b.wins, b.credited), to)
           winner_ == SeriesWinner(wins)
           c == [b EXCEPT !.wins = wins, !.credited = to, !.runLane = lane, !.fs = Both(0),
                          !.closed = Both(TRUE), !.result = Both(0), !.tallied = FALSE,
                          !.chip = Both(NoChip), !.peer = Both(FALSE), !.decided = winner_]
           drops == SavedRows(b, Lanes)
           put == IF winner_ = 0 THEN Keep ELSE winner_
<1>1. to \in Athletes
  BY DEF Board, Seats
<1>2. Uncredited(b).wins = RemoveRunWin(b.wins, b.credited)
  BY DEF Uncredited, Board
<1>3. AwardRunTo(b, lane) = [Done(c) EXCEPT !.drops = drops, !.put = put]
  BY <1>2 DEF AwardRunTo
<1> HIDE DEF to, wins, winner_
<1>4. /\ SameClocks(b, c) /\ c.seats = b.seats /\ c.result = Both(0)
      /\ c.tallied = FALSE /\ c.credited = to /\ c.wins = wins /\ c.decided = winner_
  BY DEF Board, SameClocks
<1>5. put = IF winner_ = 0 THEN Keep ELSE winner_
  OBVIOUS
<1> HIDE DEF c, put, drops
<1>6. /\ AwardRunTo(b, lane).board = c /\ AwardRunTo(b, lane).posts = {}
      /\ AwardRunTo(b, lane).edits = {} /\ AwardRunTo(b, lane).put = put
  BY <1>3 DEF Done
<1> QED  BY <1>1, <1>4, <1>5, <1>6 DEF Cleared, wins, winner_

LEMMA SwapLanesTally ==
    ASSUME NEW b \in Board
    PROVE  LET c == SwapLanes(b)
           IN  /\ SameClocks(b, c) /\ SameTally(b, c) /\ c.decided = b.decided
               /\ c.tallied = b.tallied
               /\ \A l \in Lanes : c.result[l] = b.result[Other(l)] /\ c.seats[l] = b.seats[Other(l)]
<1> DEFINE X(f) == [l \in Lanes |-> f[Other(l)]]
<1>1. SwapLanes(b) = [b EXCEPT !.seats = X(b.seats), !.result = X(b.result), !.chip = X(b.chip),
                               !.peer = X(b.peer), !.fs = X(b.fs), !.closed = X(b.closed)]
  BY DEF SwapLanes, Board
<1>2. /\ \A l \in Lanes : X(b.result)[l] = b.result[Other(l)]
      /\ \A l \in Lanes : X(b.seats)[l] = b.seats[Other(l)]
  OBVIOUS
<1> HIDE DEF X
<1> QED  BY <1>1, <1>2 DEF Board, SameClocks, SameTally

LEMMA StartTally ==
    ASSUME NEW b \in Board, NEW run \in Nat
    PROVE  LET c == OnRaceStart(b, run)
           IN  /\ c.run = run /\ c.seats = b.seats /\ c.wins = b.wins /\ c.credited = 0
               /\ c.result = Both(0) /\ c.tallied = FALSE
BY DEF OnRaceStart, Board

LEMMA ResetTally ==
    ASSUME NEW b \in Board
    PROVE  LET c == OnReset(b)
           IN  /\ c.run = 0 /\ SameSides(b, c) /\ SameTally(b, c)
               /\ c.result = Both(0) /\ c.tallied = FALSE
BY DEF OnReset, Board, SameSides, SameTally

LEMMA FlagsTally ==
    ASSUME NEW b \in Board, NEW lane \in Lanes
    PROVE  LET c == FlagFs(b, lane) d == ClearFs(b, lane)
           IN  /\ SameClocks(b, c) /\ SameTally(b, c) /\ SameResults(b, c) /\ c.seats = b.seats
               /\ c.decided = b.decided
               /\ SameClocks(b, d) /\ SameTally(b, d) /\ SameResults(b, d) /\ d.seats = b.seats
               /\ d.decided = b.decided
BY DEF FlagFs, ClearFs, Board, SameClocks, SameTally, SameResults

\* The replies, but for that of a correction, and a retry touch nothing a score is made of.
LEMMA RepliesTally ==
    ASSUME NEW b \in Board, NEW lane \in Lanes, NEW row \in Row
    PROVE  /\ \A gen \in Nat : SameRace(b, Saved(b, lane, gen, row).board)
           /\ \A gen \in Nat : SameRace(b, Refused(b, lane, gen, row).board)
           /\ SameRace(b, NotCorrected(b, lane, row).board)
           /\ \A post \in Nat : SameRace(b, RetrySave(b, lane, post).board)
<1>1. \A chip, gen, closed : SameRace(b, [b EXCEPT !.chip = chip])
                             /\ SameRace(b, [b EXCEPT !.gen = gen, !.chip = chip, !.closed = closed])
  BY DEF Board, SameRace, SameClocks, SameTally, SameResults, SameSides
<1>2. SameRace(b, b)
  BY DEF SameRace, SameClocks, SameTally, SameResults, SameSides
<1>3. \A chip : [b EXCEPT !.chip[lane] = chip] = [b EXCEPT !.chip = [b.chip EXCEPT ![lane] = chip]]
  BY DEF Board
<1>4. ASSUME NEW gen \in Nat  PROVE SameRace(b, Saved(b, lane, gen, row).board)
  BY <1>1, <1>2, <1>3 DEF Saved, Done
<1>5. ASSUME NEW gen \in Nat  PROVE SameRace(b, Refused(b, lane, gen, row).board)
  BY <1>1, <1>2, <1>3 DEF Refused, Done
<1>6. SameRace(b, NotCorrected(b, lane, row).board)
  BY <1>1, <1>3 DEF NotCorrected, Done
<1>7. ASSUME NEW post \in Nat  PROVE SameRace(b, RetrySave(b, lane, post).board)
  <2> DEFINE next == [b EXCEPT !.gen[lane] = @ + 1]
             left == [next EXCEPT !.chip[lane] = Pending, !.closed[lane] = TRUE]
  <2>1. SameRace(b, left)
    BY DEF Board, SameRace, SameClocks, SameTally, SameResults, SameSides
  <2>2. RetrySave(b, lane, post).board = left
    BY DEF RetrySave, SaveTime, Done, Pending
  <2> QED  BY <2>1, <2>2
<1> QED  BY <1>4, <1>5, <1>6, <1>7

\* A correction is answered: its result is recorded.
LEMMA CorrectedTally ==
    ASSUME NEW b \in Board, NEW lane \in Lanes, NEW row \in Row, NEW closure \in Closures
    PROVE  Recorded(b, Corrected(b, lane, row, closure), lane, row.ms, closure.wins)
<1> DEFINE left == [b EXCEPT !.chip[lane] = SavedChip(row)]
<1>1. left \in Board /\ SameRace(b, left)
  BY SavedChipType DEF Board, SameRace, SameClocks, SameTally, SameResults, SameSides
<1>2. row.ms \in Result
  BY DEF Row
<1> HIDE DEF left
<1>3. Recorded(left, RecordLaneResult(left, lane, row.ms, closure), lane, row.ms, closure.wins)
  BY <1>1, <1>2, RecordLaneResultTally
<1>4. Recorded(b, RecordLaneResult(left, lane, row.ms, closure), lane, row.ms, closure.wins)
  BY <1>1, <1>3, RecordedSame DEF SameRace, SameClocks
<1> QED  BY <1>4 DEF Corrected, left

\* A view says a tally by lane; the panel that takes it over has that tally.
LEMMA ApplySelectionTally ==
    ASSUME NEW b \in Board, NEW view \in Views, NEW wins \in Wins,
           view.seats[1] # view.seats[2], view.wins = LaneRunWins(wins, view.seats)
    PROVE  LET c == ApplySelection(b, view)
           IN  /\ SameClocks(b, c) /\ SameResults(b, c) /\ c.credited = b.credited
               /\ c.decided = b.decided
               /\ c.seats = view.seats /\ c.wins = wins /\ View(c) = view
<1> DEFINE taken == IF LaneRunWins(b.wins, view.seats) = view.wins THEN b.wins
                    ELSE [a \in Athletes |-> IF view.seats[1] = a THEN view.wins[1] ELSE view.wins[2]]
<1>1. view.seats \in Seats /\ view.wins \in [Lanes -> Nat] /\ view.fs \in [Lanes -> {0, 1, 2}]
  BY DEF Views
<1>2. Athletes = {view.seats[1], view.seats[2]}
  BY <1>1, BothSeated
<1>3. b.wins \in Wins
  BY DEF Board
<1>4. \A w \in Wins : \A l \in Lanes : LaneRunWins(w, view.seats)[l] = w[view.seats[l]]
  BY DEF LaneRunWins
<1>5. taken \in Wins
  BY <1>1, <1>3 DEF Wins, Lanes
<1>6. taken[view.seats[1]] = wins[view.seats[1]] /\ taken[view.seats[2]] = wins[view.seats[2]]
  <2>1. CASE LaneRunWins(b.wins, view.seats) = view.wins
    BY <1>3, <1>4, <2>1 DEF Lanes
  <2>2. CASE LaneRunWins(b.wins, view.seats) # view.wins
    BY <1>1, <1>2, <1>4, <2>2 DEF Lanes
  <2> QED  BY <2>1, <2>2
<1> HIDE DEF taken
<1>7. taken = wins
  <2>1. \A a \in Athletes : taken[a] = wins[a]
    BY <1>2, <1>6
  <2> QED  BY <1>5, <2>1 DEF Wins
<1> DEFINE c == [b EXCEPT !.seats = view.seats, !.wins = taken, !.fs = view.fs]
<1>8. ApplySelection(b, view) = c
  BY DEF ApplySelection, taken
<1>9. /\ SameClocks(b, c) /\ SameResults(b, c) /\ c.credited = b.credited /\ c.decided = b.decided
      /\ c.seats = view.seats /\ c.wins = taken /\ c.fs = view.fs
  BY DEF Board, SameClocks, SameResults
<1> HIDE DEF c
<1>10. View(c) = view
  <2>1. View(c) = [seats |-> view.seats, wins |-> view.wins, fs |-> view.fs]
    BY <1>7, <1>9 DEF View
  <2> QED  BY <2>1 DEF Views
<1> QED  BY <1>7, <1>8, <1>9, <1>10

\* Boards that show the same view have the same tally.
LEMMA ViewIsTally ==
    ASSUME NEW b \in Board, NEW c \in Board, View(b) = View(c), b.seats[1] # b.seats[2]
    PROVE  SameSides(b, c) /\ c.wins = b.wins
<1>1. b.seats = c.seats /\ LaneRunWins(b.wins, b.seats) = LaneRunWins(c.wins, c.seats) /\ b.fs = c.fs
  BY DEF View
<1>2. b.seats \in Seats /\ b.wins \in Wins /\ c.wins \in Wins
  BY DEF Board
<1>3. Athletes = {b.seats[1], b.seats[2]}
  BY <1>2, BothSeated
<1>4. \A l \in Lanes : b.wins[b.seats[l]] = c.wins[b.seats[l]]
  <2>1. \A l \in Lanes : /\ LaneRunWins(b.wins, b.seats)[l] = b.wins[b.seats[l]]
                         /\ LaneRunWins(c.wins, c.seats)[l] = c.wins[c.seats[l]]
    BY DEF LaneRunWins
  <2> QED  BY <1>1, <2>1
<1>5. \A a \in Athletes : b.wins[a] = c.wins[a]
  BY <1>3, <1>4 DEF Lanes
<1>6. b.wins = c.wins
  BY <1>2, <1>5 DEF Wins
<1> QED  BY <1>1, <1>6 DEF SameSides

-----------------------------------------------------------------------------
(* The handlers: what keeps a board sound.                                 *)

LEMMA SoundStill ==
    ASSUME NEW b, NEW c, Sound(b), SameClocks(b, c), SameResults(b, c), c.credited = b.credited,
           c.seats[1] # c.seats[2]
    PROVE  Sound(c)
BY DEF SameClocks, SameResults, Sound, Untimed

\* A result is recorded on a lane that has stopped; the run is scored only by a panel
\* that had not scored it.
LEMMA SoundRecorded ==
    ASSUME NEW b \in Board, NEW d \in Outcome, NEW lane \in Lanes, NEW result \in Result, NEW wins,
           Sound(b), Recorded(b, d, lane, result, wins),
           \A l \in Lanes : b.frozen[l] # 0 => d.board.frozen[l] # 0,
           b.run # 0 => d.board.frozen[lane] # 0,
           result = Dnf \/ (b.run # 0 /\ b.credited = 0)
    PROVE  /\ Sound(d.board)
           /\ \/ SameTally(b, d.board) /\ Clinches(b, d, wins)
              \/ /\ b.run # 0 /\ b.credited = 0 /\ d.board.credited \in Athletes
                 /\ d.board.wins = AddRunWin(wins, d.board.credited)
                 /\ Clinches(b, d, d.board.wins)
<1> DEFINE c == d.board
<1>1. /\ c.run = b.run /\ c.seats = b.seats /\ c.result = [b.result EXCEPT ![lane] = result]
      /\ c.tallied = (b.tallied \/ \A l \in Lanes : c.result[l] # 0)
  BY DEF Recorded, SameSides
<1>2. b.tallied \in BOOLEAN /\ b.result \in [Lanes -> Result \union {0}]
  BY DEF Board
<1>3. c.result[lane] = result /\ \A l \in Lanes : l # lane => c.result[l] = b.result[l]
  BY <1>1, <1>2
<1>4. result # 0
  BY Kinds DEF Result, Dnf
<1>5. Untimed(b) /\ result = Dnf => Untimed(c)
  BY <1>3 DEF Untimed
<1>6. b.run = 0 \/ b.credited # 0 => Untimed(c) \/ b.tallied
  BY <1>5 DEF Sound
<1>7. c.seats[1] # c.seats[2] /\ ((\A l \in Lanes : c.result[l] # 0) => c.tallied)
  BY <1>1, <1>2 DEF Sound
<1>8. c.run # 0 => \A l \in Lanes : c.result[l] # 0 => c.frozen[l] # 0
  BY <1>1, <1>3 DEF Sound
<1>9. c.run = 0 => Untimed(c)
  BY <1>1, <1>5 DEF Sound
<1>10. CASE SameTally(b, c) /\ Clinches(b, d, wins)
  <2>1. c.run # 0 /\ c.credited # 0 => \A l \in Lanes : c.frozen[l] # 0
    BY <1>1, <1>10 DEF Sound, SameTally
  <2>2. c.run # 0 /\ c.credited # 0 => c.tallied \/ Untimed(c)
    BY <1>1, <1>2, <1>6, <1>10 DEF SameTally
  <2> QED  BY <1>7, <1>8, <1>9, <1>10, <2>1, <2>2 DEF Sound
<1>11. CASE /\ ~b.tallied /\ (\A l \in Lanes : c.result[l] # 0) /\ ~Untimed(c)
            /\ c.credited \in Athletes /\ c.wins = AddRunWin(wins, c.credited)
            /\ Clinches(b, d, c.wins)
  <2>1. b.run # 0 /\ b.credited = 0
    BY <1>6, <1>11
  <2>2. (\A l \in Lanes : c.frozen[l] # 0) /\ c.tallied
    BY <1>1, <1>2, <1>8, <1>11, <2>1
  <2> QED  BY <1>7, <1>8, <1>9, <1>11, <2>1, <2>2 DEF Sound
<1> QED  BY <1>10, <1>11 DEF Recorded

\* A cleared run has no result; one awarded has stopped.
LEMMA SoundCleared ==
    ASSUME NEW b \in Board, NEW d, Sound(b), Cleared(b, d),
           d.board.credited = 0 \/ \A l \in Lanes : b.frozen[l] # 0
    PROVE  Sound(d.board)
<1>1. d.board.result[1] = 0 /\ d.board.result[2] = 0 /\ \A l \in Lanes : d.board.result[l] = 0
  BY DEF Cleared, Both, Lanes
<1> QED  BY <1>1 DEF Cleared, SameClocks, Sound, Untimed, Lanes

LEMMA SoundSwapped ==
    ASSUME NEW b \in Board, Sound(b), ~Running(b)
    PROVE  Sound(SwapLanes(b))
<1> DEFINE c == SwapLanes(b)
<1>1. /\ SameClocks(b, c) /\ SameTally(b, c) /\ c.tallied = b.tallied
      /\ \A l \in Lanes : c.result[l] = b.result[Other(l)] /\ c.seats[l] = b.seats[Other(l)]
  BY SwapLanesTally
<1>2. /\ c.result[1] = b.result[2] /\ c.result[2] = b.result[1]
      /\ c.seats[1] = b.seats[2] /\ c.seats[2] = b.seats[1]
  BY <1>1 DEF Other, Lanes
<1>3. b.run # 0 => \A l \in Lanes : b.frozen[l] # 0
  BY DEF Running
<1>4. c.run = b.run /\ c.frozen = b.frozen /\ c.credited = b.credited
  BY <1>1 DEF SameClocks, SameTally
<1> HIDE DEF c
<1>5. Untimed(b) => Untimed(c)
  BY <1>2 DEF Untimed, Lanes
<1>6. (\A l \in Lanes : c.result[l] # 0) => \A l \in Lanes : b.result[l] # 0
  BY <1>2 DEF Lanes
<1>7. Sound(c)
  BY <1>1, <1>2, <1>3, <1>4, <1>5, <1>6 DEF Sound
<1> QED  BY <1>7 DEF c

LEMMA SoundStarted ==
    ASSUME NEW b \in Board, Sound(b), NEW run \in Nat
    PROVE  Sound(OnRaceStart(b, run)) /\ Sound(OnReset(b))
<1>1. Both(0)[1] = 0 /\ \A l \in Lanes : Both(0)[l] = 0
  BY DEF Both, Lanes
<1>2. Sound(OnRaceStart(b, run))
  BY <1>1, StartTally DEF Sound, Untimed, Lanes
<1>3. Sound(OnReset(b))
  BY <1>1, ResetTally DEF Sound, Untimed, Lanes, SameSides
<1> QED  BY <1>2, <1>3

\* A stop of another panel is noted where the lane ran.
LEMMA SoundNoted ==
    ASSUME NEW b \in Board, Sound(b), NEW lane \in Lanes, NEW ms \in Elapsed,
           b.run # 0, b.frozen[lane] = 0
    PROVE  Sound(NotePeerFinish([b EXCEPT !.frozen[lane] = ms], lane, ms))
<1> DEFINE left == [b EXCEPT !.frozen[lane] = ms]
           c == NotePeerFinish(left, lane, ms)
<1>1. left \in Board /\ left.frozen = [b.frozen EXCEPT ![lane] = ms]
      /\ left.run = b.run /\ left.result = b.result /\ left.seats = b.seats
  BY FrozenKeeps DEF SameSaves
<1>2. left.tallied = b.tallied /\ left.credited = b.credited
  BY DEF Board
<1> HIDE DEF left
<1>3. /\ SameClocks(left, c) /\ SameTally(left, c) /\ SameSides(left, c)
      /\ c.result = [left.result EXCEPT ![lane] = ms]
      /\ c.tallied = (left.tallied \/ \A l \in Lanes : c.result[l] # 0)
  BY <1>1, NotePeerFinishTally
<1> HIDE DEF c
<1>4. b.credited = 0
  BY DEF Sound
<1>5. /\ b.frozen \in [Lanes -> Elapsed \union {0}] /\ b.result \in [Lanes -> Result \union {0}]
      /\ b.tallied \in BOOLEAN /\ ms # 0
  BY Kinds DEF Board
<1>6. \A l \in Lanes : c.result[l] # 0 => c.frozen[l] # 0
  BY <1>1, <1>3, <1>5 DEF SameClocks, Sound
<1>7. (\A l \in Lanes : c.result[l] # 0) => c.tallied
  BY <1>1, <1>2, <1>3, <1>5
<1>8. c.run # 0 /\ c.credited = 0 /\ c.seats[1] # c.seats[2]
  BY <1>1, <1>2, <1>3, <1>4 DEF SameClocks, SameTally, SameSides, Sound
<1>9. Sound(c)
  BY <1>6, <1>7, <1>8 DEF Sound
<1> QED  BY <1>9 DEF c, left

-----------------------------------------------------------------------------
(* What the panels share of the tally.                                     *)

BoardsSound == \A p \in Panels : Sound(board[p])

NoResumes == \A m \in net : m.frame.kind # "resume"

\* A PUT in flight writes a DNF, which the lane it is of has already.
EditsAreDnfs ==
    \A x \in rest : x.edit =>
        /\ x.row.ms = Dnf /\ StartLanded
        /\ board[x.by].run # 0 => board[x.by].result[x.lane] = Dnf

\* The runs to come have no credit, and that of the last one is held by one panel;
\* a panel a start is on its way to may still hold an older one.
RunsToComeUncredited ==
    count.runs <= MaxRuns /\ \A r \in 1..MaxRuns : r > count.runs => ledger[r] = 0
CreditsAreTheLast == \A p \in Panels : StartTo(p) \/ board[p].credited \in {0, LastCredit}
CreditHeldOnce ==
    \A p, q \in Panels :
        p # q /\ ~StartTo(p) /\ ~StartTo(q) => board[p].credited = 0 \/ board[q].credited = 0
LastCreditHeld ==
    LastCredit # 0 => \E p \in Panels : ~StartTo(p) /\ board[p].credited = LastCredit

CreditInv == RunsToComeUncredited /\ CreditsAreTheLast /\ CreditHeldOnce /\ LastCreditHeld

\* A selection in flight that panel p will take over.
Overrides(p, m) ==
    m.to = p /\ m.frame.kind = "selection" /\ Outranks(m.frame.stamp, stamp[p])

\* A selection in flight says the credits standing, under a number a panel has seen;
\* a panel that has other ones, or has not seen a number, is about to hear of it.
FramesFollow ==
    \A m \in net : m.frame.kind = "selection" =>
        /\ m.frame.view.seats[1] # m.frame.view.seats[2]
        /\ m.frame.view.wins = LaneRunWins(Credits, m.frame.view.seats)
        /\ \E q \in Panels : m.frame.stamp.seq <= stamp[q].seq
StampsFollow ==
    \A p, q \in Panels :
        \/ stamp[q].seq <= stamp[p].seq
        \/ \E m \in net : Overrides(p, m) /\ stamp[q].seq <= m.frame.stamp.seq
WinsFollow == \A p \in Panels : board[p].wins = Credits \/ \E m \in net : Overrides(p, m)
WinsAtStart == ~StartLanded => \A p \in Panels : board[p].wins = Credits

ShareInv == FramesFollow /\ StampsFollow /\ WinsFollow /\ WinsAtStart

TallyInv == BoardsSound /\ NoResumes /\ EditsAreDnfs /\ CreditInv /\ ShareInv

NoSelection == \A m \in net : m.frame.kind # "selection"

LEMMA CreditsKept == ASSUME ledger' = ledger PROVE Credits' = Credits
BY DEF Credits

LEMMA CreditsWins == ASSUME TypeOK PROVE Credits \in Wins /\ ledger \in Ledgers
BY CreditsType DEF TypeOK, Ledgers

LEMMA OutranksSeq ==
    ASSUME NEW s \in Stamp, NEW t \in Stamp
    PROVE  /\ Outranks(s, t) => t.seq <= s.seq
           /\ t.seq < s.seq => Outranks(s, t)
           /\ s.seq \in Nat /\ t.seq \in Nat
BY DEF Outranks, Stamp

LEMMA FrameStamps ==
    ASSUME TypeOK
    PROVE  /\ \A q \in Panels : stamp[q] \in Stamp /\ stamp[q].seq \in Nat
           /\ \A m \in net : m.frame \in Frames /\ m.to \in Panels
           /\ \A m \in net : m.frame.kind = "selection" =>
                m.frame.stamp \in Stamp /\ m.frame.stamp.seq \in Nat /\ m.frame.view \in Views
<1>1. \A q \in Panels : stamp[q] \in Stamp /\ stamp[q].seq \in Nat
  BY DEF TypeOK, Stamp
<1>2. \A m \in net : m.frame \in Frames /\ m.to \in Panels
  BY DEF TypeOK
<1>3. \A f \in Frames : f.kind = "selection" => f.stamp \in Stamp /\ f.view \in Views
  BY DEF Frames
<1> QED  BY <1>1, <1>2, <1>3 DEF Stamp

\* With no selection in flight all panels have the credits, and one number.
LEMMA QuietShares ==
    ASSUME TypeOK, ShareInv, NoSelection
    PROVE  /\ \A q \in Panels : board[q].wins = Credits
           /\ \A q, r \in Panels : stamp[q].seq = stamp[r].seq
<1>1. \A q \in Panels, m \in net : ~Overrides(q, m)
  BY DEF NoSelection, Overrides
<1>2. \A q \in Panels : board[q].wins = Credits
  BY <1>1 DEF ShareInv, WinsFollow
<1>3. \A q, r \in Panels : stamp[q].seq <= stamp[r].seq
  BY <1>1 DEF ShareInv, StampsFollow
<1> QED  BY <1>2, <1>3, FrameStamps

-----------------------------------------------------------------------------
(* The ledger in a step.                                                   *)

\* The credit a panel holds stays what it is.
LEMMA CreditStands ==
    ASSUME TypeOK, CreditInv, NEW p \in Panels, NEW c \in Board,
           board' = [board EXCEPT ![p] = c], c.credited = board[p].credited,
           ledger' = ledger, count'.runs = count.runs,
           \A q \in Panels : StartTo(q)' <=> StartTo(q)
    PROVE  CreditInv'
<1>1. \A q \in Panels : board'[q].credited = board[q].credited
  BY DEF TypeOK
<1>2. LastCredit' = LastCredit
  BY DEF LastCredit
<1>3. RunsToComeUncredited'
  BY DEF CreditInv, RunsToComeUncredited
<1>4. CreditsAreTheLast'
  BY <1>1, <1>2 DEF CreditInv, CreditsAreTheLast
<1>5. CreditHeldOnce'
  BY <1>1 DEF CreditInv, CreditHeldOnce
<1>6. LastCreditHeld'
  BY <1>1, <1>2 DEF CreditInv, LastCreditHeld
<1> QED  BY <1>3, <1>4, <1>5, <1>6 DEF CreditInv

\* A credit taken, given or moved by the panel that holds it is booked.
LEMMA CreditMoves ==
    ASSUME TypeOK, RunIsLast, CreditInv, NEW p \in Panels, NEW c \in Board,
           board' = [board EXCEPT ![p] = c], ledger' = Booked(board[p], c),
           count'.runs = count.runs, StartLanded, StartLanded',
           board[p].credited = LastCredit, c.run = board[p].run, c.credited # 0 => c.run # 0
    PROVE  /\ CreditInv'
           /\ Credits' = Given(RemoveRunWin(Credits, board[p].credited), c.credited)
<1> DEFINE b == board[p]
           r == count.runs
<1>1. /\ b \in Board /\ ledger \in Ledgers /\ r \in Nat /\ MaxRuns \in Nat
      /\ c.credited \in AthleteOrNone /\ b.credited \in AthleteOrNone
  BY RaceBoundsAssumption DEF TypeOK, Ledgers, Counts, Board
<1>2. \A q \in Panels : ~StartTo(q) /\ ~StartTo(q)'
  BY DEF StartLanded, StartTo
<1>3. r <= MaxRuns
  BY DEF CreditInv, RunsToComeUncredited
<1>4. \A q \in Panels : q # p => board'[q] = board[q] /\ board[q].credited = 0
  <2>1. ASSUME NEW q \in Panels, q # p  PROVE board[q].credited = 0
    <3>1. board[q].credited \in {0, LastCredit}
      BY <1>2 DEF CreditInv, CreditsAreTheLast
    <3>2. board[p].credited = 0 \/ board[q].credited = 0
      BY <1>2, <2>1 DEF CreditInv, CreditHeldOnce
    <3> QED  BY <3>1, <3>2
  <2> QED  BY <2>1 DEF TypeOK
<1>5. board'[p] = c
  BY DEF TypeOK
<1>6. CASE c.credited = b.credited
  <2>1. ledger' = ledger
    BY <1>6 DEF Booked
  <2>2. CreditInv'
    BY <1>1, <1>2, <1>6, <2>1, CreditStands
  <2>3. Credits' = Credits
    BY <2>1, CreditsKept
  <2>4. Credits = Given(RemoveRunWin(Credits, b.credited), b.credited)
    <3>1. CASE b.credited = 0
      BY <3>1 DEF Given, RemoveRunWin
    <3>2. CASE b.credited \in Athletes
      <4>1. r \in 1..MaxRuns /\ ledger[r] = b.credited
        BY <1>1, <1>3, <3>2, Kinds DEF LastCredit
      <4>2. AddRunWin(RemoveRunWin(CreditsOf(ledger), b.credited), b.credited) = CreditsOf(ledger)
        BY <1>1, <3>2, <4>1, CreditTaken
      <4> QED  BY <3>2, <4>2, CreditsType, Kinds DEF Given
    <3> QED  BY <1>1, <3>1, <3>2 DEF AthleteOrNone
  <2> QED  BY <1>6, <2>2, <2>3, <2>4
<1>7. CASE c.credited # b.credited
  <2>1. r \in 1..MaxRuns
    <3>1. CASE c.credited # 0
      <4>1. c.run # 0 /\ c.run \in {0, r}
        BY <3>1 DEF RunIsLast
      <4> QED  BY <1>1, <1>3, <4>1
    <3>2. CASE b.credited # 0
      BY <1>1, <1>3, <3>2 DEF LastCredit
    <3> QED  BY <1>7, <3>1, <3>2
  <2>2. ledger' = [ledger EXCEPT ![r] = c.credited] /\ ledger[r] = b.credited
    BY <1>1, <1>7, <2>1 DEF Booked, LastCredit
  <2>3. Credits' = Given(RemoveRunWin(Credits, b.credited), c.credited)
    <3>1. CreditsOf([ledger EXCEPT ![r] = c.credited])
            = Given(RemoveRunWin(CreditsOf(ledger), ledger[r]), c.credited)
      BY <1>1, <2>1, CreditMoved
    <3>2. Credits' = CreditsOf(ledger')
      BY DEF Credits, CreditsOf
    <3> QED  BY <2>2, <3>1, <3>2, CreditsType
  <2>4. LastCredit' = c.credited
    BY <1>1, <2>1, <2>2 DEF LastCredit, Ledgers
  <2>5. RunsToComeUncredited'
    BY <1>1, <2>1, <2>2 DEF CreditInv, RunsToComeUncredited, Ledgers
  <2>6. CreditsAreTheLast'
    BY <1>4, <1>5, <2>4 DEF CreditsAreTheLast
  <2>7. CreditHeldOnce'
    BY <1>4 DEF CreditHeldOnce
  <2>8. LastCreditHeld'
    BY <1>2, <1>5, <2>4 DEF LastCreditHeld
  <2> QED  BY <2>3, <2>5, <2>6, <2>7, <2>8 DEF CreditInv
<1> QED  BY <1>6, <1>7

-----------------------------------------------------------------------------
(* The selection in a step.                                                *)

\* A step that moves no tally, and whose selections only say again what stands.
LEMMA ShareStands ==
    ASSUME TypeOK, ShareInv, NEW p \in Panels, NEW c,
           board' = [board EXCEPT ![p] = c], c.wins = board[p].wins, stamp' = stamp,
           ledger' = ledger, ~StartLanded' => ~StartLanded,
           \A q \in Panels, m \in net : Overrides(q, m) => m \in net',
           \A m \in net' : m.frame.kind = "selection" =>
             \/ m \in net
             \/ /\ m.frame.view.seats[1] # m.frame.view.seats[2]
                /\ m.frame.view.wins = LaneRunWins(Credits, m.frame.view.seats)
                /\ \E q \in Panels : m.frame.stamp.seq <= stamp[q].seq
    PROVE  ShareInv'
<1>1. Credits' = Credits
  BY CreditsKept
<1>2. \A q \in Panels : board'[q].wins = board[q].wins
  BY DEF TypeOK
<1>3. \A q \in Panels, m \in net : Overrides(q, m) => m \in net' /\ Overrides(q, m)'
  BY DEF Overrides
<1>4. FramesFollow'
  BY <1>1 DEF ShareInv, FramesFollow
<1>5. StampsFollow'
  BY <1>3 DEF ShareInv, StampsFollow
<1>6. WinsFollow'
  BY <1>1, <1>2, <1>3 DEF ShareInv, WinsFollow
<1>7. WinsAtStart'
  BY <1>1, <1>2 DEF ShareInv, WinsAtStart
<1> QED  BY <1>4, <1>5, <1>6, <1>7 DEF ShareInv

\* What the board of a panel moved of the selection is claimed, and said to the others.
Says(p, c, frames) ==
    LET claim == Minted(p, stamp[p], TRUE, 0)
        moved == View(c) # View(board[p])
    IN  /\ stamp' = IF moved THEN [stamp EXCEPT ![p] = claim] ELSE stamp
        /\ \A m \in net : m \in net'
        /\ \A m \in net' : m.frame.kind = "selection" =>
             m \in net \/ (moved /\ m.to # p /\ m.frame = SelectionFrame(claim, c))
        /\ moved => \A q \in Panels : q # p =>
             [to |-> q, frame |-> SelectionFrame(claim, c)] \in net'
        /\ \A m \in net' : m \in net \/ m.frame \in frames \/ m.frame.kind = "selection"

LEMMA ActSays ==
    ASSUME TypeOK, NEW p \in Panels, NEW done \in Outcome, NEW frames, Act(p, done, frames),
           \A f \in frames : f.kind # "selection"
    PROVE  Says(p, done.board, frames)
<1> DEFINE c == done.board
           claim == Minted(p, stamp[p], TRUE, 0)
           moved == View(c) # View(board[p])
           said == SelectionFrame(claim, c)
           sent == frames \union IF moved THEN {said} ELSE {}
<1>1. /\ stamp' = IF moved THEN [stamp EXCEPT ![p] = claim] ELSE stamp
      /\ net' = net \union Fanout(p, sent)
  BY DEF Act
<1>2. said.kind = "selection"
  BY DEF SelectionFrame
<1>3. \A f \in sent : f \in frames \/ (moved /\ f = said)
  OBVIOUS
<1>4. moved => said \in sent
  OBVIOUS
<1> HIDE DEF sent, said, moved, claim
<1>5. \A m \in Fanout(p, sent) : m.to # p /\ m.frame \in sent
  BY DEF Fanout
<1>6. \A q \in Panels : q # p /\ moved => [to |-> q, frame |-> said] \in Fanout(p, sent)
  BY <1>4 DEF Fanout
<1> QED  BY <1>1, <1>2, <1>3, <1>5, <1>6 DEF claim, moved, said, Says

\* A board's view of a tally.
LEMMA SaidView ==
    ASSUME NEW s, NEW c
    PROVE  /\ SelectionFrame(s, c).kind = "selection" /\ SelectionFrame(s, c).stamp = s
           /\ SelectionFrame(s, c).view.seats = c.seats
           /\ SelectionFrame(s, c).view.wins = LaneRunWins(c.wins, c.seats)
BY DEF SelectionFrame, View

\* An act on an otherwise quiet selection: what it moved is claimed, and will be heard.
LEMMA ActShares ==
    ASSUME TypeOK, ShareInv, NoSelection, NEW p \in Panels, NEW done \in Outcome, NEW frames,
           Act(p, done, frames), \A f \in frames : f.kind # "selection",
           board[p].seats[1] # board[p].seats[2], done.board.seats[1] # done.board.seats[2],
           Credits' = done.board.wins, StartLanded' \/ done.board.wins = board[p].wins
    PROVE  ShareInv'
<1> DEFINE c == done.board
           claim == Minted(p, stamp[p], TRUE, 0)
           moved == View(c) # View(board[p])
           said == SelectionFrame(claim, c)
<1>1. /\ c \in Board /\ board[p] \in Board /\ board' = [board EXCEPT ![p] = c]
      /\ stamp \in [Panels -> Stamp]
  BY DEF TypeOK, Outcome, Act, Commit
<1>2. Says(p, c, frames)
  BY ActSays
<1>20. /\ stamp' = IF moved THEN [stamp EXCEPT ![p] = claim] ELSE stamp
       /\ \A m \in net' : m.frame.kind = "selection" =>
            m \in net \/ (moved /\ m.to # p /\ m.frame = said)
       /\ moved => \A q \in Panels : q # p => [to |-> q, frame |-> said] \in net'
  BY <1>2 DEF Says
<1>3. /\ \A q \in Panels : board[q].wins = Credits
      /\ \A q, r \in Panels : stamp[q].seq = stamp[r].seq
  BY QuietShares
<1>4. claim \in Stamp /\ claim.seq = stamp[p].seq + 1
  <2>1. stamp[p] \in Stamp /\ stamp[p].seq \in Nat
    BY FrameStamps
  <2>2. claim.seq = stamp[p].seq + 1
    BY <2>1 DEF Minted
  <2> HIDE DEF claim
  <2> QED  BY <2>1, <2>2, MintedType DEF claim
<1> HIDE DEF claim, c
<1>5. /\ said.kind = "selection" /\ said.stamp = claim /\ said.view.seats = c.seats
      /\ said.view.wins = LaneRunWins(c.wins, c.seats)
  BY SaidView
<1>6. board'[p].wins = c.wins /\ \A q \in Panels : q # p => board'[q].wins = Credits
  BY <1>1, <1>3 DEF TypeOK
<1>7. ~moved => c.wins = Credits
  <2>1. board[p].wins = Credits
    BY <1>3
  <2> QED  BY <1>1, <2>1, ViewIsTally
<1> HIDE DEF said, moved
<1>8. CASE moved
  <2>1. stamp'[p] = claim /\ \A q \in Panels : q # p => stamp'[q] = stamp[q]
    BY <1>1, <1>20, <1>8
  <2>2. \A q \in Panels : q # p => \E m \in net' : Overrides(q, m)' /\ m.frame = said
    <3> TAKE q \in Panels
    <3> HAVE q # p
    <3> DEFINE m == [to |-> q, frame |-> said]
    <3>1. m \in net' /\ m.to = q /\ m.frame = said
      BY <1>20, <1>8
    <3>2. Outranks(claim, stamp[q])
      <4>1. stamp[q] \in Stamp /\ stamp[p].seq = stamp[q].seq /\ stamp[q].seq \in Nat
        BY <1>1, <1>3, FrameStamps
      <4>2. stamp[q].seq < claim.seq
        BY <1>4, <4>1
      <4> QED  BY <1>4, <4>1, <4>2, OutranksSeq
    <3> HIDE DEF m
    <3> QED  BY <1>5, <2>1, <3>1, <3>2 DEF Overrides
  <2>3. \A m \in net' : m.frame.kind = "selection" => m.frame = said
    BY <1>20 DEF NoSelection
  <2>4. FramesFollow'
    <3>1. claim.seq <= stamp'[p].seq
      BY <1>4, <2>1, OutranksSeq
    <3>2. said.view.seats[1] # said.view.seats[2] /\ said.view.wins = LaneRunWins(Credits', said.view.seats)
      BY <1>5 DEF c
    <3> QED  BY <1>5, <2>3, <3>1, <3>2 DEF FramesFollow
  <2>5. StampsFollow'
    <3>1. SUFFICES ASSUME NEW q \in Panels, NEW r \in Panels
                   PROVE  \/ stamp'[r].seq <= stamp'[q].seq
                          \/ \E m \in net' : Overrides(q, m)' /\ stamp'[r].seq <= m.frame.stamp.seq
      BY DEF StampsFollow
    <3>2. stamp'[r].seq <= claim.seq
      <4>1. stamp[r].seq = stamp[p].seq /\ stamp[r].seq \in Nat
        BY <1>3, FrameStamps
      <4>2. r # p => stamp'[r].seq <= claim.seq
        BY <1>4, <2>1, <4>1
      <4>3. r = p => stamp'[r].seq <= claim.seq
        BY <1>4, <2>1, OutranksSeq
      <4> QED  BY <4>2, <4>3
    <3> QED  BY <1>5, <2>1, <2>2, <3>2
  <2>6. WinsFollow'
    BY <1>6, <2>2 DEF WinsFollow, c
  <2>7. WinsAtStart'
    <3>1. StartLanded' \/ \A q \in Panels : board'[q].wins = Credits'
      BY <1>3, <1>6 DEF c
    <3> QED  BY <3>1 DEF WinsAtStart
  <2> QED  BY <2>4, <2>5, <2>6, <2>7 DEF ShareInv
<1>9. CASE ~moved
  <2>1. Credits' = Credits /\ \A q \in Panels : board'[q].wins = Credits'
    BY <1>6, <1>7, <1>9 DEF c
  <2>2. stamp' = stamp /\ \A m \in net' : m.frame.kind # "selection"
    BY <1>20, <1>9 DEF NoSelection
  <2>3. \A q, r \in Panels : stamp'[r].seq <= stamp'[q].seq
    <3>1. \A q, r \in Panels : stamp[r].seq = stamp[q].seq /\ stamp[r].seq \in Nat
      BY <1>3, FrameStamps
    <3> QED  BY <2>2, <3>1
  <2> QED  BY <2>1, <2>2, <2>3 DEF ShareInv, FramesFollow, StampsFollow, WinsFollow, WinsAtStart
<1> QED  BY <1>8, <1>9

\* A selection that outranks what a panel has is taken over, and said on.
LEMMA TakeShares ==
    ASSUME TypeOK, ShareInv, NEW p \in Panels, NEW c \in Board, NEW m \in net, Overrides(p, m),
           board' = [board EXCEPT ![p] = c], c.wins = Credits, c.seats = m.frame.view.seats,
           stamp' = [stamp EXCEPT ![p] = m.frame.stamp], ledger' = ledger,
           \A n \in net : n # m => n \in net',
           ~StartLanded' => ~StartLanded,
           \A n \in net' : n.frame.kind = "selection" =>
             n \in net \/ n.frame = SelectionFrame(Restated(p, m.frame.stamp), c)
    PROVE  ShareInv'
<1> DEFINE s == m.frame.stamp
           again == SelectionFrame(Restated(p, s), c)
<1>1. m.to = p /\ m.frame.kind = "selection" /\ Outranks(s, stamp[p])
  BY DEF Overrides
<1>2. /\ s \in Stamp /\ s.seq \in Nat /\ stamp \in [Panels -> Stamp]
      /\ \A q \in Panels : stamp[q] \in Stamp /\ stamp[q].seq \in Nat
  BY <1>1, FrameStamps DEF TypeOK
<1>3. stamp'[p] = s /\ \A q \in Panels : q # p => stamp'[q] = stamp[q]
  BY <1>2
<1>4. Credits' = Credits
  BY CreditsKept
<1>5. board'[p].wins = Credits /\ \A q \in Panels : q # p => board'[q].wins = board[q].wins
  BY DEF TypeOK
<1>6. stamp[p].seq <= s.seq
  BY <1>1, <1>2, OutranksSeq
<1>7. \A q \in Panels, n \in net : q # p /\ Overrides(q, n) => n \in net' /\ Overrides(q, n)'
  BY <1>1, <1>3 DEF Overrides
<1>8. c.seats[1] # c.seats[2] /\ \E q \in Panels : s.seq <= stamp[q].seq
  BY <1>1 DEF ShareInv, FramesFollow
<1>9. /\ again.stamp.seq = s.seq /\ again.view.seats = c.seats
      /\ again.view.wins = LaneRunWins(Credits, c.seats)
  BY SaidView DEF Restated
<1> HIDE DEF s, again
<1>10. \A q \in Panels : stamp[q].seq <= stamp'[q].seq
  <2> TAKE q \in Panels
  <2>1. q = p => stamp[q].seq <= stamp'[q].seq
    BY <1>3, <1>6
  <2>2. q # p => stamp[q].seq <= stamp'[q].seq
    BY <1>2, <1>3
  <2> QED  BY <2>1, <2>2
<1>11. \A q \in Panels : stamp'[q].seq \in Nat
  BY <1>2, <1>3
<1>12. FramesFollow'
  <2>1. SUFFICES ASSUME NEW n \in net', n.frame.kind = "selection"
                 PROVE  /\ n.frame.view.seats[1] # n.frame.view.seats[2]
                        /\ n.frame.view.wins = LaneRunWins(Credits', n.frame.view.seats)
                        /\ \E q \in Panels : n.frame.stamp.seq <= stamp'[q].seq
    BY DEF FramesFollow
  <2>2. CASE n \in net
    <3>1. PICK q \in Panels : n.frame.stamp.seq <= stamp[q].seq
      BY <2>1, <2>2 DEF ShareInv, FramesFollow
    <3>2. n.frame.stamp.seq \in Nat
      BY <2>1, <2>2, FrameStamps
    <3>3. n.frame.stamp.seq <= stamp'[q].seq
      BY <1>2, <1>10, <1>11, <3>1, <3>2
    <3> QED  BY <1>4, <2>1, <2>2, <3>3 DEF ShareInv, FramesFollow
  <2>3. CASE n.frame = again
    <3>1. again.stamp.seq <= stamp'[p].seq
      BY <1>2, <1>3, <1>9
    <3> QED  BY <1>4, <1>8, <1>9, <2>3, <3>1
  <2> QED  BY <2>1, <2>2, <2>3 DEF again, s
<1>13. StampsFollow'
  <2>1. SUFFICES ASSUME NEW q \in Panels, NEW r \in Panels
                 PROVE  \/ stamp'[r].seq <= stamp'[q].seq
                        \/ \E n \in net' : Overrides(q, n)' /\ stamp'[r].seq <= n.frame.stamp.seq
    BY DEF StampsFollow
  <2>2. CASE q # p
    <3>1. PICK t \in Panels : stamp'[r].seq <= stamp[t].seq
      <4>1. CASE r = p
        BY <1>3, <1>8, <4>1
      <4>2. CASE r # p
        BY <1>2, <1>3, <4>2
      <4> QED  BY <4>1, <4>2
    <3>2. CASE stamp[t].seq <= stamp[q].seq
      BY <1>2, <1>3, <1>11, <2>2, <3>1, <3>2
    <3>3. CASE \E n \in net : Overrides(q, n) /\ stamp[t].seq <= n.frame.stamp.seq
      <4>1. PICK n \in net : Overrides(q, n) /\ stamp[t].seq <= n.frame.stamp.seq
        BY <3>3
      <4>2. n.frame.stamp.seq \in Nat
        BY <4>1, FrameStamps DEF Overrides
      <4>3. stamp'[r].seq <= n.frame.stamp.seq
        BY <1>2, <1>11, <3>1, <4>1, <4>2
      <4> QED  BY <1>7, <2>2, <4>1, <4>3
    <3> QED  BY <3>2, <3>3 DEF ShareInv, StampsFollow
  <2>3. CASE q = p
    <3>1. CASE r = p
      BY <1>11, <2>3, <3>1
    <3>2. CASE r # p /\ stamp[r].seq <= stamp[p].seq
      BY <1>2, <1>3, <1>6, <2>3, <3>2
    <3>3. CASE r # p /\ \E n \in net : Overrides(p, n) /\ stamp[r].seq <= n.frame.stamp.seq
      <4>1. PICK n \in net : Overrides(p, n) /\ stamp[r].seq <= n.frame.stamp.seq
        BY <3>3
      <4>2. /\ n.to = p /\ n.frame.kind = "selection" /\ n.frame.stamp \in Stamp
            /\ n.frame.stamp.seq \in Nat
        BY <4>1, FrameStamps DEF Overrides
      <4>3. CASE n.frame.stamp.seq <= s.seq
        BY <1>2, <1>3, <2>3, <3>3, <4>1, <4>2, <4>3
      <4>4. CASE s.seq < n.frame.stamp.seq
        <5>1. Outranks(n.frame.stamp, s)
          BY <1>2, <4>2, <4>4, OutranksSeq
        <5>2. n # m
          BY <1>2, <4>2, <4>4 DEF s
        <5>3. n \in net' /\ Overrides(p, n)'
          BY <1>3, <4>2, <5>1, <5>2 DEF Overrides
        <5> QED  BY <1>3, <2>3, <3>3, <4>1, <5>3
      <4> QED  BY <1>2, <4>2, <4>3, <4>4
    <3> QED  BY <3>1, <3>2, <3>3 DEF ShareInv, StampsFollow
  <2> QED  BY <2>2, <2>3
<1>14. WinsFollow'
  BY <1>4, <1>5, <1>7 DEF ShareInv, WinsFollow
<1>15. WinsAtStart'
  BY <1>4, <1>5 DEF ShareInv, WinsAtStart
<1> QED  BY <1>12, <1>13, <1>14, <1>15 DEF ShareInv

-----------------------------------------------------------------------------
(* The tally stays in step with the ledger.                                *)

\* A step leaves the tally of a panel, or brings it up to the ledger.
WinsMove ==
    /\ count.runs <= count'.runs
    /\ \A q \in Panels : board'[q].wins \in {board[q].wins, Credits'}

\* A PUT in flight stays one of a DNF the board has.
LEMMA EditsKeep ==
    ASSUME TypeOK, EditsAreDnfs, NEW p \in Panels, NEW c \in Board,
           board' = [board EXCEPT ![p] = c],
           \A x \in rest' : x.edit =>
             \/ x \in rest
             \/ x.by = p /\ x.row.ms = Dnf /\ (c.run # 0 => c.result[x.lane] = Dnf),
           \A x \in rest : x.edit /\ x.by = p /\ c.run # 0 =>
             board[p].run # 0 /\ c.result[x.lane] \in {Dnf, board[p].result[x.lane]},
           \A x \in rest' : x.edit => StartLanded'
    PROVE  EditsAreDnfs'
<1>1. board'[p] = c /\ \A q \in Panels : q # p => board'[q] = board[q]
  BY DEF TypeOK
<1>2. SUFFICES ASSUME NEW x \in rest', x.edit
               PROVE  /\ x.row.ms = Dnf
                      /\ board'[x.by].run # 0 => board'[x.by].result[x.lane] = Dnf
  BY DEF EditsAreDnfs
<1>3. CASE x \in rest
  <2>1. x.by \in Panels
    BY <1>3 DEF TypeOK, Requests
  <2>2. x.row.ms = Dnf /\ (board[x.by].run # 0 => board[x.by].result[x.lane] = Dnf)
    BY <1>2, <1>3 DEF EditsAreDnfs
  <2>3. CASE x.by = p
    BY <1>1, <1>2, <1>3, <2>2, <2>3
  <2>4. CASE x.by # p
    BY <1>1, <2>1, <2>2, <2>4
  <2> QED  BY <2>3, <2>4
<1>4. CASE x \notin rest
  BY <1>1, <1>2, <1>4
<1> QED  BY <1>3, <1>4

\* The requests that leave with a step.
LEMMA CommitSends ==
    ASSUME NEW p, NEW done, Commit(p, done)
    PROVE  /\ \A x \in rest : x \in rest'
           /\ \A x \in rest' : x.edit =>
                \/ x \in rest
                \/ x.by = p /\ \E y \in done.edits : x.lane = y.lane /\ x.row = y.row
BY DEF Commit, Posted, Put

\* An act of a panel on the run it is on, once all selections are in: it leaves the
\* tally, or moves the credit of that run.
LEMMA ActTally ==
    ASSUME TypeOK, RunIsLast, TallyInv, NoSelection, StartLanded, NEW p \in Panels,
           NEW done \in Outcome, NEW frames, Act(p, done, frames),
           \A f \in frames : f.kind = "stop", count'.runs = count.runs,
           done.board.run = board[p].run, Sound(done.board),
           \/ SameTally(board[p], done.board)
           \/ /\ board[p].credited = LastCredit
              /\ done.board.credited # 0 => done.board.run # 0
              /\ done.board.wins
                   = Given(RemoveRunWin(board[p].wins, board[p].credited), done.board.credited),
           \A y \in done.edits : y.row.ms = Dnf /\ done.board.result[y.lane] = Dnf,
           \A x \in rest : x.edit /\ x.by = p =>
             done.board.result[x.lane] \in {Dnf, board[p].result[x.lane]}
    PROVE  TallyInv' /\ WinsMove
<1> DEFINE c == done.board
           b == board[p]
<1>1. /\ b \in Board /\ c \in Board /\ board' = [board EXCEPT ![p] = c]
      /\ Commit(p, done) /\ ledger' = Booked(b, c)
  BY DEF TypeOK, Outcome, Act, Commit
<1>2. Says(p, c, frames)
  BY ActSays
<1>3. \A m \in net' : m \in net \/ m.frame.kind \in {"stop", "selection"}
  BY <1>2 DEF Says
<1>4. StartLanded' /\ NoResumes' /\ \A q \in Panels : ~StartTo(q) /\ ~StartTo(q)'
  BY <1>3 DEF TallyInv, NoResumes, StartLanded, StartTo
<1>5. board'[p] = c /\ \A q \in Panels : q # p => board'[q] = board[q]
  BY <1>1 DEF TypeOK
<1>6. BoardsSound' /\ b.seats[1] # b.seats[2] /\ c.seats[1] # c.seats[2]
  BY <1>5 DEF TallyInv, BoardsSound, Sound
<1>7. b.wins = Credits
  BY QuietShares DEF TallyInv
<1>8. CreditInv' /\ Credits' = c.wins
  <2>1. CASE SameTally(b, c)
    <3>1. ledger' = ledger /\ c.credited = b.credited /\ c.wins = b.wins
      BY <1>1, <2>1 DEF SameTally, Booked
    <3>2. CreditInv'
      BY <1>1, <1>4, <3>1, CreditStands DEF TallyInv
    <3> QED  BY <1>7, <3>1, <3>2, CreditsKept
  <2>2. CASE /\ b.credited = LastCredit /\ (c.credited # 0 => c.run # 0)
             /\ c.wins = Given(RemoveRunWin(b.wins, b.credited), c.credited)
    <3>1. CreditInv' /\ Credits' = Given(RemoveRunWin(Credits, b.credited), c.credited)
      BY <1>1, <1>4, <2>2, CreditMoves DEF TallyInv
    <3> QED  BY <1>7, <2>2, <3>1
  <2> QED  BY <2>1, <2>2
<1>9. ShareInv'
  <2>1. \A f \in frames : f.kind # "selection"
    OBVIOUS
  <2>2. Credits' = done.board.wins /\ (StartLanded' \/ done.board.wins = board[p].wins)
    BY <1>4, <1>8
  <2>3. board[p].seats[1] # board[p].seats[2] /\ done.board.seats[1] # done.board.seats[2] /\ ShareInv
    BY <1>6 DEF TallyInv
  <2> HIDE DEF c, b
  <2> QED  BY <2>1, <2>2, <2>3, ActShares
<1>10. EditsAreDnfs'
  <2>1. \A x \in rest' : x.edit =>
             \/ x \in rest
             \/ x.by = p /\ x.row.ms = Dnf /\ (c.run # 0 => c.result[x.lane] = Dnf)
    BY <1>1, CommitSends
  <2>2. \A x \in rest' : x.edit => StartLanded'
    BY <1>4
  <2>3. \A x \in rest : x.edit /\ x.by = p /\ c.run # 0 =>
             board[p].run # 0 /\ c.result[x.lane] \in {Dnf, board[p].result[x.lane]}
    OBVIOUS
  <2> HIDE DEF c
  <2> QED  BY <1>1, <2>1, <2>2, <2>3, EditsKeep DEF TallyInv
<1>11. WinsMove
  <2>1. count.runs <= count'.runs
    BY DEF TypeOK, Counts
  <2> QED  BY <1>5, <1>8, <2>1 DEF WinsMove
<1> QED  BY <1>4, <1>6, <1>8, <1>9, <1>10, <1>11 DEF TallyInv

\* A step that says nothing of the tally and leaves it alone.
LEMMA QuietTally ==
    ASSUME TypeOK, TallyInv, NEW p \in Panels, NEW c \in Board, board' = [board EXCEPT ![p] = c],
           Sound(c), SameTally(board[p], c), stamp' = stamp, ledger' = ledger,
           count'.runs = count.runs,
           \A q \in Panels, m \in net : Overrides(q, m) => m \in net',
           \A m \in net : m.frame.kind = "start" => m \in net',
           \A m \in net' : m \in net \/ m.frame.kind = "reset",
           \A x \in rest' : x.edit => x \in rest,
           \A x \in rest : x.edit /\ x.by = p /\ c.run # 0 =>
             board[p].run # 0 /\ c.result[x.lane] \in {Dnf, board[p].result[x.lane]}
    PROVE  TallyInv' /\ WinsMove
<1>1. board'[p] = c /\ \A q \in Panels : q # p => board'[q] = board[q]
  BY DEF TypeOK
<1>2. \A q \in Panels : StartTo(q)' <=> StartTo(q)
  BY DEF StartTo
<1>3. StartLanded' <=> StartLanded
  BY DEF StartLanded
<1>4. BoardsSound' /\ NoResumes'
  BY <1>1 DEF TallyInv, BoardsSound, NoResumes
<1>5. CreditInv'
  BY <1>2, CreditStands DEF TallyInv, SameTally
<1>6. ShareInv'
  <2>1. \A m \in net' : m.frame.kind = "selection" => m \in net
    OBVIOUS
  <2>2. c.wins = board[p].wins /\ (~StartLanded' => ~StartLanded) /\ ShareInv
    BY <1>3 DEF TallyInv, SameTally
  <2> QED  BY <2>1, <2>2, ShareStands
<1>7. EditsAreDnfs'
  <2>1. \A x \in rest' : x.edit => StartLanded'
    BY <1>3 DEF TallyInv, EditsAreDnfs
  <2> QED  BY <2>1, EditsKeep DEF TallyInv
<1>8. WinsMove
  <2>1. count.runs <= count'.runs
    BY DEF TypeOK, Counts
  <2> QED  BY <1>1, <2>1 DEF WinsMove, SameTally
<1> QED  BY <1>4, <1>5, <1>6, <1>7, <1>8 DEF TallyInv

\* A panel that may score the run holds its credit, when there is one.
LEMMA HoldsLast ==
    ASSUME CreditInv, StartLanded, NEW p \in Panels, MayScore(p)
    PROVE  board[p].credited = LastCredit
<1>1. \A q \in Panels : ~StartTo(q)
  BY DEF StartLanded, StartTo
<1>2. board[p].credited \in {0, LastCredit}
  BY <1>1 DEF CreditInv, CreditsAreTheLast
<1>3. CASE LastCredit # 0
  <2>1. PICK q \in Panels : board[q].credited = LastCredit
    BY <1>3 DEF CreditInv, LastCreditHeld
  <2> QED  BY <1>3, <2>1 DEF MayScore
<1> QED  BY <1>2, <1>3

\* A lane that runs on one panel is the lane of a run not scored on any.
LEMMA RunningUnscored ==
    ASSUME TypeOK, ClockInv, TallyInv, NEW p \in Panels, NEW lane \in Lanes,
           OnlyLanesMove, LaneLanded(lane), board[p].run # 0, board[p].frozen[lane] = 0
    PROVE  board[p].credited = LastCredit /\ LastCredit = 0
<1>1. \A q \in Panels : board[q].run # 0
  BY PressedOnAll
<1>2. \A q \in Panels : ~LaneTo(q, lane)
  BY DEF LaneTo, LaneLanded, IsLane
<1>3. \A q \in Panels : board[q].frozen[lane] = 0
  BY <1>1, <1>2 DEF ClockInv, LaneInv, HeardAgree
<1>4. \A q \in Panels : board[q].credited = 0
  BY <1>1, <1>3 DEF TallyInv, BoardsSound, Sound
<1>5. StartLanded
  BY DEF StartLanded, OnlyLanesMove
<1> QED  BY <1>4, <1>5, HoldsLast DEF TallyInv, MayScore

\* A clock that stops disturbs no board.
LEMMA SoundStopped ==
    ASSUME NEW b, NEW c, Sound(b), c.run = b.run, SameTally(b, c), SameResults(b, c),
           SameSides(b, c), \A l \in Lanes : b.frozen[l] # 0 => c.frozen[l] # 0
    PROVE  Sound(c)
BY DEF SameTally, SameResults, SameSides, Sound, Untimed

-----------------------------------------------------------------------------
(* The steps.                                                              *)

LEMMA VoidTally ==
    ASSUME TypeOK, RunIsLast, TallyInv, PromptServer = TRUE, NEW p \in Panels, Void(p)
    PROVE  TallyInv' /\ WinsMove
<1> DEFINE b == board[p]
           done == VoidRun(b)
<1>1. b \in Board /\ count \in Counts
  BY DEF TypeOK
<1>2. done \in Outcome /\ Cleared(b, done)
      /\ done.board.credited = 0 /\ done.board.wins = RemoveRunWin(b.wins, b.credited)
  BY <1>1, VoidRunKeeps, VoidRunTally DEF Voided
<1>3. /\ Act(p, done, {}) /\ count'.runs = count.runs
      /\ NoSelection /\ StartLanded /\ \A x \in rest : ~x.edit
  BY <1>1, CountedType DEF Void, Counts, Landed, Corrections, NoSelection, StartLanded
<1> HIDE DEF done
<1>4. Sound(b)
  BY DEF TallyInv, BoardsSound
<1>5. done.board.run = b.run /\ Sound(done.board) /\ done.edits = {}
  BY <1>1, <1>2, <1>4, SoundCleared DEF Cleared, SameClocks
<1>6. b.credited \in {0, LastCredit}
  BY <1>3 DEF TallyInv, CreditInv, CreditsAreTheLast, StartLanded, StartTo
<1>7. SameTally(b, done.board) \/ b.credited = LastCredit
  BY <1>2, <1>6 DEF SameTally, RemoveRunWin
<1>8. done.board.wins = Given(RemoveRunWin(b.wins, b.credited), done.board.credited)
  BY <1>2 DEF Given
<1> QED  BY <1>2, <1>3, <1>5, <1>7, <1>8, ActTally

LEMMA AwardTally ==
    ASSUME TypeOK, RunIsLast, TallyInv, PromptServer = TRUE, NEW p \in Panels, Award(p)
    PROVE  TallyInv' /\ WinsMove
<1> DEFINE b == board[p]
           done == AwardRunTo(b, Other(Offender(b)))
<1>1. b \in Board /\ count \in Counts
  BY DEF TypeOK
<1>2. Other(Offender(b)) \in Lanes
  BY Kinds DEF Award, Offender
<1>3. /\ done \in Outcome /\ Cleared(b, done) /\ done.board.credited \in Athletes
      /\ done.board.wins = AddRunWin(RemoveRunWin(b.wins, b.credited), done.board.credited)
  BY <1>1, <1>2, AwardRunToKeeps, AwardRunToTally DEF Voided
<1>4. /\ Act(p, done, {}) /\ count'.runs = Counted("awards").runs
      /\ NoSelection /\ StartLanded /\ (\A x \in rest : ~x.edit)
      /\ b.run # 0 /\ ~Running(b) /\ MayScore(p)
  BY <1>1, CountedType DEF Award, Counts, Landed, Corrections, NoSelection, StartLanded
<1> HIDE DEF done
<1>5. count'.runs = count.runs
  BY <1>1, <1>4, CountedType
<1>6. Sound(b) /\ \A l \in Lanes : b.frozen[l] # 0
  BY <1>4 DEF TallyInv, BoardsSound, Running
<1>7. done.board.run = b.run /\ Sound(done.board) /\ done.edits = {}
  BY <1>1, <1>3, <1>6, SoundCleared DEF Cleared, SameClocks
<1>8. b.credited = LastCredit
  BY <1>4, HoldsLast DEF TallyInv
<1>9. done.board.wins = Given(RemoveRunWin(b.wins, b.credited), done.board.credited)
  BY <1>3, Kinds DEF Given
<1> QED  BY <1>3, <1>4, <1>5, <1>7, <1>8, <1>9, ActTally

LEMMA SwapTally ==
    ASSUME TypeOK, RunIsLast, TallyInv, PromptServer = TRUE, NEW p \in Panels, Swap(p)
    PROVE  TallyInv' /\ WinsMove
<1> DEFINE b == board[p]
           c == SwapLanes(b)
<1>1. b \in Board /\ count \in Counts
  BY DEF TypeOK
<1>2. c \in Board /\ SameClocks(b, c) /\ SameTally(b, c)
  BY <1>1, SwapLanesKeeps, SwapLanesTally
<1>3. /\ Act(p, Done(c), {}) /\ count'.runs = count.runs
      /\ NoSelection /\ StartLanded /\ (\A x \in rest : ~x.edit) /\ ~Running(b)
  BY <1>1, CountedType DEF Swap, Landed, Corrections, NoSelection, StartLanded
<1>4. Sound(c)
  BY <1>1, <1>3, SoundSwapped DEF TallyInv, BoardsSound
<1> HIDE DEF c
<1>5. Done(c) \in Outcome /\ Done(c).board = c /\ Done(c).edits = {}
  BY <1>2, DoneType
<1> QED  BY <1>2, <1>3, <1>4, <1>5, ActTally DEF SameClocks

LEMMA FlagTally ==
    ASSUME TypeOK, RunIsLast, TallyInv, PromptServer = TRUE, NEW p \in Panels,
           NEW lane \in Lanes, Flag(p, lane)
    PROVE  TallyInv' /\ WinsMove
<1> DEFINE b == board[p]
<1>1. b \in Board /\ count \in Counts
  BY DEF TypeOK
<1>2. /\ count'.runs = count.runs /\ NoSelection /\ StartLanded /\ rest = {}
      /\ Act(p, Done(FlagFs(b, lane)), {}) \/ Act(p, Done(ClearFs(b, lane)), {})
  BY <1>1, CountedType DEF Flag, Landed, Answered, NoSelection, StartLanded
<1>3. ASSUME NEW c \in Board, SameClocks(b, c), SameTally(b, c), SameResults(b, c),
             c.seats = b.seats, Act(p, Done(c), {})
      PROVE  TallyInv' /\ WinsMove
  <2>1. Done(c) \in Outcome /\ Done(c).board = c /\ Done(c).edits = {}
    BY DoneType
  <2>2. Sound(b) /\ b.seats[1] # b.seats[2]
    BY DEF TallyInv, BoardsSound, Sound
  <2>3. Sound(c)
    BY <1>3, <2>2, SoundStill DEF SameTally
  <2> QED  BY <1>2, <1>3, <2>1, <2>3, ActTally DEF SameClocks
<1> QED  BY <1>1, <1>2, <1>3, FlagsKeep, FlagsTally

\* A result is recorded, and the run scored or not, where no other panel may score it.
Scores(p, done, frames) ==
    LET b == board[p]
        c == done.board
    IN  /\ Act(p, done, frames) /\ \A f \in frames : f.kind = "stop"
        /\ b.run # 0 /\ c.run = b.run /\ Sound(c)
        /\ b.credited = LastCredit /\ MayScore(p)
        /\ \/ /\ SameTally(b, c)
              /\ (done.put = Keep /\ c.decided = b.decided) \/ Clinches(b, done, b.wins)
           \/ /\ b.credited = 0 /\ c.credited \in Athletes /\ c.wins = AddRunWin(b.wins, c.credited)
              /\ Clinches(b, done, c.wins)
        /\ \A y \in done.edits :
             y.row.ms = Dnf /\ y.closure.wins = c.wins /\ c.result[y.lane] = Dnf
        /\ \A x \in rest : x.edit /\ x.by = p => c.result[x.lane] \in {Dnf, b.result[x.lane]}

LEMMA ScoresTally ==
    ASSUME TypeOK, RunIsLast, TallyInv, NoSelection, StartLanded, NEW p \in Panels,
           NEW done \in Outcome, NEW frames, Scores(p, done, frames), count'.runs = count.runs
    PROVE  TallyInv' /\ WinsMove
<1> DEFINE b == board[p]
<1>1. /\ Act(p, done, frames) /\ (\A f \in frames : f.kind = "stop")
      /\ b.run # 0 /\ done.board.run = b.run /\ Sound(done.board) /\ b.credited = LastCredit
      /\ (\A y \in done.edits : y.row.ms = Dnf /\ done.board.result[y.lane] = Dnf)
      /\ \A x \in rest : x.edit /\ x.by = p =>
           done.board.result[x.lane] \in {Dnf, b.result[x.lane]}
  BY DEF Scores
<1>2. \/ SameTally(b, done.board)
      \/ done.board.wins = Given(RemoveRunWin(b.wins, b.credited), done.board.credited)
  BY Kinds DEF Scores, Given, RemoveRunWin
<1> QED  BY <1>1, <1>2, ActTally

LEMMA StopScores ==
    ASSUME TypeOK, ClockInv, TallyInv, NEW p \in Panels, NEW lane \in Lanes, Stop(p, lane)
    PROVE  \E d \in Outcome : \E sent : Scores(p, d, sent)
<1>1. PICK ms \in Elapsed :
        Act(p, RecordFinish([board[p] EXCEPT !.frozen[lane] = ms], lane, NextRow(p, lane, ms)),
            {StopFrame(lane, ms)})
  BY DEF Stop
<1> DEFINE b == board[p]
           left == [b EXCEPT !.frozen[lane] = ms]
           row == NextRow(p, lane, ms)
           done == RecordFinish(left, lane, row)
           frames == {StopFrame(lane, ms)}
<1>2. b \in Board /\ count \in Counts /\ Sound(b)
  BY DEF TypeOK, TallyInv, BoardsSound
<1>3. /\ left \in Board /\ left.run = b.run /\ left.frozen = [b.frozen EXCEPT ![lane] = ms]
      /\ SameTally(b, left) /\ SameResults(b, left) /\ SameSides(b, left)
      /\ left.decided = b.decided
  BY <1>2, FrozenKeeps DEF Board, SameTally, SameResults, SameSides
<1>4. row \in Row /\ row.ms = ms /\ ms # 0
  BY NextRowType, Kinds DEF Result, NextRow
<1>5. /\ LaneLanded(lane) /\ OnlyLanesMove /\ b.run # 0 /\ b.frozen[lane] = 0
      /\ count'.runs = count.runs
  BY <1>2 DEF Stop, Judged, Runs, Counts
<1>6. NoSelection /\ StartLanded
  BY <1>5 DEF NoSelection, StartLanded, OnlyLanesMove
<1>7. /\ done \in Outcome /\ SameClocks(left, done.board) /\ done.edits = {}
      /\ \/ SameRace(left, done.board) /\ done.put = Keep
         \/ left.result[lane] = 0 /\ Recorded(left, done, lane, ms, left.wins)
  <2> HIDE DEF left, row
  <2>1. done \in Outcome /\ SameClocks(left, done.board) /\ done.edits = {}
    BY <1>3, <1>4, RecordFinishKeeps
  <2>2. \/ SameRace(left, done.board) /\ done.put = Keep
        \/ left.result[lane] = 0 /\ Recorded(left, done, lane, row.ms, left.wins)
    BY <1>3, <1>4, RecordFinishTally
  <2> QED  BY <1>4, <2>1, <2>2
<1>8. Act(p, done, frames)
  BY <1>1
<1>9. \A f \in frames : f.kind = "stop"
  BY DEF StopFrame
<1> HIDE DEF left, row, done, frames
<1>10. b.credited = LastCredit /\ LastCredit = 0 /\ MayScore(p)
  <2>1. b.credited = LastCredit /\ LastCredit = 0
    BY <1>5, RunningUnscored
  <2>2. \A q \in Panels : ~StartTo(q)
    BY <1>6 DEF StartLanded, StartTo
  <2> QED  BY <2>1, <2>2 DEF MayScore, TallyInv, CreditInv, CreditsAreTheLast
<1>11. /\ \A l \in Lanes : b.frozen[l] # 0 => done.board.frozen[l] # 0
       /\ done.board.frozen[lane] # 0 /\ done.board.run = b.run
  BY <1>2, <1>3, <1>4, <1>7 DEF SameClocks, Board
<1>12. ASSUME SameRace(left, done.board) /\ done.put = Keep  PROVE Scores(p, done, frames)
  <2>1. /\ SameTally(b, done.board) /\ SameResults(b, done.board) /\ SameSides(b, done.board)
        /\ done.board.decided = b.decided
    BY <1>3, <1>12 DEF SameRace, SameTally, SameResults, SameSides
  <2>2. Sound(done.board)
    BY <1>2, <1>11, <2>1, SoundStopped
  <2>3. \A l \in Lanes : done.board.result[l] = b.result[l]
    BY <2>1 DEF SameResults
  <2>4. \A x \in rest : x.edit => x.lane \in Lanes
    BY DEF TypeOK, Requests
  <2> QED
    BY <1>5, <1>7, <1>8, <1>9, <1>10, <1>11, <1>12, <2>1, <2>2, <2>3, <2>4 DEF Scores
<1>13. ASSUME left.result[lane] = 0 /\ Recorded(left, done, lane, ms, left.wins)
       PROVE  Scores(p, done, frames)
  <2>1. left.wins = b.wins /\ b.result[lane] = 0
    BY <1>3, <1>13 DEF SameTally, SameResults
  <2>2. Recorded(b, done, lane, ms, b.wins)
    BY <1>3, <1>13, <2>1, RecordedSame
  <2>3. ms \in Result /\ b.credited = 0
    BY <1>10 DEF Result
  <2>4. /\ Sound(done.board)
        /\ \/ SameTally(b, done.board) /\ Clinches(b, done, b.wins)
           \/ /\ done.board.credited \in Athletes
              /\ done.board.wins = AddRunWin(b.wins, done.board.credited)
              /\ Clinches(b, done, done.board.wins)
    BY <1>2, <1>5, <1>7, <1>11, <2>2, <2>3, SoundRecorded
  <2>5. \A x \in rest : x.edit /\ x.by = p => x.lane # lane /\ x.lane \in Lanes
    <3> SUFFICES ASSUME NEW x \in rest, x.edit, x.by = p  PROVE x.lane # lane /\ x.lane \in Lanes
      OBVIOUS
    <3>1. b.result[x.lane] = Dnf /\ Dnf # 0
      BY <1>5 DEF TallyInv, EditsAreDnfs, Dnf
    <3>2. x.lane \in Lanes
      BY DEF TypeOK, Requests
    <3> QED  BY <2>1, <3>1, <3>2
  <2>6. \A x \in rest : x.edit /\ x.by = p => done.board.result[x.lane] = b.result[x.lane]
    BY <1>2, <2>2, <2>5 DEF Recorded, Board
  <2> QED
    BY <1>5, <1>7, <1>8, <1>9, <1>10, <1>11, <2>3, <2>4, <2>6 DEF Scores
<1> QED  BY <1>7, <1>12, <1>13

LEMMA DnfedScores ==
    ASSUME TypeOK, ClockInv, TallyInv, PromptServer = TRUE, NEW p \in Panels,
           NEW lane \in Lanes, Dnfed(p, lane)
    PROVE  \E d \in Outcome : \E sent : Scores(p, d, sent)
<1> DEFINE b == board[p]
           done == RecordDnf(b, lane, NextRow(p, lane, Dnf))
<1>1. b \in Board /\ count \in Counts /\ Sound(b)
  BY DEF TypeOK, TallyInv, BoardsSound
<1>2. NextRow(p, lane, Dnf) \in Row /\ NextRow(p, lane, Dnf).ms = Dnf
  BY NextRowType DEF Result, NextRow
<1>3. /\ done \in Outcome /\ SameClocks(b, done.board)
      /\ \/ SameRace(b, done.board) /\ done.put = Keep
         \/ Recorded(b, done, lane, Dnf, b.wins)
      /\ \A y \in done.edits :
           /\ y.lane = lane /\ y.row.ms = Dnf /\ y.closure.wins = done.board.wins
           /\ done.board.result[lane] = Dnf
  BY <1>1, <1>2, RecordDnfKeeps, RecordDnfTally
<1>4. /\ OnlyLanesMove /\ b.run # 0 /\ MayScore(p)
      /\ \A x \in rest : x.by # p \/ x.lane # lane
  BY DEF Dnfed, Judged, LaneAnswered
<1>5. \/ Act(p, done, {}) /\ b.frozen[lane] # 0
      \/ /\ b.frozen[lane] = 0
         /\ \E ms \in Elapsed :
              Act(p, [done EXCEPT !.board.frozen[lane] = ms], {StopFrame(lane, ms)})
  BY <1>4 DEF Dnfed, Runs
<1>6. NoSelection /\ StartLanded
  BY <1>4 DEF NoSelection, StartLanded, OnlyLanesMove
<1>7. b.credited = LastCredit
  BY <1>4, <1>6, HoldsLast DEF TallyInv
<1> HIDE DEF done
\* Whatever is done with the clock of the lane.
<1>8. ASSUME NEW d \in Outcome, NEW frames, Act(p, d, frames), \A f \in frames : f.kind = "stop",
             d.board.run = b.run, SameTally(done.board, d.board), SameResults(done.board, d.board),
             SameSides(done.board, d.board), d.board.decided = done.board.decided,
             d.put = done.put, d.edits = done.edits,
             \A l \in Lanes : b.frozen[l] # 0 => d.board.frozen[l] # 0, d.board.frozen[lane] # 0
      PROVE  Scores(p, d, frames)
  <2>1. \A y \in d.edits :
          y.row.ms = Dnf /\ y.closure.wins = d.board.wins /\ d.board.result[y.lane] = Dnf
    BY <1>3, <1>8 DEF SameResults, SameTally
  <2>2. CASE SameRace(b, done.board) /\ done.put = Keep
    <3>1. /\ SameTally(b, d.board) /\ SameResults(b, d.board) /\ SameSides(b, d.board)
          /\ d.board.decided = b.decided
      BY <1>8, <2>2 DEF SameRace, SameTally, SameResults, SameSides
    <3>2. Sound(d.board)
      BY <1>1, <1>8, <3>1, SoundStopped
    <3>3. \A x \in rest : x.edit /\ x.by = p => d.board.result[x.lane] = b.result[x.lane]
      BY <3>1 DEF SameResults
    <3> QED  BY <1>4, <1>7, <1>8, <2>1, <2>2, <3>1, <3>2, <3>3 DEF Scores
  <2>3. CASE Recorded(b, done, lane, Dnf, b.wins)
    <3>1. Recorded(b, d, lane, Dnf, b.wins)
      <4>1. /\ d.board.run = done.board.run /\ d.board.result = done.board.result
            /\ d.board.tallied = done.board.tallied /\ d.board.decided = done.board.decided
            /\ d.board.wins = done.board.wins /\ d.board.credited = done.board.credited
            /\ d.board.seats = done.board.seats /\ d.board.fs = done.board.fs
        BY <1>3, <1>8 DEF SameClocks, SameTally, SameResults, SameSides
      <4>2. \A w : Clinches(b, done, w) => Clinches(b, d, w)
        BY <1>8, <4>1 DEF Clinches
      <4>3. Untimed(d.board) => Untimed(done.board)
        BY <4>1 DEF Untimed
      <4> QED  BY <2>3, <4>1, <4>2, <4>3 DEF Recorded, SameSides, SameTally
    <3>2. Dnf \in Result
      BY DEF Result
    <3>3. /\ Sound(d.board)
          /\ \/ SameTally(b, d.board) /\ Clinches(b, d, b.wins)
             \/ /\ b.credited = 0 /\ d.board.credited \in Athletes
                /\ d.board.wins = AddRunWin(b.wins, d.board.credited)
                /\ Clinches(b, d, d.board.wins)
      BY <1>1, <1>8, <3>1, <3>2, SoundRecorded
    <3>4. \A x \in rest : x.edit /\ x.by = p => d.board.result[x.lane] = b.result[x.lane]
      <4>1. \A x \in rest : x.edit /\ x.by = p => x.lane # lane /\ x.lane \in Lanes
        BY <1>4 DEF TypeOK, Requests
      <4> QED  BY <1>1, <3>1, <4>1 DEF Recorded, Board
    <3> QED  BY <1>4, <1>7, <1>8, <2>1, <3>3, <3>4 DEF Scores
  <2> QED  BY <1>3, <2>2, <2>3
<1>9. ASSUME Act(p, done, {}), b.frozen[lane] # 0  PROVE Scores(p, done, {})
  <2>1. SameTally(done.board, done.board) /\ SameResults(done.board, done.board)
        /\ SameSides(done.board, done.board)
    BY DEF SameTally, SameResults, SameSides
  <2>2. done.board.run = b.run /\ done.board.frozen = b.frozen
    BY <1>3 DEF SameClocks
  <2>3. \A f \in {} : f.kind = "stop"
    OBVIOUS
  <2> QED  BY <1>3, <1>8, <1>9, <2>1, <2>2, <2>3
<1>10. ASSUME b.frozen[lane] = 0, NEW ms \in Elapsed,
              Act(p, [done EXCEPT !.board.frozen[lane] = ms], {StopFrame(lane, ms)})
       PROVE  \E d \in Outcome : \E sent : Scores(p, d, sent)
  <2> DEFINE left == [done EXCEPT !.board.frozen[lane] = ms]
             c == [done.board EXCEPT !.frozen[lane] = ms]
  <2>1. left \in Outcome /\ left.board.run = b.run /\ left.board.frozen = [b.frozen EXCEPT ![lane] = ms]
    BY <1>3, StoppedAfterType DEF SameClocks
  <2>2. left = [done EXCEPT !.board = c]
    OBVIOUS
  <2>3. done.board \in Board
    BY <1>3 DEF Outcome
  <2>4. /\ SameTally(done.board, c) /\ SameResults(done.board, c)
        /\ SameSides(done.board, c) /\ c.decided = done.board.decided
    BY <2>3 DEF Board, SameTally, SameResults, SameSides
  <2> HIDE DEF c, left
  <2>5. left.board = c /\ left.put = done.put /\ left.edits = done.edits
    BY <1>3, <2>2 DEF Outcome
  <2>6. (\A l \in Lanes : b.frozen[l] # 0 => left.board.frozen[l] # 0) /\ left.board.frozen[lane] # 0
    BY <1>1, <2>1, Kinds DEF Board
  <2>7. \A f \in {StopFrame(lane, ms)} : f.kind = "stop"
    BY DEF StopFrame
  <2>8. Act(p, left, {StopFrame(lane, ms)})
    BY <1>10 DEF left
  <2>9. /\ SameTally(done.board, left.board) /\ SameResults(done.board, left.board)
        /\ SameSides(done.board, left.board) /\ left.board.decided = done.board.decided
    BY <2>4, <2>5
  <2> DEFINE frames == {StopFrame(lane, ms)}
  <2>10. Act(p, left, frames) /\ \A f \in frames : f.kind = "stop"
    BY <2>7, <2>8
  <2> HIDE DEF frames
  <2>11. Scores(p, left, frames)
    BY <1>8, <2>1, <2>5, <2>6, <2>9, <2>10
  <2> QED  BY <2>1, <2>11
<1> QED  BY <1>3, <1>5, <1>9, <1>10

LEMMA StopTally ==
    ASSUME TypeOK, ClockInv, TallyInv, NEW p \in Panels, NEW lane \in Lanes, Stop(p, lane)
    PROVE  TallyInv' /\ WinsMove
<1>1. NoSelection /\ StartLanded
  BY DEF Stop, Judged, OnlyLanesMove, NoSelection, StartLanded
<1>2. count'.runs = count.runs
  BY DEF Stop, TypeOK, Counts
<1> QED  BY <1>1, <1>2, StopScores, ScoresTally DEF ClockInv, RunInv

LEMMA DnfedTally ==
    ASSUME TypeOK, ClockInv, TallyInv, PromptServer = TRUE, NEW p \in Panels,
           NEW lane \in Lanes, Dnfed(p, lane)
    PROVE  TallyInv' /\ WinsMove
<1>1. NoSelection /\ StartLanded
  BY DEF Dnfed, Judged, OnlyLanesMove, NoSelection, StartLanded
<1>2. count'.runs = count.runs
  <2>1. Counted("dnfs").runs = count.runs /\ Counted("dnfs") \in Counts
    BY CountedType DEF TypeOK
  <2> QED  BY <2>1 DEF Dnfed, Counts
<1> QED  BY <1>1, <1>2, DnfedScores, ScoresTally DEF ClockInv, RunInv


LEMMA GoTally ==
    ASSUME TypeOK, ClockInv, TallyInv, PromptServer = TRUE, NEW p \in Panels, Go(p)
    PROVE  TallyInv' /\ WinsMove
<1> DEFINE b == board[p]
           r == count.runs
           c == OnRaceStart(b, r + 1)
           f == StartFrame(r + 1)
<1>1. /\ b \in Board /\ count \in Counts /\ r \in Nat /\ MaxRuns \in Nat /\ Sound(b)
      /\ ledger \in Ledgers
  BY RaceBoundsAssumption DEF TypeOK, Counts, TallyInv, BoardsSound, Ledgers
<1>2. r + 1 \in Nat
  BY <1>1
<1>3. /\ c \in Board /\ Sound(c) /\ c.run = r + 1 /\ c.wins = b.wins /\ c.credited = 0
  BY <1>1, <1>2, OnRaceStartKeeps, StartTally, SoundStarted
<1>4. /\ net = {} /\ rest = {} /\ b.run = 0 /\ r < MaxRuns /\ count'.runs = r + 1
      /\ Act(p, Done(c), {f})
  BY <1>1 DEF Go, Landed, Answered, Counts
<1> HIDE DEF c
<1>5. /\ Done(c) \in Outcome /\ Done(c).board = c /\ Done(c).edits = {}
      /\ f.kind = "start" /\ \A g \in {f} : g.kind # "selection"
  BY <1>3, DoneType DEF StartFrame
<1> HIDE DEF f, r
<1>6. /\ board' = [board EXCEPT ![p] = c] /\ Commit(p, Done(c)) /\ ledger' = ledger
  <2>1. Commit(p, Done(c)) /\ ledger' = Booked(b, c)
    BY <1>4, <1>5 DEF Act
  <2>2. b.run # c.run
    BY <1>1, <1>3, <1>4
  <2> QED  BY <1>5, <2>1, <2>2 DEF Commit, Booked
<1>7. board'[p] = c /\ \A q \in Panels : q # p => board'[q] = board[q]
  BY <1>6 DEF TypeOK
<1>8. Sends(p, c, {}, {f})
  BY <1>4, <1>5, ActSends
<1>9. /\ \A m \in net' : m.frame.kind \in {"start", "selection"}
      /\ \A q \in Panels : q # p => StartTo(q)'
  <2>1. board \in [Panels -> Board] /\ f \in {f}
    BY DEF TypeOK
  <2>2. /\ \A m \in net' : m.frame \in {f} \/ m.frame.kind = "selection"
        /\ \A q \in Panels : q # p => [to |-> q, frame |-> f] \in net'
    BY <1>4, <1>8, <2>1, SendsWhat
  <2> QED  BY <1>5, <2>2 DEF StartTo
<1>10. BoardsSound' /\ NoResumes'
  BY <1>3, <1>7, <1>9 DEF TallyInv, BoardsSound, NoResumes
<1>11. b.wins = Credits /\ NoSelection
  <2>1. NoSelection
    BY <1>4 DEF NoSelection
  <2> QED  BY <2>1, QuietShares DEF TallyInv
<1>12. Credits' = c.wins
  BY <1>3, <1>6, <1>11, CreditsKept
<1>13. CreditInv'
  <2>1. r + 1 \in 1..MaxRuns
    BY <1>1, <1>4
  <2>2. ledger[r + 1] = 0
    BY <1>1, <2>1 DEF TallyInv, CreditInv, RunsToComeUncredited, r
  <2>3. LastCredit' = 0
    BY <1>1, <1>4, <1>6, <2>2 DEF LastCredit
  <2>4. RunsToComeUncredited'
    <3>1. \A s \in 1..MaxRuns : s > r + 1 => s > r
      BY <1>1
    <3> QED  BY <1>1, <1>4, <1>6, <3>1 DEF TallyInv, CreditInv, RunsToComeUncredited, r
  <2>5. CreditsAreTheLast'
    BY <1>3, <1>7, <1>9 DEF CreditsAreTheLast
  <2>6. CreditHeldOnce'
    BY <1>9 DEF CreditHeldOnce
  <2> QED  BY <2>3, <2>4, <2>5, <2>6 DEF CreditInv, LastCreditHeld
<1>14. ShareInv'
  <2>1. b.seats[1] # b.seats[2] /\ c.seats[1] # c.seats[2]
    BY <1>1, <1>3 DEF Sound
  <2> QED  BY <1>3, <1>4, <1>5, <1>11, <1>12, <2>1, ActShares DEF TallyInv
<1>15. EditsAreDnfs'
  <2>1. \A x \in rest' : ~x.edit
    BY <1>4, <1>5, <1>6, CommitSends
  <2> QED  BY <2>1 DEF EditsAreDnfs
<1>16. WinsMove
  <2>1. r <= r + 1
    BY <1>1
  <2> QED  BY <1>4, <1>7, <1>12, <2>1 DEF WinsMove, r
<1> QED  BY <1>10, <1>13, <1>14, <1>15, <1>16 DEF TallyInv

\* An act that shows the others nothing new.
LEMMA UnsaidAct ==
    ASSUME TypeOK, TallyInv, NEW p \in Panels, NEW done \in Outcome, NEW frames,
           Act(p, done, frames), \A f \in frames : f.kind = "reset", count'.runs = count.runs,
           Sound(done.board), SameTally(board[p], done.board),
           SameSides(board[p], done.board), done.edits = {},
           done.board.run # 0 => SameRace(board[p], done.board)
    PROVE  TallyInv' /\ WinsMove
<1> DEFINE b == board[p]
           c == done.board
<1>1. /\ c \in Board /\ board' = [board EXCEPT ![p] = c] /\ Commit(p, done) /\ ledger' = Booked(b, c)
  BY DEF Outcome, Act, Commit
<1>2. View(c) = View(b)
  BY DEF View, SameSides, SameTally
<1>3. ledger' = ledger
  BY <1>1 DEF Booked, SameTally
<1>4. Says(p, c, frames)
  <2>1. \A f \in frames : f.kind # "selection"
    OBVIOUS
  <2> QED  BY <2>1, ActSays
<1>5. stamp' = stamp /\ (\A m \in net : m \in net') /\ \A m \in net' : m \in net \/ m.frame.kind = "reset"
  <2>1. stamp' = stamp /\ \A m \in net : m \in net'
    BY <1>2, <1>4 DEF Says
  <2>2. \A m \in net' : m.frame.kind = "selection" => m \in net
    BY <1>2, <1>4 DEF Says
  <2>3. \A m \in net' : m \in net \/ m.frame \in frames \/ m.frame.kind = "selection"
    BY <1>4 DEF Says
  <2> QED  BY <2>1, <2>2, <2>3
<1>6. \A x \in rest' : x.edit => x \in rest
  BY <1>1, CommitSends
<1>7. \A x \in rest : c.run # 0 => board[p].run # 0 /\ c.result[x.lane] \in {Dnf, board[p].result[x.lane]}
  BY DEF SameRace, SameClocks, SameResults
<1> HIDE DEF c
<1> QED  BY <1>1, <1>3, <1>5, <1>6, <1>7, QuietTally DEF c

LEMMA ResetTallyStep ==
    ASSUME TypeOK, TallyInv, NEW p \in Panels, Reset(p)
    PROVE  TallyInv' /\ WinsMove
<1> DEFINE b == board[p]
           c == OnReset(b)
<1>1. b \in Board /\ count \in Counts /\ Sound(b)
  BY DEF TypeOK, TallyInv, BoardsSound
<1>2. 0 \in Nat
  OBVIOUS
<1>3. c \in Board /\ c.run = 0 /\ Sound(c) /\ SameTally(b, c) /\ SameSides(b, c)
  BY <1>1, <1>2, OnResetKeeps, ResetTally, SoundStarted
<1>4. Act(p, Done(c), {ResetFrame}) /\ count'.runs = count.runs
  BY <1>1 DEF Reset, Counts
<1>5. \A f \in {ResetFrame} : f.kind = "reset"
  BY DEF ResetFrame
<1> HIDE DEF c
<1>6. Done(c) \in Outcome /\ Done(c).board = c /\ Done(c).edits = {}
  BY <1>3, DoneType
<1> QED  BY <1>3, <1>4, <1>5, <1>6, UnsaidAct

LEMMA RetryTally ==
    ASSUME TypeOK, TallyInv, NEW p \in Panels, NEW lane \in Lanes, Retry(p, lane)
    PROVE  TallyInv' /\ WinsMove
<1> DEFINE b == board[p]
           done == RetrySave(b, lane, count.posts + 1)
<1>1. b \in Board /\ count \in Counts /\ Sound(b) /\ count.posts + 1 \in Nat
  BY DEF TypeOK, TallyInv, BoardsSound, Counts
<1>2. Act(p, done, {}) /\ count'.runs = count.runs /\ b.chip[lane].failed # NoRow
  BY <1>1 DEF Retry, Counts
<1>3. done \in Outcome /\ done.edits = {}
  BY <1>1, <1>2, RetrySaveKeeps
<1>4. \A row \in Row, post \in Nat : SameRace(b, RetrySave(b, lane, post).board)
  BY <1>1, RepliesTally
<1>5. \E row \in Row : TRUE
  BY <1>1, <1>2 DEF Board, Chip, RowOrNone
<1>6. SameRace(b, done.board)
  BY <1>1, <1>4, <1>5
<1> HIDE DEF done
<1>7. Sound(done.board)
  BY <1>1, <1>6, SoundSame
<1>8. \A f \in {} : f.kind = "reset"
  OBVIOUS
<1> QED  BY <1>2, <1>3, <1>6, <1>7, <1>8, UnsaidAct DEF SameRace

\* A reply that moves no score.
LEMMA AnswerTally ==
    ASSUME TypeOK, TallyInv, NEW p \in Panels, NEW c \in Board, board' = [board EXCEPT ![p] = c],
           SameRace(board[p], c), stamp' = stamp, net' = net, ledger' = ledger,
           count'.runs = count.runs, rest' \subseteq rest
    PROVE  TallyInv' /\ WinsMove
<1>1. Sound(c)
  BY SoundSame DEF TallyInv, BoardsSound
<1>2. /\ \A q \in Panels, m \in net : Overrides(q, m) => m \in net'
      /\ \A m \in net : m.frame.kind = "start" => m \in net'
      /\ \A m \in net' : m \in net \/ m.frame.kind = "reset"
      /\ \A x \in rest' : x.edit => x \in rest
  OBVIOUS
<1>3. SameTally(board[p], c) /\ \A x \in rest : x.edit /\ x.by = p /\ c.run # 0 =>
        board[p].run # 0 /\ c.result[x.lane] \in {Dnf, board[p].result[x.lane]}
  BY DEF SameRace, SameClocks, SameResults
<1> QED  BY <1>1, <1>2, <1>3, QuietTally

LEMMA ReplyTally ==
    ASSUME TypeOK, TallyInv, NEW p \in Panels, Reply(p)
    PROVE  TallyInv' /\ WinsMove
<1>1. PICK x \in rest :
        /\ board' = [board EXCEPT ![p] = Saved(board[p], x.lane, x.gen, x.row).board] /\ ~x.edit
        /\ net' = net /\ stamp' = stamp /\ ledger' = ledger /\ count' = count /\ rest' = rest \ {x}
  BY DEF Reply
<1>2. x.lane \in Lanes /\ x.row \in Row /\ x.gen \in Nat /\ board[p] \in Board
  BY <1>1 DEF TypeOK, Requests
<1> DEFINE c == Saved(board[p], x.lane, x.gen, x.row).board
<1>3. c \in Board /\ SameRace(board[p], c)
  BY <1>2, SavedKeeps, RepliesTally
<1> HIDE DEF c
<1>4. board' = [board EXCEPT ![p] = c] /\ rest' \subseteq rest
  BY <1>1 DEF c
<1> QED  BY <1>1, <1>3, <1>4, AnswerTally

LEMMA RefuseTally ==
    ASSUME TypeOK, TallyInv, NEW p \in Panels, Refuse(p)
    PROVE  TallyInv' /\ WinsMove
<1>1. PICK x \in rest :
      /\ count' = count \/ count' = Counted("refused")
      /\ board' = [board EXCEPT ![p] =
                     IF x.edit THEN NotCorrected(board[p], x.lane, x.from).board
                     ELSE Refused(board[p], x.lane, x.gen, x.row).board]
      /\ net' = net /\ stamp' = stamp /\ ledger' = ledger /\ rest' = rest \ {x}
  BY DEF Refuse
<1>2. /\ x.lane \in Lanes /\ x.row \in Row /\ (x.edit => x.from \in Row) /\ (~x.edit => x.gen \in Nat)
      /\ board[p] \in Board /\ count \in Counts
  BY DEF TypeOK, Requests
<1> DEFINE c == IF x.edit THEN NotCorrected(board[p], x.lane, x.from).board
                ELSE Refused(board[p], x.lane, x.gen, x.row).board
<1>3. c \in Board /\ SameRace(board[p], c)
  <2>1. CASE x.edit
    BY <1>2, <2>1, NotCorrectedKeeps, RepliesTally
  <2>2. CASE ~x.edit
    BY <1>2, <2>2, RefusedKeeps, RepliesTally
  <2> QED  BY <2>1, <2>2
<1>4. board' = [board EXCEPT ![p] = c] /\ rest' \subseteq rest /\ count'.runs = count.runs
  BY <1>1, <1>2, CountedType
<1> HIDE DEF c
<1> QED  BY <1>1, <1>3, <1>4, AnswerTally

\* The reply to the PUT of a DNF records what is there, and the winner of its closure.
Answers(p, x, done) ==
    LET b == board[p]
        c == done.board
    IN  /\ x.by = p /\ x.edit /\ x.lane \in Lanes
        /\ board' = [board EXCEPT ![p] = c] /\ rest' = rest \ {x}
        /\ winner' = IF done.put = Keep THEN winner ELSE done.put
        /\ SameClocks(b, c) /\ SameTally(b, c) /\ SameSides(b, c) /\ Sound(c)
        /\ c.result = [b.result EXCEPT ![x.lane] = Dnf]
        /\ Clinches(b, done, x.closure.wins)
        /\ stamp' = stamp /\ net' = net /\ ledger' = ledger /\ count' = count

LEMMA EditAnswers ==
    ASSUME TypeOK, TallyInv, NEW p \in Panels, EditReply(p)
    PROVE  \E x \in rest : \E d \in Outcome : Answers(p, x, d)
<1>1. PICK x \in rest :
      /\ x.by = p /\ x.edit
      /\ LET done  == Corrected(board[p], x.lane, x.row, x.closure)
             moved == View(done.board) # View(board[p])
             claim == Minted(p, stamp[p], TRUE, 0)
         IN  /\ board' = [board EXCEPT ![p] = done.board]
             /\ stamp' = IF moved THEN [stamp EXCEPT ![p] = claim] ELSE stamp
             /\ net' = net \union Fanout(p, IF moved THEN {SelectionFrame(claim, done.board)} ELSE {})
             /\ ledger' = Booked(board[p], done.board)
             /\ winner' = IF done.put = Keep THEN winner ELSE done.put
      /\ rest' = rest \ {x} /\ count' = count
  BY DEF EditReply
<1> DEFINE b == board[p]
           done == Corrected(b, x.lane, x.row, x.closure)
           c == done.board
<1>2. /\ x.lane \in Lanes /\ x.row \in Row /\ x.closure \in Closures /\ b \in Board /\ Sound(b)
  BY <1>1 DEF TypeOK, Requests, Closures, Wins, Seats, TallyInv, BoardsSound
<1>3. x.row.ms = Dnf /\ (b.run # 0 => b.result[x.lane] = Dnf) /\ Dnf \in Result /\ Dnf # 0
  BY <1>1 DEF TallyInv, EditsAreDnfs, Result, Dnf
<1>4. done \in Outcome /\ SameClocks(b, c) /\ Recorded(b, done, x.lane, Dnf, x.closure.wins)
  BY <1>2, <1>3, CorrectedKeeps, CorrectedTally
<1>5. /\ board' = [board EXCEPT ![p] = c]
      /\ View(c) = View(b) => stamp' = stamp /\ net' = net
      /\ ledger' = Booked(b, c) /\ winner' = IF done.put = Keep THEN winner ELSE done.put
  <2> DEFINE claim == Minted(p, stamp[p], TRUE, 0)
             said == SelectionFrame(claim, c)
  <2>1. /\ board' = [board EXCEPT ![p] = c] /\ ledger' = Booked(b, c)
        /\ stamp' = IF View(c) # View(b) THEN [stamp EXCEPT ![p] = claim] ELSE stamp
        /\ net' = net \union Fanout(p, IF View(c) # View(b) THEN {said} ELSE {})
    BY <1>1
  <2>2. winner' = IF done.put = Keep THEN winner ELSE done.put
    BY <1>1
  <2> HIDE DEF c, claim, said, done
  <2>3. Fanout(p, {}) = {}
    BY DEF Fanout
  <2> QED  BY <2>1, <2>2, <2>3
<1> HIDE DEF done
<1>6. c \in Board
  BY <1>4 DEF Outcome
<1>7. c.result = [b.result EXCEPT ![x.lane] = Dnf] /\ c.run = b.run /\ SameSides(b, c)
  BY <1>4 DEF Recorded
<1>8. SameTally(b, c) /\ Clinches(b, done, x.closure.wins)
  <2>1. SUFFICES ASSUME ~b.tallied, \A l \in Lanes : c.result[l] # 0, ~Untimed(c)
                 PROVE  FALSE
    BY <1>4 DEF Recorded
  <2>2. CASE b.run # 0
    <3>1. c.result = b.result
      BY <1>2, <1>3, <1>7, <2>2 DEF Board
    <3> QED  BY <1>2, <2>1, <3>1 DEF Sound
  <2>3. CASE b.run = 0
    BY <1>2, <1>7, <2>1, <2>3 DEF Sound, Untimed, Board
  <2> QED  BY <2>2, <2>3
<1>9. View(c) = View(b) /\ ledger' = ledger
  BY <1>5, <1>7, <1>8 DEF View, SameSides, SameTally, Booked
<1>10. Sound(c)
  <2>1. b.run # 0 => c.frozen[x.lane] # 0
    BY <1>2, <1>3, <1>4 DEF Sound, SameClocks
  <2>2. \A l \in Lanes : b.frozen[l] # 0 => c.frozen[l] # 0
    BY <1>4 DEF SameClocks
  <2> QED  BY <1>2, <1>3, <1>4, <2>1, <2>2, SoundRecorded
<1>11. stamp' = stamp /\ net' = net /\ count' = count /\ rest' = rest \ {x}
  BY <1>1, <1>5, <1>9
<1>12. Answers(p, x, done)
  BY <1>1, <1>2, <1>4, <1>5, <1>7, <1>8, <1>9, <1>10, <1>11 DEF Answers
<1> QED  BY <1>4, <1>12

LEMMA EditReplyTally ==
    ASSUME TypeOK, TallyInv, NEW p \in Panels, EditReply(p)
    PROVE  TallyInv' /\ WinsMove
<1>1. PICK x \in rest, done \in Outcome : Answers(p, x, done)
  BY EditAnswers
<1> DEFINE b == board[p]
           c == done.board
<1>2. b \in Board /\ c \in Board
  BY DEF TypeOK, Outcome
<1>3. /\ x.by = p /\ x.edit /\ x.lane \in Lanes
      /\ board' = [board EXCEPT ![p] = c] /\ rest' = rest \ {x}
      /\ SameClocks(b, c) /\ SameTally(b, c) /\ Sound(c)
      /\ c.result = [b.result EXCEPT ![x.lane] = Dnf]
      /\ stamp' = stamp /\ net' = net /\ ledger' = ledger /\ count' = count
  BY <1>1 DEF Answers
<1>4. \A y \in rest : y.edit /\ y.by = p /\ c.run # 0 =>
        board[p].run # 0 /\ c.result[y.lane] \in {Dnf, board[p].result[y.lane]}
  <2>1. \A l \in Lanes : c.result[l] \in {Dnf, b.result[l]}
    BY <1>2, <1>3 DEF Board
  <2>2. \A y \in rest : y.lane \in Lanes
    BY DEF TypeOK, Requests
  <2> QED  BY <1>3, <2>1, <2>2 DEF SameClocks
<1> HIDE DEF c
<1>5. /\ \A q \in Panels, m \in net : Overrides(q, m) => m \in net'
      /\ \A m \in net : m.frame.kind = "start" => m \in net'
      /\ \A m \in net' : m \in net \/ m.frame.kind = "reset"
      /\ \A y \in rest' : y.edit => y \in rest
      /\ count'.runs = count.runs
  BY <1>3
<1> QED  BY <1>2, <1>3, <1>4, <1>5, QuietTally

\* What a delivered frame leaves: the board c, the stamp held and what is said again.
Hears(p, m, done, held) ==
    LET c == done.board
    IN  /\ board' = [board EXCEPT ![p] = c] /\ Commit(p, done)
        /\ stamp' = [stamp EXCEPT ![p] = held]
        /\ ledger' = IF m.frame.kind = "selection" THEN ledger ELSE Booked(board[p], c)
        /\ \A n \in net : n # m => n \in net'
        /\ \A n \in net' : n \in net \/ (View(c) # View(board[p])
                                         /\ n.frame = SelectionFrame(Restated(p, held), c))

LEMMA DeliverHears ==
    ASSUME TypeOK, NEW p \in Panels, Deliver(p)
    PROVE  \E m \in net :
             /\ m.to = p /\ m.frame \in Frames /\ Applied(p, m.frame) \in Outcome
             /\ Hears(p, m, Applied(p, m.frame),
                      IF m.frame.kind = "selection" /\ Outranks(m.frame.stamp, stamp[p])
                      THEN m.frame.stamp ELSE stamp[p])
             /\ count' = count
<1>1. PICK m \in net :
      /\ m.to = p
      /\ LET f     == m.frame
             done  == Applied(p, f)
             held  == IF f.kind = "selection" /\ Outranks(f.stamp, stamp[p])
                      THEN f.stamp ELSE stamp[p]
             echo  == IF View(done.board) = View(board[p]) THEN {}
                      ELSE {SelectionFrame(Restated(p, held), done.board)}
         IN  /\ Commit(p, done)
             /\ stamp' = [stamp EXCEPT ![p] = held]
             /\ net' = (net \ {m}) \union Fanout(p, echo)
             /\ times' = Without(times, done.drops)
             /\ ledger' = IF f.kind = "selection" THEN ledger
                          ELSE Booked(board[p], done.board)
      /\ UNCHANGED count
  BY DEF Deliver
<1> DEFINE f == m.frame
           done == Applied(p, f)
           held == IF f.kind = "selection" /\ Outranks(f.stamp, stamp[p]) THEN f.stamp ELSE stamp[p]
           again == SelectionFrame(Restated(p, held), done.board)
           echo == IF View(done.board) = View(board[p]) THEN {} ELSE {again}
<1>2. f \in Frames
  BY DEF TypeOK
<1>3. done \in Outcome
  BY <1>2, AppliedType
<1>4. /\ Commit(p, done) /\ stamp' = [stamp EXCEPT ![p] = held]
      /\ net' = (net \ {m}) \union Fanout(p, echo) /\ count' = count
      /\ ledger' = IF f.kind = "selection" THEN ledger ELSE Booked(board[p], done.board)
  BY <1>1
<1> HIDE DEF held, done, again
<1>5. \A n \in Fanout(p, echo) : View(done.board) # View(board[p]) /\ n.frame = again
  BY DEF Fanout
<1>6. board' = [board EXCEPT ![p] = done.board]
  BY <1>4 DEF Commit
<1>7. (\A n \in net : n # m => n \in net')
      /\ \A n \in net' : n \in net \/ (View(done.board) # View(board[p]) /\ n.frame = again)
  BY <1>4, <1>5
<1>8. Hears(p, m, done, held)
  BY <1>4, <1>6, <1>7 DEF Hears, again
<1> QED  BY <1>1, <1>2, <1>3, <1>4, <1>8 DEF done, held

\* A frame that shows the panel nothing new about the tally.
LEMMA UnheardTally ==
    ASSUME TypeOK, TallyInv, NEW p \in Panels, NEW m \in net, NEW c \in Board,
           Hears(p, m, Done(c), stamp[p]), count' = count,
           m.frame.kind # "start", ~Overrides(p, m), m.to = p,
           Sound(c), SameTally(board[p], c), SameSides(board[p], c),
           \A x \in rest : x.edit /\ x.by = p /\ c.run # 0 =>
             board[p].run # 0 /\ c.result[x.lane] \in {Dnf, board[p].result[x.lane]}
    PROVE  TallyInv' /\ WinsMove
<1>1. Done(c).board = c /\ Done(c).edits = {}
  BY DoneType
<1>2. View(c) = View(board[p])
  BY DEF View, SameSides, SameTally
<1>3. /\ board' = [board EXCEPT ![p] = c] /\ Commit(p, Done(c))
      /\ stamp' = [stamp EXCEPT ![p] = stamp[p]]
      /\ (\A n \in net : n # m => n \in net') /\ \A n \in net' : n \in net
  BY <1>1, <1>2 DEF Hears
<1>4. stamp' = stamp
  BY <1>3 DEF TypeOK
<1>5. ledger' = ledger
  BY <1>1 DEF Hears, Booked, SameTally
<1>6. \A x \in rest' : x.edit => x \in rest
  BY <1>1, <1>3, CommitSends
<1>7. \A q \in Panels, n \in net : Overrides(q, n) => n \in net'
  BY <1>3 DEF Overrides
<1>8. /\ \A n \in net : n.frame.kind = "start" => n \in net'
      /\ \A n \in net' : n \in net \/ n.frame.kind = "reset"
      /\ count'.runs = count.runs
  BY <1>3
<1> QED  BY <1>3, <1>4, <1>5, <1>6, <1>7, <1>8, QuietTally

\* A start is in: the panel is on the new run, with the tally it had.
LEMMA StartedTally ==
    ASSUME TypeOK, ClockInv, TallyInv, NEW p \in Panels, NEW m \in net,
           m.to = p, m.frame.kind = "start", m.frame.run \in Nat,
           Hears(p, m, Done(OnRaceStart(board[p], m.frame.run)), stamp[p]), count' = count
    PROVE  TallyInv' /\ WinsMove
<1> DEFINE b == board[p]
           c == OnRaceStart(b, m.frame.run)
<1>1. b \in Board /\ Sound(b)
  BY DEF TypeOK, TallyInv, BoardsSound
<1>2. /\ c \in Board /\ Sound(c) /\ c.run = m.frame.run /\ c.wins = b.wins /\ c.credited = 0
  BY <1>1, OnRaceStartKeeps, StartTally, SoundStarted
<1>3. m.frame.run > 0 /\ b.run = 0
  BY DEF ClockInv, RunInv, StartFindsReset
<1>4. ~StartLanded /\ StartTo(p)
  BY DEF StartLanded, StartTo
<1> HIDE DEF c
<1>5. Done(c).board = c /\ Done(c).edits = {}
  BY <1>2, DoneType
<1>6. /\ board' = [board EXCEPT ![p] = c] /\ Commit(p, Done(c))
      /\ stamp' = [stamp EXCEPT ![p] = stamp[p]]
      /\ ledger' = Booked(b, c)
      /\ \A n \in net : n # m => n \in net'
      /\ \A n \in net' : n \in net \/ n.frame = SelectionFrame(Restated(p, stamp[p]), c)
  BY <1>5 DEF Hears, c
<1>7. stamp' = stamp /\ ledger' = ledger
  <2>1. b.run # c.run
    BY <1>2, <1>3
  <2> QED  BY <1>6, <2>1 DEF TypeOK, Booked
<1>8. board'[p] = c /\ \A q \in Panels : q # p => board'[q] = board[q]
  BY <1>6 DEF TypeOK
<1>9. \A n \in net' : n.frame.kind # "selection" => n \in net
  BY <1>6, SaidView
<1>10. BoardsSound' /\ NoResumes'
  BY <1>2, <1>8, <1>9 DEF TallyInv, BoardsSound, NoResumes
<1>11. b.wins = Credits
  BY <1>4 DEF TallyInv, ShareInv, WinsAtStart
<1>12. \A q \in Panels : q # p => (StartTo(q)' <=> StartTo(q))
  BY <1>6, <1>9 DEF StartTo
<1>13. CreditInv'
  <2>1. LastCredit' = LastCredit
    BY <1>7 DEF LastCredit
  <2>2. RunsToComeUncredited'
    BY <1>7 DEF TallyInv, CreditInv, RunsToComeUncredited
  <2>3. CreditsAreTheLast'
    BY <1>2, <1>8, <1>12, <2>1 DEF TallyInv, CreditInv, CreditsAreTheLast
  <2>4. CreditHeldOnce'
    BY <1>2, <1>8, <1>12 DEF TallyInv, CreditInv, CreditHeldOnce
  <2>5. LastCreditHeld'
    BY <1>4, <1>8, <1>12, <2>1 DEF TallyInv, CreditInv, LastCreditHeld
  <2> QED  BY <2>2, <2>3, <2>4, <2>5 DEF CreditInv
<1>14. ShareInv'
  <2>1. \A q \in Panels, n \in net : Overrides(q, n) => n \in net'
    BY <1>6 DEF Overrides
  <2>2. ~StartLanded' => ~StartLanded
    BY <1>4
  <2>3. c.seats[1] # c.seats[2]
    BY <1>2 DEF Sound
  <2>4. Restated(p, stamp[p]).seq = stamp[p].seq /\ stamp[p].seq <= stamp[p].seq
    BY FrameStamps DEF Restated
  <2>5. \A n \in net' : n.frame.kind = "selection" =>
          \/ n \in net
          \/ /\ n.frame.view.seats[1] # n.frame.view.seats[2]
             /\ n.frame.view.wins = LaneRunWins(Credits, n.frame.view.seats)
             /\ \E q \in Panels : n.frame.stamp.seq <= stamp[q].seq
    <3> SUFFICES ASSUME NEW n \in net', n.frame = SelectionFrame(Restated(p, stamp[p]), c)
                 PROVE  /\ n.frame.view.seats[1] # n.frame.view.seats[2]
                        /\ n.frame.view.wins = LaneRunWins(Credits, n.frame.view.seats)
                        /\ n.frame.stamp.seq <= stamp[p].seq
      BY <1>6
    <3> QED  BY <1>2, <1>11, <2>3, <2>4, SaidView
  <2> QED  BY <1>2, <1>6, <1>7, <2>1, <2>2, <2>5, ShareStands DEF TallyInv
<1>15. EditsAreDnfs'
  <2>1. \A x \in rest' : x.edit => x \in rest
    BY <1>5, <1>6, CommitSends
  <2>2. \A x \in rest : ~x.edit
    BY <1>4 DEF TallyInv, EditsAreDnfs
  <2> QED  BY <2>1, <2>2 DEF EditsAreDnfs
<1>16. WinsMove
  BY <1>2, <1>8 DEF WinsMove, TypeOK, Counts
<1> QED  BY <1>10, <1>13, <1>14, <1>15, <1>16 DEF TallyInv

\* A selection that outranks the panel's is taken over.
LEMMA SelectedTally ==
    ASSUME TypeOK, TallyInv, NEW p \in Panels, NEW m \in net, Overrides(p, m),
           Hears(p, m, Done(ApplySelection(board[p], m.frame.view)), m.frame.stamp), count' = count
    PROVE  TallyInv' /\ WinsMove
<1> DEFINE b == board[p]
           c == ApplySelection(b, m.frame.view)
<1>1. b \in Board /\ Sound(b) /\ m.to = p /\ m.frame.kind = "selection"
  BY DEF TypeOK, TallyInv, BoardsSound, Overrides
<1>2. /\ m.frame.view \in Views /\ Credits \in Wins
      /\ m.frame.view.seats[1] # m.frame.view.seats[2]
      /\ m.frame.view.wins = LaneRunWins(Credits, m.frame.view.seats)
  BY <1>1, FrameStamps, CreditsWins DEF TallyInv, ShareInv, FramesFollow
<1>3. /\ c \in Board /\ SameClocks(b, c) /\ SameResults(b, c) /\ c.credited = b.credited
      /\ c.seats = m.frame.view.seats /\ c.wins = Credits
  BY <1>1, <1>2, ApplySelectionKeeps, ApplySelectionTally
<1> HIDE DEF c
<1>4. Done(c).board = c /\ Done(c).edits = {}
  BY <1>3, DoneType
<1>5. /\ board' = [board EXCEPT ![p] = c] /\ Commit(p, Done(c))
      /\ stamp' = [stamp EXCEPT ![p] = m.frame.stamp]
      /\ ledger' = ledger
      /\ \A n \in net : n # m => n \in net'
      /\ \A n \in net' : n \in net \/ n.frame = SelectionFrame(Restated(p, m.frame.stamp), c)
  BY <1>1, <1>4 DEF Hears, c
<1>6. board'[p] = c /\ \A q \in Panels : q # p => board'[q] = board[q]
  BY <1>5 DEF TypeOK
<1>7. Sound(c)
  BY <1>1, <1>2, <1>3, SoundStill
<1>8. \A n \in net' : n.frame.kind # "selection" => n \in net
  BY <1>5, SaidView
<1>9. \A q \in Panels : StartTo(q)' <=> StartTo(q)
  BY <1>1, <1>5, <1>8 DEF StartTo
<1>10. StartLanded' <=> StartLanded
  BY <1>1, <1>5, <1>8 DEF StartLanded
<1>11. BoardsSound' /\ NoResumes'
  BY <1>6, <1>7, <1>8 DEF TallyInv, BoardsSound, NoResumes
<1>12. CreditInv'
  BY <1>3, <1>5, <1>9, CreditStands DEF TallyInv
<1>13. ShareInv'
  <2>1. ~StartLanded' => ~StartLanded
    BY <1>10
  <2>2. \A n \in net' : n.frame.kind = "selection" =>
          n \in net \/ n.frame = SelectionFrame(Restated(p, m.frame.stamp), c)
    BY <1>5
  <2> QED  BY <1>3, <1>5, <2>1, <2>2, TakeShares DEF TallyInv
<1>14. EditsAreDnfs'
  <2>1. \A x \in rest' : x.edit => x \in rest
    BY <1>4, <1>5, CommitSends
  <2>2. \A x \in rest' : x.edit => StartLanded'
    BY <1>10, <2>1 DEF TallyInv, EditsAreDnfs
  <2>3. \A x \in rest : x.edit /\ x.by = p /\ c.run # 0 =>
          board[p].run # 0 /\ c.result[x.lane] \in {Dnf, board[p].result[x.lane]}
    BY <1>3 DEF SameClocks, SameResults
  <2> QED  BY <1>3, <1>5, <2>1, <2>2, <2>3, EditsKeep DEF TallyInv
<1>15. WinsMove
  <2>1. Credits' = Credits
    BY <1>5, CreditsKept
  <2> QED  BY <1>3, <1>6, <2>1 DEF WinsMove, TypeOK, Counts
<1> QED  BY <1>11, <1>12, <1>13, <1>14, <1>15 DEF TallyInv

LEMMA DeliverTally ==
    ASSUME TypeOK, ClockInv, TallyInv, NEW p \in Panels, Deliver(p)
    PROVE  TallyInv' /\ WinsMove
<1>1. PICK m \in net :
        /\ m.to = p /\ m.frame \in Frames /\ Applied(p, m.frame) \in Outcome
        /\ Hears(p, m, Applied(p, m.frame),
                 IF m.frame.kind = "selection" /\ Outranks(m.frame.stamp, stamp[p])
                 THEN m.frame.stamp ELSE stamp[p])
        /\ count' = count
  BY DeliverHears
<1> DEFINE b == board[p]
           f == m.frame
<1>2. b \in Board /\ Sound(b)
  BY DEF TypeOK, TallyInv, BoardsSound
<1>3. SameTally(b, b) /\ SameSides(b, b)
  BY DEF SameTally, SameSides
<1>4. CASE f.kind = "start"
  <2>1. Applied(p, f) = Done(OnRaceStart(b, f.run)) /\ f.run \in Nat
    BY <1>1, <1>4 DEF Applied, Frames
  <2>2. Hears(p, m, Done(OnRaceStart(b, f.run)), stamp[p])
    BY <1>1, <1>4, <2>1
  <2> QED  BY <1>1, <1>4, <2>1, <2>2, StartedTally
<1>5. CASE f.kind = "reset"
  <2> DEFINE c == OnReset(b)
  <2>1. Applied(p, f) = Done(c)
    BY <1>5 DEF Applied
  <2>2. 0 \in Nat
    OBVIOUS
  <2>3. c \in Board /\ c.run = 0 /\ Sound(c) /\ SameTally(b, c) /\ SameSides(b, c)
    BY <1>2, <2>2, OnResetKeeps, ResetTally, SoundStarted
  <2> HIDE DEF c
  <2>4. Hears(p, m, Done(c), stamp[p]) /\ ~Overrides(p, m)
    BY <1>1, <1>5, <2>1 DEF Overrides
  <2> QED  BY <1>1, <1>5, <2>3, <2>4, UnheardTally
<1>6. CASE f.kind = "stop" /\ b.run = 0
  <2>1. Hears(p, m, Done(b), stamp[p]) /\ ~Overrides(p, m)
    BY <1>1, <1>6 DEF Overrides, Applied
  <2> QED  BY <1>1, <1>2, <1>3, <1>6, <2>1, UnheardTally
<1>7. CASE f.kind = "stop" /\ b.run # 0
  <2> DEFINE left == [b EXCEPT !.frozen[f.lane] = f.ms]
             c == NotePeerFinish(left, f.lane, f.ms)
  <2>1. f.lane \in Lanes /\ f.ms \in Elapsed /\ Applied(p, f) = Done(c)
    BY <1>1, <1>7 DEF Frames, Applied
  <2>2. b.frozen[f.lane] = 0
    BY <1>1, <1>7 DEF ClockInv, LaneInv, StopFindsRunning
  <2>3. left \in Board /\ left.run = b.run /\ left.result = b.result
    BY <1>2, <2>1, FrozenKeeps
  <2>4. SameTally(b, left) /\ SameSides(b, left)
    BY <1>2 DEF Board, SameTally, SameSides
  <2>5. Sound(c)
    BY <1>2, <1>7, <2>1, <2>2, SoundNoted
  <2> HIDE DEF left
  <2>6. /\ c \in Board /\ SameClocks(left, c) /\ SameTally(left, c) /\ SameSides(left, c)
        /\ c.result = [left.result EXCEPT ![f.lane] = f.ms]
    BY <2>1, <2>3, NotePeerFinishKeeps, NotePeerFinishTally
  <2> HIDE DEF c
  <2>7. SameTally(b, c) /\ SameSides(b, c)
    BY <2>4, <2>6 DEF SameTally, SameSides
  <2>8. \A x \in rest : x.edit /\ x.by = p => c.result[x.lane] = b.result[x.lane]
    <3> SUFFICES ASSUME NEW x \in rest, x.edit, x.by = p  PROVE c.result[x.lane] = b.result[x.lane]
      OBVIOUS
    <3>1. x.lane \in Lanes
      BY DEF TypeOK, Requests
    <3>2. b.result[x.lane] = Dnf /\ Dnf # 0
      BY <1>7 DEF TallyInv, EditsAreDnfs, Dnf
    <3>3. b.frozen[x.lane] # 0
      BY <1>2, <1>7, <3>1, <3>2 DEF Sound
    <3>4. x.lane # f.lane
      BY <2>2, <3>3
    <3> QED  BY <1>2, <2>3, <2>6, <3>1, <3>4 DEF Board
  <2>9. Hears(p, m, Done(c), stamp[p]) /\ ~Overrides(p, m)
    BY <1>1, <1>7, <2>1 DEF Overrides
  <2>10. \A x \in rest : x.edit /\ x.by = p /\ c.run # 0 =>
           board[p].run # 0 /\ c.result[x.lane] \in {Dnf, board[p].result[x.lane]}
    BY <1>7, <2>8
  <2> QED  BY <1>1, <1>7, <2>5, <2>6, <2>7, <2>9, <2>10, UnheardTally
<1>8. f.kind # "resume"
  BY DEF TallyInv, NoResumes
<1>9. CASE f.kind = "selection" /\ Outranks(f.stamp, stamp[p])
  <2>1. Overrides(p, m)
    BY <1>1, <1>9 DEF Overrides
  <2>2. Hears(p, m, Done(ApplySelection(b, f.view)), f.stamp)
    BY <1>1, <1>9 DEF Applied
  <2> QED  BY <1>1, <2>1, <2>2, SelectedTally
<1>10. CASE f.kind = "selection" /\ ~Outranks(f.stamp, stamp[p])
  <2>1. Hears(p, m, Done(b), stamp[p]) /\ ~Overrides(p, m)
    BY <1>1, <1>10 DEF Overrides, Applied
  <2> QED  BY <1>1, <1>2, <1>3, <1>10, <2>1, UnheardTally
<1> QED  BY <1>1, <1>4, <1>5, <1>6, <1>7, <1>8, <1>9, <1>10 DEF Frames

\* One step keeps the tally in line with the ledger.
LEMMA TallyStep ==
    ASSUME UncorrectedSeries, TypeOK, ClockInv, TallyInv, Next
    PROVE  TallyInv' /\ WinsMove
<1>1. PICK p \in Panels :
        \/ Go(p) \/ Reset(p) \/ Void(p) \/ Swap(p) \/ Award(p)
        \/ \E lane \in Lanes :
             \/ Stop(p, lane) \/ Resume(p, lane) \/ Dnfed(p, lane)
             \/ Flag(p, lane) \/ Correct(p, lane) \/ Retry(p, lane)
        \/ Reply(p) \/ EditReply(p) \/ Refuse(p) \/ Deliver(p)
  BY DEF Next
<1>2. PromptServer = TRUE /\ RunIsLast
  BY DEF UncorrectedSeries, ClockInv, RunInv
<1>3. \A lane \in Lanes : ~Resume(p, lane) /\ ~Correct(p, lane)
  BY DEF TypeOK, Counts, Resume, Correct, Pressed, UncorrectedSeries
<1>4. CASE Go(p) \/ Reset(p) \/ Void(p) \/ Swap(p) \/ Award(p)
  BY <1>2, <1>4, GoTally, ResetTallyStep, VoidTally, SwapTally, AwardTally
<1>5. ASSUME NEW lane \in Lanes,
             Stop(p, lane) \/ Dnfed(p, lane) \/ Flag(p, lane) \/ Retry(p, lane)
      PROVE  TallyInv' /\ WinsMove
  BY <1>2, <1>5, StopTally, DnfedTally, FlagTally, RetryTally
<1>6. CASE Reply(p) \/ EditReply(p) \/ Refuse(p) \/ Deliver(p)
  BY <1>6, ReplyTally, EditReplyTally, RefuseTally, DeliverTally
<1> QED  BY <1>1, <1>3, <1>4, <1>5, <1>6

\* A match just picked has no run, no win and nothing in flight.
LEMMA TallyInit ==
    ASSUME Init
    PROVE  TallyInv
<1>1. /\ net = {} /\ rest = {} /\ count.runs = 0
      /\ \A q \in Panels : board[q] = FreshBoard /\ stamp[q] = InitialStamp
      /\ ledger = [r \in 1..MaxRuns |-> 0]
  BY DEF Init, NoCount
<1>2. /\ FreshBoard.run = 0 /\ FreshBoard.credited = 0 /\ FreshBoard.seats = FirstSeats
      /\ FreshBoard.wins = [a \in Athletes |-> 0]
      /\ \A l \in Lanes : FreshBoard.result[l] = 0
  BY FreshBoardType DEF FreshBoard, Both
<1>3. Sound(FreshBoard)
  BY <1>2, FirstSeatsDiffer DEF Sound, Untimed, Lanes
<1>4. Credits = [a \in Athletes |-> 0]
  <2>1. \A a \in Athletes : {r \in 1..MaxRuns : ledger[r] = a} = {}
    BY <1>1, Kinds
  <2> QED  BY <2>1, FS_EmptySet DEF Credits
<1>5. CreditInv
  <2>1. 0 <= MaxRuns
    BY RaceBoundsAssumption
  <2>2. LastCredit = 0
    BY <1>1 DEF LastCredit
  <2> QED
    BY <1>1, <1>2, <2>1, <2>2 DEF CreditInv, RunsToComeUncredited, CreditsAreTheLast,
                                  CreditHeldOnce, LastCreditHeld
<1>6. ShareInv
  <2>1. InitialStamp.seq <= InitialStamp.seq
    BY DEF InitialStamp
  <2> QED
    BY <1>1, <1>2, <1>4, <2>1 DEF ShareInv, FramesFollow, StampsFollow, WinsFollow, WinsAtStart
<1> QED  BY <1>1, <1>3, <1>5, <1>6 DEF TallyInv, BoardsSound, NoResumes, EditsAreDnfs

\* No tally holds more than the runs started.
WinsBounded == \A p \in Panels : Sum(board[p].wins) <= count.runs

LEMMA CreditsWithin ==
    ASSUME TypeOK, CreditInv
    PROVE  Sum(Credits) <= count.runs
<1>1. ledger \in Ledgers /\ count.runs \in Nat
  BY DEF TypeOK, Ledgers, Counts
<1>2. count.runs <= MaxRuns /\ \A r \in 1..MaxRuns : r > count.runs => ledger[r] = 0
  BY DEF CreditInv, RunsToComeUncredited
<1> QED  BY <1>1, <1>2, CreditsBounded, CreditsType

LEMMA SumType == \A wins \in Wins : Sum(wins) \in Nat
BY FirstSeatsDiffer DEF Sum, Wins, Seats, Lanes

LEMMA BoundedStep ==
    ASSUME TypeOK, TypeOK', TallyInv', WinsMove, WinsBounded
    PROVE  WinsBounded'
<1> SUFFICES ASSUME NEW q \in Panels  PROVE Sum(board'[q].wins) <= count'.runs
  BY DEF WinsBounded, Sum
<1>1. count.runs \in Nat /\ count'.runs \in Nat /\ count.runs <= count'.runs
  BY DEF TypeOK, Counts, WinsMove
<1>2. CASE board'[q].wins = board[q].wins
  <2>1. Sum(board[q].wins) \in Nat
    BY SumType DEF TypeOK, Board
  <2> QED  BY <1>1, <1>2, <2>1 DEF WinsBounded
<1>3. CASE board'[q].wins = Credits'
  <2>1. (TypeOK /\ CreditInv => Sum(Credits) <= count.runs)'
    BY CreditsWithin, PTL
  <2>2. Sum(Credits') <= count'.runs
    BY <2>1 DEF TallyInv, Sum
  <2> QED  BY <1>3, <2>2
<1> QED  BY <1>2, <1>3 DEF WinsMove

\* The tally of an uncorrected series stays in line throughout.
LEMMA TallyHolds ==
    ASSUME UncorrectedSeries
    PROVE  Spec => [](TallyInv /\ WinsBounded)
<1>1. Init => TallyInv /\ WinsBounded
  <2>1. SUFFICES ASSUME Init  PROVE WinsBounded
    BY TallyInit
  <2>2. \A q \in Panels : board[q].wins = [a \in Athletes |-> 0]
    BY <2>1 DEF Init, FreshBoard
  <2>3. count.runs = 0
    BY <2>1 DEF Init, NoCount
  <2> QED  BY <2>2, <2>3, FirstSeatsDiffer DEF WinsBounded, Sum, Seats, Lanes
<1>2. TallyInv /\ WinsBounded /\ UNCHANGED vars => (TallyInv /\ WinsBounded)'
  BY DEF vars, TallyInv, WinsBounded, BoardsSound, NoResumes, EditsAreDnfs, CreditInv,
         RunsToComeUncredited, CreditsAreTheLast, CreditHeldOnce, LastCreditHeld, LastCredit,
         ShareInv, FramesFollow, StampsFollow, WinsFollow, WinsAtStart, Overrides, Credits,
         StartLanded, StartTo
<1>3. TypeOK /\ TypeOK' /\ ClockInv /\ TallyInv /\ WinsBounded /\ [Next]_vars
        => (TallyInv /\ WinsBounded)'
  BY <1>2, TallyStep, BoundedStep
<1> QED  BY <1>1, <1>3, RaceTypeCorrect, ClocksHold, PTL DEF Spec

\* recordLaneResult scores a run when its second result is in, and the peers only note it:
\* where no lane is resumed and no saved Time corrected, no panel's tally ever holds more
\* run-wins than runs were started, whatever is voided, swapped, awarded or refused.
THEOREM RoomOneWinPerRun ==
    ASSUME UncorrectedSeries
    PROVE  Spec => []OneWinPerRun
<1>1. WinsBounded => OneWinPerRun
  BY DEF WinsBounded, OneWinPerRun
<1> QED  BY <1>1, TallyHolds, PTL

\* ... and the selection carries it: once no frame is in flight the tally of every panel is
\* what was credited and not undone, athlete by athlete.
THEOREM RoomTallyIsLedger ==
    ASSUME UncorrectedSeries
    PROVE  Spec => []TallyIsLedger
<1>1. TypeOK /\ TallyInv => TallyIsLedger
  <2>1. SUFFICES ASSUME TypeOK, TallyInv, Landed  PROVE \A p \in Panels : board[p].wins = Credits
    BY DEF TallyIsLedger
  <2>2. NoSelection
    BY <2>1 DEF Landed, NoSelection
  <2> QED  BY <2>1, <2>2, QuietShares DEF TallyInv
<1> QED  BY <1>1, TallyHolds, RaceTypeCorrect, PTL

-----------------------------------------------------------------------------
(* The winner on the Match.                                                *)

\* The winner of the credits standing is on the Match ...
MatchHasWinner == count.belated = 0 => winner = SeriesWinner(Credits)
\* ... a panel that holds the credit which clinched it knows so ...
ClinchIsKnown ==
    \A p \in Panels :
        /\ board[p].run # 0 /\ board[p].credited # 0
        /\ SeriesWinner(Credits) # 0
        /\ SeriesWinner(RemoveRunWin(Credits, board[p].credited)) = 0
        => board[p].decided # 0
\* ... and a PUT in flight closed over no win that was taken back.
EditsTrail == \A x \in rest : x.edit => \A a \in Athletes : x.closure.wins[a] <= Credits[a]

WinnerInv == MatchHasWinner /\ ClinchIsKnown /\ EditsTrail

LEMMA SeriesWinnerWhat ==
    ASSUME NEW w \in Wins
    PROVE  /\ SeriesWinner(w) # 0 => SeriesWinner(w) \in Athletes /\ w[SeriesWinner(w)] >= 2
           /\ SeriesWinner(w) = 0 => \A a \in Athletes : w[a] < 2
<1>1. CASE \E a \in Athletes : w[a] >= 2
  <2>1. SeriesWinner(w) = CHOOSE a \in Athletes : w[a] >= 2
    BY <1>1 DEF SeriesWinner
  <2>2. SeriesWinner(w) \in Athletes /\ w[SeriesWinner(w)] >= 2
    BY <1>1, <2>1
  <2> QED  BY <2>2, Kinds
<1>2. CASE ~\E a \in Athletes : w[a] >= 2
  <2>1. SeriesWinner(w) = 0
    BY <1>2 DEF SeriesWinner
  <2>2. \A a \in Athletes : w[a] \in Nat
    BY DEF Wins
  <2> QED  BY <1>2, <2>1, <2>2
<1> QED  BY <1>1, <1>2

\* A tally that has a winner keeps it as it grows, up to three wins.
LEMMA OneWinner ==
    ASSUME NEW v \in Wins, NEW w \in Wins, \A a \in Athletes : v[a] <= w[a]
    PROVE  /\ SeriesWinner(w) = 0 => SeriesWinner(v) = 0
           /\ Sum(w) <= 3 /\ SeriesWinner(v) # 0 => SeriesWinner(w) = SeriesWinner(v)
<1>1. \A a \in Athletes : v[a] \in Nat /\ w[a] \in Nat
  BY DEF Wins
<1>2. SeriesWinner(w) = 0 => SeriesWinner(v) = 0
  <2>1. SUFFICES ASSUME SeriesWinner(w) = 0, SeriesWinner(v) # 0  PROVE FALSE
    OBVIOUS
  <2> DEFINE a == SeriesWinner(v)
  <2>2. a \in Athletes /\ v[a] >= 2 /\ w[a] < 2
    BY <2>1, SeriesWinnerWhat
  <2> HIDE DEF a
  <2> QED  BY <1>1, <2>2
<1>3. ASSUME Sum(w) <= 3, SeriesWinner(v) # 0  PROVE SeriesWinner(w) = SeriesWinner(v)
  <2> DEFINE a == SeriesWinner(v)
             b == SeriesWinner(w)
             c == FirstSeats[1]
             d == FirstSeats[2]
  <2>1. a \in Athletes /\ v[a] >= 2
    BY <1>3, SeriesWinnerWhat
  <2>2. b \in Athletes /\ w[b] >= 2
    BY <1>2, <1>3, SeriesWinnerWhat
  <2>3. Athletes = {c, d} /\ c # d
    BY FirstSeatsDiffer, BothSeated
  <2>4. w[c] + w[d] <= 3
    BY <1>3 DEF Sum
  <2> HIDE DEF a, b, c, d
  <2>5. w[a] >= 2
    BY <1>1, <2>1
  <2>6. a = b
    BY <1>1, <2>1, <2>2, <2>3, <2>4, <2>5
  <2> QED  BY <2>6 DEF a, b
<1> QED  BY <1>2, <1>3

\* A win taken back, or given, is one less, or one more.
LEMMA TallyOrder ==
    ASSUME NEW w \in Wins
    PROVE  /\ \A a \in Athletes : \A x \in Athletes : w[x] <= AddRunWin(w, a)[x]
           /\ \A a \in AthleteOrNone : \A x \in Athletes : RemoveRunWin(w, a)[x] <= w[x]
<1>1. \A x \in Athletes : w[x] \in Nat
  BY DEF Wins
<1>2. ASSUME NEW a \in Athletes, NEW x \in Athletes  PROVE w[x] <= AddRunWin(w, a)[x]
  BY <1>1 DEF AddRunWin, Wins
<1>3. ASSUME NEW a \in AthleteOrNone, NEW x \in Athletes  PROVE RemoveRunWin(w, a)[x] <= w[x]
  BY <1>1 DEF RemoveRunWin, Wins
<1> QED  BY <1>2, <1>3

\* A press does not count as belated by itself.
LEMMA CountedBelated ==
    ASSUME count \in Counts,
           NEW what \in {"resumes", "voids", "swaps", "flags", "awards", "dnfs", "edits", "refused"}
    PROVE  Counted(what).belated = count.belated
<1> DEFINE names == {"runs", "resets", "resumes", "voids", "swaps", "flags", "awards", "dnfs",
                     "edits", "refused", "all", "posts", "belated"}
           c == [count EXCEPT ![what] = @ + 1, !["all"] = @ + 1]
<1>1. count \in [names -> Nat]
  BY DEF Counts
<1>2. c["belated"] = count["belated"]
  BY <1>1
<1>3. Counted(what) = c
  BY DEF Counted
<1> QED  BY <1>2, <1>3

\* The tally of a panel that acted is what the credits come to.
LEMMA ActCredits ==
    ASSUME TypeOK, TallyInv, TallyInv', NoSelection, NEW p \in Panels, NEW done \in Outcome,
           NEW frames, Act(p, done, frames), \A f \in frames : f.kind # "selection"
    PROVE  board[p].wins = Credits /\ Credits' = done.board.wins
<1>1. Says(p, done.board, frames)
  BY ActSays
<1>2. \A m \in net' : ~Overrides(p, m)'
  BY <1>1 DEF Says, NoSelection, Overrides
<1>3. board'[p].wins = Credits'
  BY <1>2 DEF TallyInv, ShareInv, WinsFollow
<1>4. board'[p] = done.board
  BY DEF Act, Commit, TypeOK
<1>5. board[p].wins = Credits
  BY QuietShares DEF TallyInv
<1> QED  BY <1>3, <1>4, <1>5

\* A step that moves no credit, and writes no winner but that of the credits.
LEMMA WinnerKept ==
    ASSUME TypeOK, WinnerInv, NEW p \in Panels, NEW c \in Board, board' = [board EXCEPT ![p] = c],
           ledger' = ledger, winner' \in {winner, SeriesWinner(Credits)},
           count'.belated = 0 => count.belated = 0,
           c.run # 0 /\ c.credited # 0 =>
             /\ board[p].run # 0 /\ c.credited = board[p].credited
             /\ SeriesWinner(Credits) # 0 => c.decided \in {board[p].decided, SeriesWinner(Credits)},
           \A x \in rest' : x.edit =>
             x \in rest \/ \A a \in Athletes : x.closure.wins[a] <= Credits[a]
    PROVE  WinnerInv'
<1>1. Credits' = Credits
  BY CreditsKept
<1>2. board'[p] = c /\ \A q \in Panels : q # p => board'[q] = board[q]
  BY DEF TypeOK
<1>3. MatchHasWinner'
  BY <1>1 DEF WinnerInv, MatchHasWinner
<1>4. ClinchIsKnown'
  BY <1>1, <1>2 DEF WinnerInv, ClinchIsKnown
<1>5. EditsTrail'
  BY <1>1 DEF WinnerInv, EditsTrail
<1> QED  BY <1>3, <1>4, <1>5 DEF WinnerInv

\* A step of the panel that holds the credit of the last run, or may take it.
LEMMA WinnerMoved ==
    ASSUME TypeOK, NEW p \in Panels, NEW c \in Board, board' = [board EXCEPT ![p] = c],
           \A q \in Panels : q # p => board[q].credited = 0,
           c.run # 0 /\ c.credited # 0 /\ SeriesWinner(Credits') # 0 => c.decided # 0,
           count'.belated = 0 => winner' = SeriesWinner(Credits'),
           \A x \in rest' : x.edit => \A a \in Athletes : x.closure.wins[a] <= Credits'[a]
    PROVE  WinnerInv'
<1>1. board'[p] = c /\ \A q \in Panels : q # p => board'[q] = board[q]
  BY DEF TypeOK
<1>2. ClinchIsKnown'
  BY <1>1 DEF ClinchIsKnown
<1> QED  BY <1>2 DEF WinnerInv, MatchHasWinner, EditsTrail

\* The credits standing are three at most in a series of three runs.
LEMMA ThreeAtMost ==
    ASSUME TypeOK, CreditInv, MaxRuns <= 3
    PROVE  Sum(Credits) <= 3
<1>1. Sum(Credits) <= count.runs /\ count.runs <= MaxRuns
  BY CreditsWithin DEF CreditInv, RunsToComeUncredited
<1>2. Sum(Credits) \in Nat /\ count.runs \in Nat /\ MaxRuns \in Nat
  BY SumType, CreditsWins, RaceBoundsAssumption DEF TypeOK, Counts
<1> QED  BY <1>1, <1>2

\* What a step commits of the Match and of the corrections.
LEMMA CommitWins ==
    ASSUME NEW p, NEW done, Commit(p, done)
    PROVE  /\ winner' = IF done.put = Keep THEN winner ELSE done.put
           /\ board' = [board EXCEPT ![p] = done.board]
           /\ \A x \in rest' : x.edit =>
                x \in rest \/ \E y \in done.edits : x.closure = y.closure
BY DEF Commit, Posted, Put

LEMMA CommitKeeps ==
    ASSUME TypeOK, WinnerInv, NEW p \in Panels, NEW done \in Outcome, Commit(p, done),
           ledger' = ledger, count'.belated = 0 => count.belated = 0,
           done.put \in {Keep, SeriesWinner(Credits)},
           done.board.run # 0 /\ done.board.credited # 0 =>
             /\ board[p].run # 0 /\ done.board.credited = board[p].credited
             /\ SeriesWinner(Credits) # 0 =>
                  done.board.decided \in {board[p].decided, SeriesWinner(Credits)},
           \A y \in done.edits : \A a \in Athletes : y.closure.wins[a] <= Credits[a]
    PROVE  WinnerInv'
<1> DEFINE c == done.board
<1>1. c \in Board
  BY DEF Outcome
<1>2. /\ board' = [board EXCEPT ![p] = c] /\ winner' \in {winner, SeriesWinner(Credits)}
      /\ \A x \in rest' : x.edit =>
           x \in rest \/ \A a \in Athletes : x.closure.wins[a] <= Credits[a]
  BY CommitWins
<1>3. c.run # 0 /\ c.credited # 0 =>
        /\ board[p].run # 0 /\ c.credited = board[p].credited
        /\ SeriesWinner(Credits) # 0 => c.decided \in {board[p].decided, SeriesWinner(Credits)}
  OBVIOUS
<1> HIDE DEF c
<1> QED  BY <1>1, <1>2, <1>3, WinnerKept

\* An act that leaves the Match, and the credit of the panel or its run.
LEMMA QuietWinner ==
    ASSUME TypeOK, WinnerInv, NEW p \in Panels, NEW c \in Board, NEW frames,
           Act(p, Done(c), frames), count'.belated = count.belated,
           \/ SameTally(board[p], c) /\ c.run = board[p].run /\ c.decided = board[p].decided
           \/ SameTally(board[p], c) /\ c.run = 0
           \/ c.credited = 0 /\ c.run # board[p].run
    PROVE  WinnerInv'
<1>1. /\ Done(c) \in Outcome /\ Done(c).board = c /\ Done(c).edits = {} /\ Done(c).put = Keep
  BY DoneType
<1>2. Commit(p, Done(c)) /\ ledger' = ledger
  BY <1>1 DEF Act, Booked, SameTally
<1>3. c.run # 0 /\ c.credited # 0 =>
        board[p].run # 0 /\ c.credited = board[p].credited /\ c.decided = board[p].decided
  BY DEF SameTally
<1> QED  BY <1>1, <1>2, <1>3, CommitKeeps

LEMMA GoWinner ==
    ASSUME TypeOK, WinnerInv, NEW p \in Panels, Go(p)
    PROVE  WinnerInv'
<1> DEFINE b == board[p]
           c == OnRaceStart(b, count.runs + 1)
<1>1. b \in Board /\ count \in Counts /\ count.runs + 1 \in Nat
  BY DEF TypeOK, Counts
<1>2. c \in Board /\ c.run = count.runs + 1 /\ c.credited = 0
  BY <1>1, OnRaceStartKeeps, StartTally
<1>3. /\ b.run = 0 /\ count'.belated = count.belated
      /\ Act(p, Done(c), {StartFrame(count.runs + 1)})
  BY <1>1 DEF Go, Counts
<1> HIDE DEF c
<1>4. c.run # b.run
  BY <1>1, <1>2, <1>3 DEF Counts
<1> QED  BY <1>2, <1>3, <1>4, QuietWinner

LEMMA ResetWinner ==
    ASSUME TypeOK, WinnerInv, NEW p \in Panels, Reset(p)
    PROVE  WinnerInv'
<1> DEFINE c == OnReset(board[p])
<1>1. board[p] \in Board /\ count \in Counts /\ 0 \in Nat
  BY DEF TypeOK
<1>2. c \in Board /\ c.run = 0 /\ SameTally(board[p], c)
  BY <1>1, OnResetKeeps, ResetTally
<1>3. count'.belated = count.belated /\ Act(p, Done(c), {ResetFrame})
  BY <1>1 DEF Reset, Counts
<1> HIDE DEF c
<1> QED  BY <1>2, <1>3, QuietWinner

LEMMA SwapWinner ==
    ASSUME TypeOK, WinnerInv, NEW p \in Panels, Swap(p)
    PROVE  WinnerInv'
<1> DEFINE c == SwapLanes(board[p])
<1>1. board[p] \in Board /\ count \in Counts
  BY DEF TypeOK
<1>2. c \in Board /\ c.run = board[p].run /\ SameTally(board[p], c) /\ c.decided = board[p].decided
  BY <1>1, SwapLanesKeeps, SwapLanesTally DEF SameClocks
<1>3. count'.belated = count.belated /\ Act(p, Done(c), {})
  BY <1>1, CountedBelated DEF Swap
<1> HIDE DEF c
<1> QED  BY <1>2, <1>3, QuietWinner

LEMMA FlagWinner ==
    ASSUME TypeOK, WinnerInv, NEW p \in Panels, NEW lane \in Lanes, Flag(p, lane)
    PROVE  WinnerInv'
<1> DEFINE b == board[p]
<1>1. b \in Board /\ count \in Counts
  BY DEF TypeOK
<1>2. /\ count'.belated = count.belated
      /\ Act(p, Done(FlagFs(b, lane)), {}) \/ Act(p, Done(ClearFs(b, lane)), {})
  BY <1>1, CountedBelated DEF Flag
<1>3. ASSUME NEW c \in Board, SameClocks(b, c), SameTally(b, c), c.decided = b.decided,
             Act(p, Done(c), {})
      PROVE  WinnerInv'
  BY <1>2, <1>3, QuietWinner DEF SameClocks
<1> QED  BY <1>1, <1>2, <1>3, FlagsKeep, FlagsTally

LEMMA RetryWinner ==
    ASSUME TypeOK, WinnerInv, NEW p \in Panels, NEW lane \in Lanes, Retry(p, lane)
    PROVE  WinnerInv'
<1> DEFINE b == board[p]
           done == RetrySave(b, lane, count.posts + 1)
<1>1. b \in Board /\ count \in Counts /\ count.posts + 1 \in Nat
  BY DEF TypeOK, Counts
<1>2. Act(p, done, {}) /\ count'.belated = count.belated /\ b.chip[lane].failed # NoRow
  BY <1>1 DEF Retry, Counts
<1>3. done \in Outcome /\ done.edits = {}
  BY <1>1, <1>2, RetrySaveKeeps
<1>4. \E row \in Row : TRUE
  BY <1>1, <1>2 DEF Board, Chip, RowOrNone
<1>5. SameRace(b, done.board)
  BY <1>1, <1>4, RepliesTally
<1>6. done.put = Keep
  BY DEF RetrySave, SaveTime, Done
<1> HIDE DEF done
<1>7. Commit(p, done) /\ ledger' = ledger
  BY <1>2, <1>5 DEF Act, Booked, SameRace, SameTally
<1>8. done.board.run = b.run /\ done.board.credited = b.credited /\ done.board.decided = b.decided
  BY <1>5 DEF SameRace, SameClocks, SameTally
<1> QED  BY <1>2, <1>3, <1>6, <1>7, <1>8, CommitKeeps

\* The replies that write no Match.
LEMMA AnswerWinner ==
    ASSUME TypeOK, WinnerInv, NEW p \in Panels, NEW c \in Board, board' = [board EXCEPT ![p] = c],
           SameRace(board[p], c), ledger' = ledger, winner' = winner,
           count'.belated = count.belated, rest' \subseteq rest
    PROVE  WinnerInv'
<1>1. c.run = board[p].run /\ c.credited = board[p].credited /\ c.decided = board[p].decided
  BY DEF SameRace, SameClocks, SameTally
<1>2. c.run # 0 /\ c.credited # 0 =>
        /\ board[p].run # 0 /\ c.credited = board[p].credited
        /\ SeriesWinner(Credits) # 0 => c.decided \in {board[p].decided, SeriesWinner(Credits)}
  BY <1>1
<1>3. \A x \in rest' : x.edit =>
        x \in rest \/ \A a \in Athletes : x.closure.wins[a] <= Credits[a]
  OBVIOUS
<1>4. winner' \in {winner, SeriesWinner(Credits)} /\ (count'.belated = 0 => count.belated = 0)
  OBVIOUS
<1> QED  BY <1>2, <1>3, <1>4, WinnerKept

LEMMA ReplyWinner ==
    ASSUME TypeOK, WinnerInv, NEW p \in Panels, Reply(p)
    PROVE  WinnerInv'
<1>1. PICK x \in rest :
        /\ board' = [board EXCEPT ![p] = Saved(board[p], x.lane, x.gen, x.row).board] /\ ~x.edit
        /\ winner' = winner /\ ledger' = ledger /\ count' = count /\ rest' = rest \ {x}
  BY DEF Reply
<1>2. x.lane \in Lanes /\ x.row \in Row /\ x.gen \in Nat /\ board[p] \in Board
  BY <1>1 DEF TypeOK, Requests
<1> DEFINE c == Saved(board[p], x.lane, x.gen, x.row).board
<1>3. c \in Board /\ SameRace(board[p], c)
  BY <1>2, SavedKeeps, RepliesTally
<1> HIDE DEF c
<1>4. board' = [board EXCEPT ![p] = c] /\ rest' \subseteq rest
  BY <1>1 DEF c
<1> QED  BY <1>1, <1>3, <1>4, AnswerWinner

LEMMA RefuseWinner ==
    ASSUME TypeOK, WinnerInv, NEW p \in Panels, Refuse(p)
    PROVE  WinnerInv'
<1>1. PICK x \in rest :
      /\ count' = count \/ count' = Counted("refused")
      /\ board' = [board EXCEPT ![p] =
                     IF x.edit THEN NotCorrected(board[p], x.lane, x.from).board
                     ELSE Refused(board[p], x.lane, x.gen, x.row).board]
      /\ winner' = winner /\ ledger' = ledger /\ rest' = rest \ {x}
  BY DEF Refuse
<1>2. /\ x.lane \in Lanes /\ x.row \in Row /\ (x.edit => x.from \in Row) /\ (~x.edit => x.gen \in Nat)
      /\ board[p] \in Board /\ count \in Counts
  BY DEF TypeOK, Requests
<1> DEFINE c == IF x.edit THEN NotCorrected(board[p], x.lane, x.from).board
                ELSE Refused(board[p], x.lane, x.gen, x.row).board
<1>3. c \in Board /\ SameRace(board[p], c)
  <2>1. CASE x.edit
    BY <1>2, <2>1, NotCorrectedKeeps, RepliesTally
  <2>2. CASE ~x.edit
    BY <1>2, <2>2, RefusedKeeps, RepliesTally
  <2> QED  BY <2>1, <2>2
<1>4. board' = [board EXCEPT ![p] = c] /\ rest' \subseteq rest /\ count'.belated = count.belated
  BY <1>1, <1>2, CountedBelated
<1> HIDE DEF c
<1> QED  BY <1>1, <1>3, <1>4, AnswerWinner

\* A correction in flight closed over a tally that only grew: its winner is that of the credits.
LEMMA EditReplyWinner ==
    ASSUME TypeOK, TallyInv, WinnerInv, MaxRuns <= 3, NEW p \in Panels, EditReply(p)
    PROVE  WinnerInv'
<1>1. PICK x \in rest, done \in Outcome : Answers(p, x, done)
  BY EditAnswers
<1> DEFINE b == board[p]
           c == done.board
           v == x.closure.wins
<1>2. /\ x.edit /\ board' = [board EXCEPT ![p] = c] /\ rest' = rest \ {x}
      /\ winner' = IF done.put = Keep THEN winner ELSE done.put
      /\ c.run = b.run /\ c.credited = b.credited
      /\ Clinches(b, done, v) /\ ledger' = ledger /\ count' = count
  BY <1>1 DEF Answers, SameClocks, SameTally
<1>3. v \in Wins /\ Credits \in Wins /\ c \in Board
  BY <1>2, CreditsWins DEF TypeOK, Requests, Wins, Outcome
<1>4. \A a \in Athletes : v[a] <= Credits[a]
  BY <1>2 DEF WinnerInv, EditsTrail
<1>5. Sum(Credits) <= 3
  BY ThreeAtMost DEF TallyInv
<1>6. SeriesWinner(v) # 0 => SeriesWinner(Credits) = SeriesWinner(v)
  BY <1>3, <1>4, <1>5, OneWinner
<1>7. winner' \in {winner, SeriesWinner(Credits)} /\ c.decided \in {b.decided, SeriesWinner(Credits)}
  BY <1>2, <1>6 DEF Clinches
<1>8. /\ count'.belated = 0 => count.belated = 0
      /\ \A y \in rest' : y.edit =>
           y \in rest \/ \A a \in Athletes : y.closure.wins[a] <= Credits[a]
      /\ c.run # 0 /\ c.credited # 0 =>
           /\ board[p].run # 0 /\ c.credited = board[p].credited
           /\ SeriesWinner(Credits) # 0 => c.decided \in {board[p].decided, SeriesWinner(Credits)}
  BY <1>2, <1>7
<1> HIDE DEF c
<1> QED  BY <1>2, <1>3, <1>7, <1>8, WinnerKept

\* A frame writes no Match.
LEMMA HeardWinner ==
    ASSUME TypeOK, WinnerInv, NEW p \in Panels, NEW m \in net, NEW c \in Board, NEW held,
           Hears(p, m, Done(c), held), count' = count,
           m.frame.kind = "selection" \/ c.run # board[p].run \/ c.credited = board[p].credited,
           c.run # 0 /\ c.credited # 0 =>
             board[p].run # 0 /\ c.credited = board[p].credited /\ c.decided = board[p].decided
    PROVE  WinnerInv'
<1>1. Done(c) \in Outcome /\ Done(c).board = c /\ Done(c).edits = {} /\ Done(c).put = Keep
  BY DoneType
<1>2. Commit(p, Done(c)) /\ ledger' = ledger
  BY <1>1 DEF Hears, Booked
<1> QED  BY <1>1, <1>2, CommitKeeps

LEMMA DeliverWinner ==
    ASSUME TypeOK, ClockInv, TallyInv, WinnerInv, NEW p \in Panels, Deliver(p)
    PROVE  WinnerInv'
<1>1. PICK m \in net :
        /\ m.to = p /\ m.frame \in Frames /\ Applied(p, m.frame) \in Outcome
        /\ Hears(p, m, Applied(p, m.frame),
                 IF m.frame.kind = "selection" /\ Outranks(m.frame.stamp, stamp[p])
                 THEN m.frame.stamp ELSE stamp[p])
        /\ count' = count
  BY DeliverHears
<1> DEFINE b == board[p]
           f == m.frame
           held == IF f.kind = "selection" /\ Outranks(f.stamp, stamp[p]) THEN f.stamp ELSE stamp[p]
<1>2. b \in Board /\ Hears(p, m, Applied(p, f), held)
  BY <1>1 DEF TypeOK
<1> HIDE DEF held
<1>3. ASSUME NEW c, Applied(p, f) = Done(c), c.run = b.run, c.credited = b.credited,
             c.decided = b.decided
      PROVE  WinnerInv'
  <2>1. c \in Board
    BY <1>1, <1>3 DEF Outcome, Done
  <2>2. Hears(p, m, Done(c), held)
    BY <1>2, <1>3
  <2> QED  BY <1>1, <1>3, <2>1, <2>2, HeardWinner
<1>4. CASE f.kind = "start"
  <2> DEFINE c == OnRaceStart(b, f.run)
  <2>1. Applied(p, f) = Done(c) /\ f.run \in Nat
    BY <1>1, <1>4 DEF Applied, Frames
  <2>2. c \in Board /\ c.run = f.run /\ c.credited = 0
    BY <1>2, <2>1, OnRaceStartKeeps, StartTally
  <2>3. f.run > 0 /\ b.run = 0
    BY <1>1, <1>4 DEF ClockInv, RunInv, StartFindsReset
  <2> HIDE DEF c
  <2>4. Hears(p, m, Done(c), held)
    BY <1>2, <2>1
  <2> QED  BY <1>1, <2>1, <2>2, <2>3, <2>4, HeardWinner
<1>5. CASE f.kind = "reset"
  <2> DEFINE c == OnReset(b)
  <2>1. Applied(p, f) = Done(c) /\ 0 \in Nat
    BY <1>5 DEF Applied
  <2>2. c \in Board /\ c.run = 0 /\ c.credited = b.credited
    BY <1>2, <2>1, OnResetKeeps, ResetTally DEF SameTally
  <2> HIDE DEF c
  <2>3. Hears(p, m, Done(c), held)
    BY <1>2, <2>1
  <2> QED  BY <1>1, <2>2, <2>3, HeardWinner
<1>6. CASE f.kind = "stop" /\ b.run = 0
  <2>1. Applied(p, f) = Done(b)
    BY <1>6 DEF Applied
  <2> QED  BY <1>3, <2>1
<1>7. CASE f.kind = "stop" /\ b.run # 0
  <2> DEFINE left == [b EXCEPT !.frozen[f.lane] = f.ms]
             c == NotePeerFinish(left, f.lane, f.ms)
  <2>1. f.lane \in Lanes /\ f.ms \in Elapsed /\ Applied(p, f) = Done(c)
    BY <1>1, <1>7 DEF Frames, Applied
  <2>2. /\ left \in Board /\ left.run = b.run /\ left.credited = b.credited
        /\ left.decided = b.decided
    BY <1>2, <2>1, FrozenKeeps DEF Board
  <2> HIDE DEF left
  <2>3. SameClocks(left, c) /\ SameTally(left, c) /\ c.decided = left.decided
    BY <2>1, <2>2, NotePeerFinishTally
  <2> HIDE DEF c
  <2> QED  BY <1>3, <2>1, <2>2, <2>3 DEF SameClocks, SameTally
<1>8. f.kind # "resume"
  BY <1>1 DEF TallyInv, NoResumes
<1>9. CASE f.kind = "selection"
  <2> DEFINE c == ApplySelection(b, f.view)
  <2>1. Applied(p, f) = Done(c) \/ Applied(p, f) = Done(b)
    BY <1>9 DEF Applied
  <2>2. c.run = b.run /\ c.credited = b.credited /\ c.decided = b.decided
    BY <1>2 DEF ApplySelection, Board
  <2> HIDE DEF c
  <2> QED  BY <1>3, <2>1, <2>2
<1> QED  BY <1>1, <1>4, <1>5, <1>6, <1>7, <1>8, <1>9 DEF Frames

\* A run that is scored puts the winner it makes on the Match.
LEMMA ScoresWinner ==
    ASSUME TypeOK, TallyInv, TallyInv', WinnerInv, NoSelection, NEW p \in Panels,
           NEW done \in Outcome, NEW frames, Scores(p, done, frames),
           count'.belated = count.belated
    PROVE  WinnerInv'
<1> DEFINE b == board[p]
           c == done.board
<1>1. /\ Act(p, done, frames) /\ (\A f \in frames : f.kind = "stop")
      /\ b.run # 0 /\ c.run = b.run /\ MayScore(p)
      /\ \A y \in done.edits : y.closure.wins = c.wins
  BY DEF Scores
<1>2. b.wins = Credits /\ Credits' = c.wins
  <2>1. \A f \in frames : f.kind # "selection"
    BY <1>1
  <2> QED  BY <1>1, <2>1, ActCredits
<1>3. /\ c \in Board /\ Commit(p, done) /\ ledger' = Booked(b, c)
      /\ Credits \in Wins /\ c.wins \in Wins
  BY <1>1, CreditsWins DEF Act, Outcome, Board
<1>4. /\ winner' = IF done.put = Keep THEN winner ELSE done.put
      /\ board' = [board EXCEPT ![p] = c]
      /\ \A x \in rest' : x.edit =>
           x \in rest \/ \E y \in done.edits : x.closure = y.closure
  BY <1>3, CommitWins
<1>5. \/ /\ SameTally(b, c)
         /\ (done.put = Keep /\ c.decided = b.decided) \/ Clinches(b, done, b.wins)
      \/ /\ c.credited \in Athletes /\ c.wins = AddRunWin(b.wins, c.credited)
         /\ Clinches(b, done, c.wins)
  BY DEF Scores
<1> HIDE DEF c
<1>6. ASSUME SameTally(b, c), (done.put = Keep /\ c.decided = b.decided) \/ Clinches(b, done, b.wins)
      PROVE  WinnerInv'
  <2>1. ledger' = ledger
    BY <1>3, <1>6 DEF Booked, SameTally
  <2>2. /\ done.put \in {Keep, SeriesWinner(Credits)}
        /\ c.credited = b.credited /\ c.decided \in {b.decided, SeriesWinner(Credits)}
    BY <1>2, <1>6 DEF Clinches, SameTally, c
  <2>3. \A y \in done.edits : \A a \in Athletes : y.closure.wins[a] <= Credits[a]
    <3>1. c.wins = Credits
      BY <1>2, <1>6 DEF SameTally
    <3>2. \A a \in Athletes : Credits[a] <= Credits[a]
      BY <1>3 DEF Wins
    <3> QED  BY <1>1, <3>1, <3>2
  <2>4. c.run # 0 /\ c.credited # 0 =>
          /\ board[p].run # 0 /\ c.credited = board[p].credited
          /\ SeriesWinner(Credits) # 0 => c.decided \in {board[p].decided, SeriesWinner(Credits)}
    BY <1>1, <2>2
  <2>5. count'.belated = 0 => count.belated = 0
    OBVIOUS
  <2> QED  BY <1>3, <2>1, <2>2, <2>3, <2>4, <2>5, CommitKeeps DEF c
<1>7. ASSUME c.credited \in Athletes, c.wins = AddRunWin(b.wins, c.credited), Clinches(b, done, c.wins)
      PROVE  WinnerInv'
  <2>1. \A a \in Athletes : Credits[a] <= c.wins[a]
    BY <1>2, <1>3, <1>7, TallyOrder
  <2>2. SeriesWinner(c.wins) = 0 => SeriesWinner(Credits) = 0
    BY <1>3, <2>1, OneWinner
  <2>3. SeriesWinner(c.wins) # 0 => SeriesWinner(c.wins) # Keep
    BY <1>3, SeriesWinnerWhat, Kinds DEF Keep
  <2>4. count'.belated = 0 => winner' = SeriesWinner(Credits')
    BY <1>2, <1>4, <1>7, <2>2, <2>3 DEF WinnerInv, MatchHasWinner, Clinches
  <2>5. \A x \in rest' : x.edit => \A a \in Athletes : x.closure.wins[a] <= Credits'[a]
    <3> SUFFICES ASSUME NEW x \in rest', x.edit, NEW a \in Athletes
                 PROVE  x.closure.wins[a] <= c.wins[a]
      BY <1>2
    <3>1. Credits[a] \in Nat /\ c.wins[a] \in Nat /\ Credits[a] <= c.wins[a]
      BY <1>3, <2>1 DEF Wins
    <3>2. CASE x \in rest
      <4>1. x.closure.wins[a] <= Credits[a] /\ x.closure.wins[a] \in Nat
        BY <3>2 DEF WinnerInv, EditsTrail, TypeOK, Requests
      <4> QED  BY <3>1, <4>1
    <3>3. CASE \E y \in done.edits : x.closure = y.closure
      BY <1>1, <3>1, <3>3
    <3> QED  BY <1>4, <3>2, <3>3
  <2>6. \A q \in Panels : q # p => board[q].credited = 0
    BY <1>1 DEF MayScore
  <2>7. c.run # 0 /\ c.credited # 0 /\ SeriesWinner(Credits') # 0 => c.decided # 0
    BY <1>2, <1>7 DEF Clinches, c
  <2> QED  BY <1>3, <1>4, <2>4, <2>5, <2>6, <2>7, WinnerMoved
<1> QED  BY <1>5, <1>6, <1>7

LEMMA StopWinner ==
    ASSUME TypeOK, ClockInv, TallyInv, TallyInv', WinnerInv, NEW p \in Panels, NEW lane \in Lanes,
           Stop(p, lane)
    PROVE  WinnerInv'
<1>1. NoSelection
  BY DEF Stop, Judged, OnlyLanesMove, NoSelection
<1>2. count'.belated = count.belated
  BY DEF Stop, TypeOK, Counts
<1> QED  BY <1>1, <1>2, StopScores, ScoresWinner

LEMMA DnfedWinner ==
    ASSUME TypeOK, ClockInv, TallyInv, TallyInv', WinnerInv, PromptServer = TRUE,
           NEW p \in Panels, NEW lane \in Lanes, Dnfed(p, lane)
    PROVE  WinnerInv'
<1>1. NoSelection
  BY DEF Dnfed, Judged, OnlyLanesMove, NoSelection
<1>2. count'.belated = count.belated
  <2>1. Counted("dnfs").belated = count.belated /\ Counted("dnfs") \in Counts
    BY CountedBelated, CountedType DEF TypeOK
  <2> QED  BY <2>1 DEF Dnfed, Counts
<1> QED  BY <1>1, <1>2, DnfedScores, ScoresWinner

\* A void clears the winner its run had clinched.
LEMMA VoidWinner ==
    ASSUME TypeOK, TallyInv, TallyInv', WinnerInv, MaxRuns <= 3, PromptServer = TRUE,
           NEW p \in Panels, Void(p)
    PROVE  WinnerInv'
<1> DEFINE b == board[p]
           done == VoidRun(b)
           c == done.board
<1>1. b \in Board /\ count \in Counts
  BY DEF TypeOK
<1>2. /\ done \in Outcome /\ c.run = b.run /\ done.edits = {}
      /\ c.credited = 0 /\ c.wins = RemoveRunWin(b.wins, b.credited)
      /\ done.put = IF b.decided # 0 /\ SeriesWinner(c.wins) = 0 THEN 0 ELSE Keep
  BY <1>1, VoidRunKeeps, VoidRunTally DEF Voided, Cleared, SameClocks
<1>3. /\ Act(p, done, {}) /\ NoSelection /\ StartLanded /\ \A x \in rest : ~x.edit
  BY DEF Void, Landed, Corrections, NoSelection, StartLanded
<1>4. count'.belated = 0 => count.belated = 0 /\ b.run # 0
  <2> DEFINE v == Counted("voids")
  <2>1. v \in Counts /\ v.belated = count.belated
    BY <1>1, CountedType, CountedBelated
  <2>2. count' = [v EXCEPT !.belated = IF b.run = 0 THEN @ + 1 ELSE @]
    BY DEF Void
  <2> HIDE DEF v
  <2>3. count.belated \in Nat
    BY <1>1 DEF Counts
  <2> QED  BY <2>1, <2>2, <2>3 DEF Counts
<1> HIDE DEF done
<1>5. b.wins = Credits /\ Credits' = c.wins
  <2>1. \A f \in {} : f.kind # "selection"
    OBVIOUS
  <2> QED  BY <1>2, <1>3, <2>1, ActCredits
<1>6. /\ c \in Board /\ Commit(p, done) /\ ledger' = Booked(b, c)
      /\ Credits \in Wins /\ c.wins \in Wins /\ b.credited \in AthleteOrNone
  BY <1>1, <1>2, <1>3, CreditsWins DEF Act, Outcome, Board
<1>7. /\ winner' = IF done.put = Keep THEN winner ELSE done.put
      /\ board' = [board EXCEPT ![p] = c]
      /\ \A x \in rest' : ~x.edit
  BY <1>2, <1>3, <1>6, CommitWins
<1>8. SeriesWinner(c.wins) # 0 => SeriesWinner(Credits) = SeriesWinner(c.wins)
  <2>1. \A a \in Athletes : c.wins[a] <= Credits[a]
    BY <1>2, <1>5, <1>6, TallyOrder
  <2>2. Sum(Credits) <= 3
    BY ThreeAtMost DEF TallyInv
  <2> QED  BY <1>6, <2>1, <2>2, OneWinner
<1> HIDE DEF c
<1>9. CASE b.credited = 0
  <2>1. c.wins = Credits /\ c.credited = b.credited
    BY <1>2, <1>5, <1>9 DEF RemoveRunWin
  <2>2. ledger' = ledger
    BY <1>6, <2>1 DEF Booked
  <2>3. winner' \in {winner, SeriesWinner(Credits)}
    BY <1>2, <1>7, <2>1
  <2>4. c.run # 0 /\ c.credited # 0 =>
          /\ board[p].run # 0 /\ c.credited = board[p].credited
          /\ SeriesWinner(Credits) # 0 => c.decided \in {board[p].decided, SeriesWinner(Credits)}
    BY <1>2
  <2>5. \A x \in rest' : x.edit =>
          x \in rest \/ \A a \in Athletes : x.closure.wins[a] <= Credits[a]
    BY <1>7
  <2> QED  BY <1>4, <1>6, <1>7, <2>2, <2>3, <2>4, <2>5, WinnerKept
<1>10. CASE b.credited # 0
  <2>1. \A q \in Panels : q # p => board[q].credited = 0
    BY <1>3, <1>10 DEF TallyInv, CreditInv, CreditHeldOnce, StartLanded, StartTo
  <2>2. ASSUME count'.belated = 0  PROVE winner' = SeriesWinner(Credits')
    <3>1. winner = SeriesWinner(Credits) /\ b.run # 0
      BY <1>4, <2>2 DEF WinnerInv, MatchHasWinner
    <3>2. CASE SeriesWinner(c.wins) # 0
      BY <1>2, <1>5, <1>7, <1>8, <3>1, <3>2
    <3>3. CASE SeriesWinner(c.wins) = 0 /\ SeriesWinner(Credits) = 0
      BY <1>2, <1>5, <1>7, <3>1, <3>3
    <3>4. CASE SeriesWinner(c.wins) = 0 /\ SeriesWinner(Credits) # 0
      <4>1. SeriesWinner(RemoveRunWin(Credits, b.credited)) = 0
        BY <1>2, <1>5, <3>4
      <4>2. b.decided # 0
        BY <1>10, <3>1, <3>4, <4>1 DEF WinnerInv, ClinchIsKnown
      <4>3. done.put = 0 /\ 0 # Keep
        BY <1>2, <3>4, <4>2 DEF Keep
      <4> QED  BY <1>5, <1>7, <3>4, <4>3
    <3> QED  BY <3>2, <3>3, <3>4
  <2>3. c.run # 0 /\ c.credited # 0 /\ SeriesWinner(Credits') # 0 => c.decided # 0
    BY <1>2
  <2>4. \A x \in rest' : x.edit => \A a \in Athletes : x.closure.wins[a] <= Credits'[a]
    BY <1>7
  <2> QED  BY <1>6, <1>7, <2>1, <2>2, <2>3, <2>4, WinnerMoved
<1> QED  BY <1>9, <1>10

\* An award writes the winner it makes; it leaves the one its undone credit had clinched,
\* and is belated then.
LEMMA AwardWinner ==
    ASSUME TypeOK, TallyInv, TallyInv', WinnerInv, PromptServer = TRUE, NEW p \in Panels, Award(p)
    PROVE  WinnerInv'
<1> DEFINE b == board[p]
           done == AwardRunTo(b, Other(Offender(b)))
           c == done.board
           open == RemoveRunWin(b.wins, b.credited)
<1>1. b \in Board /\ count \in Counts
  BY DEF TypeOK
<1>2. Other(Offender(b)) \in Lanes
  BY Kinds DEF Award, Offender
<1>3. /\ done \in Outcome /\ done.edits = {} /\ c.credited \in Athletes
      /\ c.wins = AddRunWin(open, c.credited) /\ c.decided = SeriesWinner(c.wins)
      /\ done.put = IF SeriesWinner(c.wins) = 0 THEN Keep ELSE SeriesWinner(c.wins)
  BY <1>1, <1>2, AwardRunToKeeps, AwardRunToTally DEF Voided, Cleared
<1>4. /\ Act(p, done, {}) /\ NoSelection /\ (\A x \in rest : ~x.edit)
      /\ b.run # 0 /\ MayScore(p)
  BY DEF Award, Landed, Corrections, NoSelection
<1>5. count'.belated = 0 => count.belated = 0 /\ b.decided \in {0, c.decided}
  <2> DEFINE v == Counted("awards")
  <2>1. v \in Counts /\ v.belated = count.belated
    BY <1>1, CountedType, CountedBelated
  <2>2. count' = [v EXCEPT !.belated = IF b.decided \notin {0, c.decided} THEN @ + 1 ELSE @]
    BY DEF Award
  <2> HIDE DEF v, done
  <2>3. count.belated \in Nat
    BY <1>1 DEF Counts
  <2> QED  BY <2>1, <2>2, <2>3 DEF Counts
<1> HIDE DEF done
<1>6. b.wins = Credits /\ Credits' = c.wins
  <2>1. \A f \in {} : f.kind # "selection"
    OBVIOUS
  <2> QED  BY <1>3, <1>4, <2>1, ActCredits
<1>7. /\ c \in Board /\ Commit(p, done) /\ Credits \in Wins /\ c.wins \in Wins
      /\ open \in Wins /\ b.credited \in AthleteOrNone
  BY <1>1, <1>3, <1>4, CreditsWins, TallyTypes DEF Act, Outcome, Board
<1>8. /\ winner' = IF done.put = Keep THEN winner ELSE done.put
      /\ board' = [board EXCEPT ![p] = c]
      /\ \A x \in rest' : ~x.edit
  BY <1>3, <1>4, <1>7, CommitWins
<1>9. SeriesWinner(c.wins) = 0 => SeriesWinner(open) = 0
  <2>1. \A a \in Athletes : open[a] <= c.wins[a]
    BY <1>3, <1>7, TallyOrder
  <2> QED  BY <1>7, <2>1, OneWinner
<1>10. SeriesWinner(c.wins) # 0 => SeriesWinner(c.wins) # Keep
  BY <1>7, SeriesWinnerWhat, Kinds DEF Keep
<1> HIDE DEF c
<1>11. ASSUME count'.belated = 0  PROVE winner' = SeriesWinner(Credits')
  <2>1. winner = SeriesWinner(Credits)
    BY <1>5, <1>11 DEF WinnerInv, MatchHasWinner
  <2>2. CASE SeriesWinner(c.wins) # 0
    BY <1>3, <1>6, <1>8, <1>10, <2>2
  <2>3. CASE SeriesWinner(c.wins) = 0
    <3>1. b.decided = 0
      BY <1>3, <1>5, <1>11, <2>3
    <3>2. CASE b.credited = 0
      <4>1. open = Credits
        BY <1>6, <3>2 DEF RemoveRunWin
      <4> QED  BY <1>3, <1>6, <1>8, <1>9, <2>1, <2>3, <4>1
    <3>3. CASE b.credited # 0
      <4>1. SeriesWinner(RemoveRunWin(Credits, b.credited)) = 0
        BY <1>6, <1>9, <2>3
      <4>2. SeriesWinner(Credits) = 0
        BY <1>4, <3>1, <3>3, <4>1 DEF WinnerInv, ClinchIsKnown
      <4> QED  BY <1>3, <1>6, <1>8, <2>1, <2>3, <4>2
    <3> QED  BY <3>2, <3>3
  <2> QED  BY <2>2, <2>3
<1>12. \A q \in Panels : q # p => board[q].credited = 0
  BY <1>4 DEF MayScore
<1>13. c.run # 0 /\ c.credited # 0 /\ SeriesWinner(Credits') # 0 => c.decided # 0
  BY <1>3, <1>6
<1>14. \A x \in rest' : x.edit => \A a \in Athletes : x.closure.wins[a] <= Credits'[a]
  BY <1>8
<1> QED  BY <1>7, <1>8, <1>11, <1>12, <1>13, <1>14, WinnerMoved

LEMMA WinnerStep ==
    ASSUME UncorrectedSeries, MaxRuns <= 3, TypeOK, ClockInv, TallyInv, TallyInv', WinnerInv, Next
    PROVE  WinnerInv'
<1>1. PICK p \in Panels :
        \/ Go(p) \/ Reset(p) \/ Void(p) \/ Swap(p) \/ Award(p)
        \/ \E lane \in Lanes :
             \/ Stop(p, lane) \/ Resume(p, lane) \/ Dnfed(p, lane)
             \/ Flag(p, lane) \/ Correct(p, lane) \/ Retry(p, lane)
        \/ Reply(p) \/ EditReply(p) \/ Refuse(p) \/ Deliver(p)
  BY DEF Next
<1>2. PromptServer = TRUE
  BY DEF UncorrectedSeries
<1>3. \A lane \in Lanes : ~Resume(p, lane) /\ ~Correct(p, lane)
  BY DEF TypeOK, Counts, Resume, Correct, Pressed, UncorrectedSeries
<1>4. CASE Go(p) \/ Reset(p) \/ Void(p) \/ Swap(p) \/ Award(p)
  BY <1>2, <1>4, GoWinner, ResetWinner, VoidWinner, SwapWinner, AwardWinner
<1>5. ASSUME NEW lane \in Lanes,
             Stop(p, lane) \/ Dnfed(p, lane) \/ Flag(p, lane) \/ Retry(p, lane)
      PROVE  WinnerInv'
  BY <1>2, <1>5, StopWinner, DnfedWinner, FlagWinner, RetryWinner
<1>6. CASE Reply(p) \/ EditReply(p) \/ Refuse(p) \/ Deliver(p)
  BY <1>6, ReplyWinner, EditReplyWinner, RefuseWinner, DeliverWinner
<1> QED  BY <1>1, <1>3, <1>4, <1>5, <1>6

LEMMA WinnerInit ==
    ASSUME Init
    PROVE  WinnerInv
<1>1. /\ rest = {} /\ winner = 0 /\ ledger = [r \in 1..MaxRuns |-> 0]
      /\ \A q \in Panels : board[q].credited = 0
  BY DEF Init, FreshBoard
<1>2. \A a \in Athletes : {r \in 1..MaxRuns : ledger[r] = a} = {}
  BY <1>1, Kinds
<1>3. \A a \in Athletes : Credits[a] = 0
  BY <1>2, FS_EmptySet DEF Credits
<1>4. SeriesWinner(Credits) = 0
  BY <1>3 DEF SeriesWinner
<1> QED  BY <1>1, <1>4 DEF WinnerInv, MatchHasWinner, ClinchIsKnown, EditsTrail

LEMMA WinnerHolds ==
    ASSUME UncorrectedSeries, MaxRuns <= 3
    PROVE  Spec => []WinnerInv
<1>1. WinnerInv /\ UNCHANGED vars => WinnerInv'
  BY DEF vars, WinnerInv, MatchHasWinner, ClinchIsKnown, EditsTrail, Credits
<1>2. TypeOK /\ ClockInv /\ TallyInv /\ TallyInv' /\ WinnerInv /\ [Next]_vars => WinnerInv'
  BY <1>1, WinnerStep
<1> QED  BY <1>2, WinnerInit, TallyHolds, RaceTypeCorrect, ClocksHold, PTL DEF Spec

\* recordLaneResult and awardRunTo put the winner of the series on the Match, voidRun takes
\* it back: in a best-of-3 of at most three runs, none resumed or corrected, Match.winnerId
\* is the winner of the credits standing once no frame is in flight, unless a run was voided
\* after the reset that cleared it, or awarded over the credit that had clinched the series.
THEOREM RoomMatchFollowsTally ==
    ASSUME UncorrectedSeries, MaxRuns <= 3
    PROVE  Spec => []MatchFollowsTally
<1>1. WinnerInv => MatchFollowsTally
  BY DEF WinnerInv, MatchHasWinner, MatchFollowsTally
<1> QED  BY <1>1, WinnerHolds, PTL
=============================================================================
