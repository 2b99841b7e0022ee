--------------------------- MODULE BattleRoomProofs ---------------------------
(***************************************************************************)
(* What BattleRoom's panels agree on, for any number of them, any budgets  *)
(* and any order of frames.  The types need nothing.  The rest is for      *)
(* operators who act when nothing is in flight (Patient) and set no lane   *)
(* to zero seconds: the room then has one set of lanes, that a frame       *)
(* brings every panel to, whichever of the frames in flight it is and      *)
(* however often it comes (Room); its boards have one turn at a time       *)
(* (PagesSound); so the plate of one announces what all then offer; and    *)
(* after a turn all of them start the same lane next (TurnFits).           *)
(***************************************************************************)
EXTENDS BattleRoom, AdvanceRouteProofs

-----------------------------------------------------------------------------
(* Types.                                                                  *)

StartFrames == [kind : {"start"}, lane : Lanes, remaining : Nat, at : Nat]
StopFrames == [kind : {"stop"}, lane : Lanes, remaining : Nat]
ResetFrames == [kind : {"reset"}, lane : Lanes, remaining : Nat]
BreakFrames == [kind : {"break"}, lane : Lanes, remaining : Nat, at : Nat, rest : Nat, left : Nat]
BreakEndFrames == [kind : {"breakEnd"}, lane : Lanes, remaining : Nat]
CountFrames == StartFrames \union StopFrames \union ResetFrames \union BreakFrames \union BreakEndFrames

Views == [mode : Modes, nextUp : Lanes \union {0}]
SelectionFrames == [kind : {"selection"}, stamp : Stamp, view : Views]
AskFrames == [kind : {"ask"}, by : Panels]
RowSet == [Lanes -> LaneStates]
SnapshotFrames == [kind : {"snapshot"}, rows : RowSet]
Frames == CountFrames \union SelectionFrames \union AskFrames \union SnapshotFrames
Copies == [rows : RowSet, view : Views]

Pages == [link : BOOLEAN, live : BOOLEAN, away : BOOLEAN, offer : BOOLEAN,
          stamp : Stamp, mode : Modes, board : Boards]

\* The types of the room.
TypeOK ==
    /\ panel \in [Panels -> Pages]
    /\ stored \in [Panels -> SUBSET Copies]
    /\ net \subseteq [to : Panels, frame : Frames]
    /\ now \in Nat
    /\ truth \in [on : SUBSET Lanes, ran : [Lanes -> Nat], turn : Lanes \union {0}]
    /\ count \in [starts : Nat, breaks : Nat, arms : Nat, reloads : Nat]

-----------------------------------------------------------------------------
(* Lanes and boards.                                                       *)

LEMMA LanesAre == /\ Lanes = {1, 2}
                  /\ \A l \in Lanes : Other(l) \in Lanes /\ Other(l) # l /\ Other(Other(l)) = l
                  /\ \A l \in Lanes : \A k \in Lanes : k = l \/ k = Other(l)
  BY DEF Lanes, Other

LEMMA LaneIsALaneState ==
    ASSUME NEW phase \in Phases, NEW budget \in Nat, NEW armed \in Nat, NEW at \in Nat,
           NEW rest \in Nat, NEW left \in Nat
    PROVE  Lane(phase, budget, armed, at, rest, left) \in LaneStates
  BY DEF Lane, LaneStates

LEMMA IdleIsALaneState ==
    ASSUME NEW budget \in Nat, NEW armed \in Nat, NEW left \in Nat
    PROVE  Idle(budget, armed, left) \in LaneStates /\ Finished(armed, left) \in LaneStates
  BY LaneIsALaneState DEF Idle, Finished, Phases

LEMMA LaneParts ==
    ASSUME NEW lane \in LaneStates
    PROVE  /\ lane.phase \in Phases /\ lane.budget \in Nat /\ lane.armed \in Nat
           /\ lane.at \in Nat /\ lane.rest \in Nat /\ lane.left \in Nat
           /\ lane = Lane(lane.phase, lane.budget, lane.armed, lane.at, lane.rest, lane.left)
  BY DEF LaneStates, Lane

LEMMA RemainingFromIsNat ==
    ASSUME NEW duration \in Nat, NEW at \in Nat, NEW t \in Nat
    PROVE  RemainingFrom(duration, at, t) \in Nat
  BY DEF RemainingFrom

LEMMA RowIsALaneState ==
    ASSUME NEW lane \in LaneStates, NEW t \in Nat
    PROVE  Row(lane, t) \in LaneStates
<1>1. Remaining(lane, t) \in Nat
  BY RemainingIsNat
<1>2. RemainingFrom(lane.rest, lane.at, t) \in Nat
  BY LaneParts, RemainingFromIsNat
<1> QED  BY <1>1, <1>2 DEF Row, LaneStates

LEMMA HydratedLaneIsALaneState ==
    ASSUME NEW row \in LaneStates
    PROVE  LaneFromSnapshot(row) \in LaneStates
  BY LaneParts, IdleIsALaneState DEF LaneFromSnapshot

LEMMA StoppedLaneIsALaneState ==
    ASSUME NEW lane \in LaneStates, NEW remaining \in Nat
    PROVE  StoppedLane(remaining, lane) \in LaneStates
  BY LaneParts, IdleIsALaneState DEF StoppedLane

LEMMA BoardParts ==
    ASSUME NEW b \in Boards
    PROVE  /\ b.lane \in [Lanes -> LaneStates]
           /\ b.pause \in Nat \union {NoPause}
           /\ b.lastRan \in Lanes \union {0}
  BY DEF Boards

\* A board with one lane replaced.
LEMMA LaneReplaced ==
    ASSUME NEW b \in Boards, NEW l \in Lanes, NEW lane \in LaneStates,
           NEW pause \in Nat \union {NoPause}, NEW lastRan \in Lanes \union {0}
    PROVE  [b EXCEPT !.lane[l] = lane, !.pause = pause, !.lastRan = lastRan] \in Boards
  BY DEF Boards

LEMMA InitialBoardIsABoard ==
    ASSUME NEW budget \in Nat
    PROVE  InitialBoard(budget) \in Boards
  BY BoardsOpenSound DEF Sound

LEMMA NextUpIsALane ==
    ASSUME NEW b \in Boards
    PROVE  AdvanceTarget(b) \in Lanes \union {0}
  BY LanesAre DEF AdvanceTarget, Boards

-----------------------------------------------------------------------------
(* What each event leaves of a board.                                      *)

\* A lane once a countdown frame landed on it.
Lands(f, lane) ==
    CASE f.kind = "start" -> Lane("running", f.remaining, lane.armed, f.at, 0, lane.left)
      [] f.kind = "stop" -> StoppedLane(f.remaining, lane)
      [] f.kind = "reset" -> Idle(f.remaining, f.remaining, MaxBreaks)
      [] f.kind = "break" -> Lane("onBreak", f.remaining, lane.armed, f.at, f.rest, f.left)
      [] f.kind = "breakEnd" -> IF lane.phase # "onBreak" THEN lane
                                ELSE Idle(f.remaining, lane.armed, lane.left)

\* A lane whose clock crossed zero.
Spent(lane) ==
    IF lane.phase = "running" THEN Finished(lane.armed, lane.left)
    ELSE Idle(lane.budget, lane.armed, lane.left)

LEMMA BeginTurnGives ==
    ASSUME NEW b \in Boards, NEW l \in Lanes, NEW budget \in Nat, NEW at \in Nat
    PROVE  /\ BeginTurn(b, l, budget, at) \in Boards
           /\ BeginTurn(b, l, budget, at).lane =
                [b.lane EXCEPT ![l] = Lane("running", budget, b.lane[l].armed, at, 0, b.lane[l].left)]
           /\ BeginTurn(b, l, budget, at).pause = NoPause
           /\ BeginTurn(b, l, budget, at).lastRan = l
<1> DEFINE lane == Lane("running", budget, b.lane[l].armed, at, 0, b.lane[l].left)
<1>1. lane \in LaneStates
  BY BoardParts, LaneParts, LaneIsALaneState, ZenonT(40) DEF Phases
<1>2. BeginTurn(b, l, budget, at) = [b EXCEPT !.lane[l] = lane, !.pause = NoPause, !.lastRan = l]
  BY DEF BeginTurn, Boards
<1> HIDE DEF lane
<1>3. /\ BeginTurn(b, l, budget, at) \in Boards
      /\ BeginTurn(b, l, budget, at).lane = [b.lane EXCEPT ![l] = lane]
      /\ BeginTurn(b, l, budget, at).pause = NoPause
      /\ BeginTurn(b, l, budget, at).lastRan = l
  BY <1>1, <1>2 DEF Boards
<1> QED  BY <1>3 DEF lane

LEMMA EndTurnGives ==
    ASSUME NEW b \in Boards, NEW l \in Lanes, NEW remaining \in Nat, NEW at \in Nat
    PROVE  /\ EndTurn(b, l, remaining, at) \in Boards
           /\ EndTurn(b, l, remaining, at).lane = [b.lane EXCEPT ![l] = StoppedLane(remaining, b.lane[l])]
           /\ EndTurn(b, l, remaining, at).lastRan = b.lastRan
<1>1. StoppedLane(remaining, b.lane[l]) \in LaneStates
  BY BoardParts, StoppedLaneIsALaneState
<1>2. PauseAfter(b, l, remaining, at) \in Nat \union {NoPause}
  BY DEF PauseAfter
<1> QED  BY <1>1, <1>2 DEF EndTurn, Boards

LEMMA PeerStopGives ==
    ASSUME NEW b \in Boards, NEW l \in Lanes, NEW remaining \in Nat, NEW at \in Nat
    PROVE  /\ PeerStop(b, l, remaining, at) \in Boards
           /\ PeerStop(b, l, remaining, at).lane = [b.lane EXCEPT ![l] = StoppedLane(remaining, b.lane[l])]
           /\ PeerStop(b, l, remaining, at).lastRan = b.lastRan
           /\ ~Runs(b, l) => PeerStop(b, l, remaining, at).pause = b.pause
<1>1. StoppedLane(remaining, b.lane[l]) \in LaneStates
  BY BoardParts, StoppedLaneIsALaneState
<1>2. PauseAfter(b, l, remaining, at) \in Nat \union {NoPause}
  BY DEF PauseAfter
<1> QED  BY <1>1, <1>2 DEF PeerStop, Boards

\* A board whose lane l is replaced and no more.
LEMMA OneLaneGives ==
    ASSUME NEW b \in Boards, NEW l \in Lanes, NEW lane \in LaneStates
    PROVE  LET c == [b EXCEPT !.lane[l] = lane]
           IN  /\ c \in Boards
               /\ c.lane = [b.lane EXCEPT ![l] = lane]
               /\ c.pause = b.pause
               /\ c.lastRan = b.lastRan
  BY DEF Boards

LEMMA TakeBreakGives ==
    ASSUME NEW b \in Boards, NEW l \in Lanes, NEW at \in Nat, b.lane[l].left > 0
    PROVE  /\ TakeBreak(b, l, at) \in Boards
           /\ TakeBreak(b, l, at).lane =
                [b.lane EXCEPT ![l] = Lane("onBreak", Remaining(b.lane[l], at), b.lane[l].armed, at, BreakMs,
                                           b.lane[l].left - 1)]
           /\ TakeBreak(b, l, at).pause = b.pause
           /\ TakeBreak(b, l, at).lastRan = b.lastRan
<1> DEFINE lane == Lane("onBreak", Remaining(b.lane[l], at), b.lane[l].armed, at, BreakMs,
                        b.lane[l].left - 1)
<1>1. b.lane[l] \in LaneStates
  BY BoardParts
<1>2. lane \in LaneStates
  <2>1. Remaining(b.lane[l], at) \in Nat
    BY <1>1, RemainingIsNat
  <2>2. b.lane[l].left - 1 \in Nat /\ b.lane[l].armed \in Nat
    BY <1>1, LaneParts
  <2> QED  BY <2>1, <2>2, BreakMsAssumption, LaneIsALaneState DEF Phases
<1>3. TakeBreak(b, l, at) = [b EXCEPT !.lane[l] = lane]
  BY DEF TakeBreak, Boards
<1> HIDE DEF lane
<1>4. TakeBreak(b, l, at).lane = [b.lane EXCEPT ![l] = lane]
  BY <1>2, <1>3, OneLaneGives
<1> QED  BY <1>2, <1>3, <1>4, OneLaneGives DEF lane

LEMMA BreakZeroGives ==
    ASSUME NEW b \in Boards, NEW l \in Lanes
    PROVE  /\ BreakZero(b, l) \in Boards
           /\ BreakZero(b, l).lane =
                [b.lane EXCEPT ![l] = Idle(b.lane[l].budget, b.lane[l].armed, b.lane[l].left)]
           /\ BreakZero(b, l).pause = b.pause
           /\ BreakZero(b, l).lastRan = b.lastRan
<1> DEFINE lane == Idle(b.lane[l].budget, b.lane[l].armed, b.lane[l].left)
<1>1. lane \in LaneStates
  BY BoardParts, LaneParts, IdleIsALaneState
<1>2. BreakZero(b, l) = [b EXCEPT !.lane[l] = lane]
  BY DEF BreakZero, Boards
<1> HIDE DEF lane
<1>3. BreakZero(b, l).lane = [b.lane EXCEPT ![l] = lane]
  BY <1>1, <1>2, OneLaneGives
<1> QED  BY <1>1, <1>2, <1>3, OneLaneGives DEF lane

LEMMA PeerBreakStartGives ==
    ASSUME NEW b \in Boards, NEW l \in Lanes, NEW remaining \in Nat, NEW at \in Nat, NEW rest \in Nat,
           NEW left \in Nat
    PROVE  /\ PeerBreakStart(b, l, remaining, at, rest, left) \in Boards
           /\ PeerBreakStart(b, l, remaining, at, rest, left).lane =
                [b.lane EXCEPT ![l] = Lane("onBreak", remaining, b.lane[l].armed, at, rest, left)]
           /\ PeerBreakStart(b, l, remaining, at, rest, left).pause = b.pause
           /\ PeerBreakStart(b, l, remaining, at, rest, left).lastRan = b.lastRan
<1> DEFINE lane == Lane("onBreak", remaining, b.lane[l].armed, at, rest, left)
<1>1. lane \in LaneStates
  BY BoardParts, LaneParts, LaneIsALaneState DEF Phases
<1>2. PeerBreakStart(b, l, remaining, at, rest, left) = [b EXCEPT !.lane[l] = lane]
  BY DEF PeerBreakStart, Boards
<1> HIDE DEF lane
<1>3. PeerBreakStart(b, l, remaining, at, rest, left).lane = [b.lane EXCEPT ![l] = lane]
  BY <1>1, <1>2, OneLaneGives
<1> QED  BY <1>1, <1>2, <1>3, OneLaneGives DEF lane

LEMMA PeerBreakEndGives ==
    ASSUME NEW b \in Boards, NEW l \in Lanes, NEW remaining \in Nat
    PROVE  LET c == PeerBreakEnd(b, l, remaining)
               lane == IF b.lane[l].phase # "onBreak" THEN b.lane[l]
                       ELSE Idle(remaining, b.lane[l].armed, b.lane[l].left)
           IN  /\ c \in Boards
               /\ c.lane = [b.lane EXCEPT ![l] = lane]
               /\ c.pause = b.pause
               /\ c.lastRan = b.lastRan
<1>1. CASE b.lane[l].phase # "onBreak"
  BY <1>1 DEF PeerBreakEnd, Boards
<1>2. CASE b.lane[l].phase = "onBreak"
  <2> DEFINE lane == Idle(remaining, b.lane[l].armed, b.lane[l].left)
  <2>1. lane \in LaneStates
    BY BoardParts, LaneParts, IdleIsALaneState
  <2>2. PeerBreakEnd(b, l, remaining) = [b EXCEPT !.lane[l] = lane]
    BY <1>2 DEF PeerBreakEnd, Boards
  <2> HIDE DEF lane
  <2>3. PeerBreakEnd(b, l, remaining).lane = [b.lane EXCEPT ![l] = lane]
    BY <2>1, <2>2, OneLaneGives
  <2> QED  BY <1>2, <2>1, <2>2, <2>3, OneLaneGives DEF lane
<1> QED  BY <1>1, <1>2

LEMMA ResetLaneGives ==
    ASSUME NEW b \in Boards, NEW l \in Lanes, NEW budget \in Nat
    PROVE  /\ ResetLane(b, l, budget) \in Boards
           /\ ResetLane(b, l, budget).lane = [b.lane EXCEPT ![l] = Idle(budget, budget, MaxBreaks)]
           /\ ResetLane(b, l, budget).pause = NoPause
           /\ ResetLane(b, l, budget).lastRan = 0
<1>1. Idle(budget, budget, MaxBreaks) \in LaneStates
  BY IdleIsALaneState DEF MaxBreaks
<1> QED  BY <1>1 DEF ResetLane, Boards

LEMMA SetBudgetsGives ==
    ASSUME NEW b \in Boards, NEW budget \in Nat
    PROVE  /\ SetBudgets(b, budget) \in Boards
           /\ SetBudgets(b, budget).lane =
                [l \in Lanes |-> IF l \in ReArmed(b) THEN Idle(budget, budget, MaxBreaks) ELSE b.lane[l]]
           /\ ReArmed(b) # {} => SetBudgets(b, budget).pause = NoPause /\ SetBudgets(b, budget).lastRan = 0
<1>1. Idle(budget, budget, MaxBreaks) \in LaneStates
  BY IdleIsALaneState DEF MaxBreaks
<1> QED  BY <1>1 DEF SetBudgets, Boards

LEMMA PeerHintGives ==
    ASSUME NEW b \in Boards, NEW nextUp \in Lanes \union {0}, NEW mode
    PROVE  /\ PeerHint(b, nextUp, mode) \in Boards
           /\ PeerHint(b, nextUp, mode).lane = b.lane
           /\ PeerHint(b, nextUp, mode).pause = b.pause
           /\ PeerHint(b, nextUp, mode).lastRan =
                IF nextUp = 0 \/ mode # "battle" \/ LaneLive(b) THEN b.lastRan ELSE Other(nextUp)
  BY LanesAre DEF PeerHint, Boards

LEMMA PeerSnapshotGives ==
    ASSUME NEW b \in Boards, NEW rows \in RowSet
    PROVE  /\ PeerSnapshot(b, rows) \in Boards
           /\ PeerSnapshot(b, rows).lane = [l \in Lanes |-> LaneFromSnapshot(rows[l])]
           /\ PeerSnapshot(b, rows).pause = b.pause
           /\ PeerSnapshot(b, rows).lastRan =
                IF LaneLive(PeerSnapshot(b, rows)) THEN IF Runs(PeerSnapshot(b, rows), 1) THEN 1 ELSE 2
                ELSE b.lastRan
<1> DEFINE lanes == [l \in Lanes |-> LaneFromSnapshot(rows[l])]
<1>1. lanes \in [Lanes -> LaneStates]
  BY HydratedLaneIsALaneState DEF RowSet
<1>2. [b EXCEPT !.lane = lanes] \in Boards /\ [b EXCEPT !.lane = lanes].lane = lanes
  BY <1>1 DEF Boards
<1> DEFINE h == [b EXCEPT !.lane = lanes]
<1>3. h \in Boards /\ h.lane = lanes /\ h.pause = b.pause /\ h.lastRan = b.lastRan
  BY <1>2 DEF Boards
<1>4. PeerSnapshot(b, rows) = IF ~LaneLive(h) THEN h ELSE [h EXCEPT !.lastRan = IF Runs(h, 1) THEN 1 ELSE 2]
  BY DEF PeerSnapshot
<1> HIDE DEF h, lanes
<1>5. /\ PeerSnapshot(b, rows) \in Boards
      /\ PeerSnapshot(b, rows).lane = h.lane
      /\ PeerSnapshot(b, rows).pause = h.pause
      /\ PeerSnapshot(b, rows).lastRan = IF LaneLive(h) THEN IF Runs(h, 1) THEN 1 ELSE 2 ELSE h.lastRan
  BY <1>3, <1>4, LanesAre DEF Boards
<1>6. LaneLive(PeerSnapshot(b, rows)) = LaneLive(h) /\ Runs(PeerSnapshot(b, rows), 1) = Runs(h, 1)
  BY <1>5 DEF LaneLive, Runs
<1> QED  BY <1>3, <1>5, <1>6 DEF lanes

LEMMA CountFrameParts ==
    ASSUME NEW f \in CountFrames
    PROVE  /\ f.kind \in Countdowns /\ f.lane \in Lanes /\ f.remaining \in Nat
           /\ f.kind \in {"start", "break"} => f.at \in Nat
           /\ f.kind = "break" => f.rest \in Nat /\ f.left \in Nat
  BY DEF CountFrames, StartFrames, StopFrames, ResetFrames, BreakFrames, BreakEndFrames, Countdowns

LEMMA LandsIsALaneState ==
    ASSUME NEW f \in CountFrames, NEW lane \in LaneStates
    PROVE  Lands(f, lane) \in LaneStates
<1>1. lane.armed \in Nat /\ lane.left \in Nat
  BY LaneParts
<1>2. \A n \in Nat : StoppedLane(n, lane) \in LaneStates
  BY StoppedLaneIsALaneState
<1> QED  BY <1>1, <1>2, CountFrameParts, LaneIsALaneState, IdleIsALaneState DEF Lands, Phases, MaxBreaks, Countdowns

LEMMA MirroredGives ==
    ASSUME NEW b \in Boards, NEW f \in CountFrames, now \in Nat
    PROVE  LET c == Mirrored(b, f)
           IN  /\ c \in Boards
               /\ c.lane = [b.lane EXCEPT ![f.lane] = Lands(f, b.lane[f.lane])]
               /\ c.lastRan = IF f.kind = "start" THEN f.lane ELSE IF f.kind = "reset" THEN 0 ELSE b.lastRan
               /\ f.kind \in {"start", "reset"} => c.pause = NoPause
               /\ f.kind \in {"break", "breakEnd"} => c.pause = b.pause
               /\ f.kind = "stop" /\ ~Runs(b, f.lane) => c.pause = b.pause
<1> USE CountFrameParts
<1>1. CASE f.kind = "start"
  BY <1>1, BeginTurnGives DEF Mirrored, PeerStart, Lands
<1>2. CASE f.kind = "stop"
  BY <1>2, PeerStopGives DEF Mirrored, Lands
<1>3. CASE f.kind = "reset"
  BY <1>3, ResetLaneGives DEF Mirrored, Lands
<1>4. CASE f.kind = "break"
  <2>1. Mirrored(b, f) = PeerBreakStart(b, f.lane, f.remaining, f.at, f.rest, f.left)
    BY <1>4 DEF Mirrored
  <2>2. Lands(f, b.lane[f.lane]) =
          Lane("onBreak", f.remaining, b.lane[f.lane].armed, f.at, f.rest, f.left)
    BY <1>4 DEF Lands
  <2>3. f.lane \in Lanes /\ f.remaining \in Nat /\ f.at \in Nat /\ f.rest \in Nat /\ f.left \in Nat
    BY <1>4
  <2> QED  BY <1>4, <2>1, <2>2, <2>3, PeerBreakStartGives
<1>5. CASE f.kind = "breakEnd"
  BY <1>5, PeerBreakEndGives DEF Mirrored, Lands
<1> QED  BY <1>1, <1>2, <1>3, <1>4, <1>5 DEF Countdowns

-----------------------------------------------------------------------------
(* Types, step by step.                                                    *)

LEMMA PageParts ==
    ASSUME NEW s \in Pages
    PROVE  /\ s.link \in BOOLEAN /\ s.live \in BOOLEAN /\ s.away \in BOOLEAN /\ s.offer \in BOOLEAN
           /\ s.stamp \in Stamp /\ s.mode \in Modes /\ s.board \in Boards
  BY DEF Pages

LEMMA StampsAreStamps ==
    ASSUME NEW p \in Panels, NEW t \in Stamp, NEW b \in BOOLEAN
    PROVE  /\ Minted(p, t, b, 0) = [seq |-> t.seq + 1, by |-> p, echo |-> FALSE]
           /\ Minted(p, t, b, 0) \in Stamp
           /\ Restated(p, t) \in Stamp
<1>1. t.seq \in Nat
  BY DEF Stamp
<1>2. ~(0 > t.seq + 1) /\ t.seq + 1 \in Nat
  BY <1>1
<1>3. Minted(p, t, b, 0) = [seq |-> t.seq + 1, by |-> p, echo |-> FALSE]
  BY <1>2 DEF Minted
<1>4. [seq |-> t.seq + 1, by |-> p, echo |-> FALSE] \in Stamp
  BY <1>2 DEF Stamp
<1>5. Restated(p, t) \in Stamp
  BY <1>1 DEF Restated, Stamp
<1> QED  BY <1>3, <1>4, <1>5

LEMMA InitialStampIsAStamp == InitialStamp \in Stamp
  BY DEF InitialStamp, Stamp

LEMMA ViewIsAView ==
    ASSUME NEW s \in Pages
    PROVE  View(s) \in Views
  BY PageParts, NextUpIsALane DEF View, Views

LEMMA CopiesAreCopies ==
    ASSUME NEW s \in Pages, now \in Nat
    PROVE  Rows(s) \in RowSet /\ Copy(s) \subseteq Copies
<1>1. Rows(s) \in RowSet
  BY PageParts, BoardParts, RowIsALaneState DEF Rows, RowSet
<1> QED  BY <1>1, ViewIsAView DEF Copy, Copies

LEMMA PagesChange ==
    ASSUME NEW s \in Pages, NEW b \in Boards, NEW t \in Stamp, NEW mode \in Modes, NEW x \in BOOLEAN
    PROVE  /\ [s EXCEPT !.board = b] \in Pages
           /\ [s EXCEPT !.stamp = t] \in Pages
           /\ [s EXCEPT !.mode = mode, !.board = b] \in Pages
           /\ [s EXCEPT !.stamp = t, !.mode = mode, !.board = b] \in Pages
           /\ [s EXCEPT !.offer = x] \in Pages
           /\ [s EXCEPT !.link = x, !.away = FALSE] \in Pages
           /\ Closed(s) \in Pages
  BY DEF Pages, Closed

LEMMA PageIsAPage ==
    ASSUME NEW mode \in Modes
    PROVE  Page(mode) \in Pages /\ [Page(mode) EXCEPT !.away = TRUE] \in Pages
<1>1. InitialBoard(Preset[mode]) \in Boards
  BY PresetAssumption, InitialBoardIsABoard
<1> QED  BY <1>1, InitialStampIsAStamp DEF Page, Pages

LEMMA FanoutTypes ==
    ASSUME NEW p \in Panels, NEW frames, frames \subseteq Frames
    PROVE  Fanout(p, frames) \subseteq [to : Panels, frame : Frames]
  BY DEF Fanout

LEMMA FramesAre ==
    ASSUME TypeOK, NEW s \in Pages, NEW p \in Panels, NEW t \in Stamp
    PROVE  /\ SelectionFrame(t, s) \in Frames
           /\ AskFrame(p) \in Frames
           /\ SnapshotFrame(s) \in Frames
<1>1. SelectionFrame(t, s) \in SelectionFrames
  BY ViewIsAView DEF SelectionFrame, SelectionFrames
<1>2. AskFrame(p) \in AskFrames
  BY DEF AskFrame, AskFrames
<1>3. SnapshotFrame(s) \in SnapshotFrames
  BY CopiesAreCopies DEF SnapshotFrame, SnapshotFrames, TypeOK
<1> QED  BY <1>1, <1>2, <1>3 DEF Frames

LEMMA CountFramesAre ==
    ASSUME NEW b \in Boards, NEW l \in Lanes
    PROVE  /\ StartFrame(l, b) \in StartFrames
           /\ StopFrame(l, b) \in StopFrames
           /\ ResetFrame(l, b) \in ResetFrames
           /\ BreakFrame(l, b) \in BreakFrames
           /\ BreakEndFrame(l, b) \in BreakEndFrames
<1>1. b.lane[l].budget \in Nat /\ b.lane[l].at \in Nat /\ b.lane[l].rest \in Nat /\ b.lane[l].left \in Nat
  BY BoardParts, LaneParts
<1> QED  BY <1>1 DEF StartFrame, StopFrame, ResetFrame, BreakFrame, BreakEndFrame, StartFrames,
         StopFrames, ResetFrames, BreakFrames, BreakEndFrames

\* What an event of page p leaves: the page, its frames and its copy.
LEMMA ActGives ==
    ASSUME TypeOK, NEW p \in Panels, NEW s \in Pages, NEW frames, frames \subseteq CountFrames,
           Act(p, s, frames)
    PROVE  LET claim == Minted(p, s.stamp, TRUE, 0)
               moved == View(s) # View(panel[p])
               sent == frames \union IF moved THEN {SelectionFrame(claim, s)} ELSE {}
           IN  /\ panel' \in [Panels -> Pages]
               /\ \A q \in Panels \ {p} : panel'[q] = panel[q]
               /\ panel'[p] = IF moved THEN [Closed(s) EXCEPT !.stamp = claim] ELSE Closed(s)
               /\ stored' \in [Panels -> SUBSET Copies]
               /\ \A q \in Panels \ {p} : stored'[q] = stored[q]
               /\ stored'[p] = Copy(s)
               /\ net' = net \union Fanout(p, sent)
               /\ net' \subseteq [to : Panels, frame : Frames]
               /\ now' = now
<1> DEFINE claim == Minted(p, s.stamp, TRUE, 0)
           moved == View(s) # View(panel[p])
           sent == frames \union IF moved THEN {SelectionFrame(claim, s)} ELSE {}
<1>1. claim \in Stamp
  BY PageParts, StampsAreStamps
<1>2. Closed(s) \in Pages /\ [Closed(s) EXCEPT !.stamp = claim] \in Pages
  BY <1>1, PagesChange, ZenonT(40) DEF Pages, Closed
<1>3. sent \subseteq Frames
  BY <1>1, FramesAre DEF Frames
<1>4. Fanout(p, sent) \subseteq [to : Panels, frame : Frames]
  BY <1>3, FanoutTypes
<1>5. Copy(s) \subseteq Copies
  BY CopiesAreCopies DEF TypeOK
<1>6. /\ panel' = [panel EXCEPT ![p] = IF moved THEN [Closed(s) EXCEPT !.stamp = claim] ELSE Closed(s)]
      /\ stored' = [stored EXCEPT ![p] = Copy(s)]
      /\ net' = net \union Fanout(p, sent)
      /\ now' = now
  BY DEF Act
<1> HIDE DEF claim, moved, sent
<1>7. panel \in [Panels -> Pages] /\ stored \in [Panels -> SUBSET Copies] /\ net \subseteq [to : Panels, frame : Frames]
  BY DEF TypeOK
<1>8. /\ panel' \in [Panels -> Pages]
      /\ \A q \in Panels \ {p} : panel'[q] = panel[q]
      /\ panel'[p] = IF moved THEN [Closed(s) EXCEPT !.stamp = claim] ELSE Closed(s)
  BY <1>2, <1>6, <1>7
<1>9. /\ stored' \in [Panels -> SUBSET Copies]
      /\ \A q \in Panels \ {p} : stored'[q] = stored[q]
      /\ stored'[p] = Copy(s)
  BY <1>5, <1>6, <1>7
<1> QED  BY <1>4, <1>6, <1>7, <1>8, <1>9 DEF claim, moved, sent

\* The boards that presses leave, and their frames.
LEMMA PressedBoards ==
    ASSUME NEW b \in Boards, NEW l \in Lanes, NEW t \in Nat
    PROVE  /\ Start(b, l, t) \in Boards
           /\ Stop(b, l, t) \in Boards
           /\ Timeout(b, l, t) \in Boards
           /\ BreakZero(b, l) \in Boards
           /\ b.lane[l].left > 0 => TakeBreak(b, l, t) \in Boards
           /\ ResetLane(b, l, b.lane[l].armed) \in Boards
<1>1. b.lane[l] \in LaneStates
  BY BoardParts
<1>2. b.lane[l].budget \in Nat /\ b.lane[l].armed \in Nat /\ Remaining(b.lane[l], t) \in Nat
  BY <1>1, LaneParts, RemainingIsNat
<1>3. Start(b, l, t) \in Boards
  BY <1>2, BeginTurnGives DEF Start
<1>4. Stop(b, l, t) \in Boards
  BY <1>2, EndTurnGives DEF Stop
<1>5. Timeout(b, l, t) \in Boards
  BY EndTurnGives DEF Timeout
<1> QED  BY <1>2, <1>3, <1>4, <1>5, BreakZeroGives, TakeBreakGives, ResetLaneGives

\* The board of ResetRecorded.
Cleared(b, lanes) ==
    [b EXCEPT !.lane = [l \in Lanes |-> IF l \in lanes THEN Idle(@[l].armed, @[l].armed, MaxBreaks)
                                        ELSE @[l]],
              !.pause = NoPause, !.lastRan = 0]

LEMMA ClearedGives ==
    ASSUME NEW b \in Boards, NEW lanes
    PROVE  /\ Cleared(b, lanes) \in Boards
           /\ Cleared(b, lanes).lane =
                [l \in Lanes |-> IF l \in lanes THEN Idle(b.lane[l].armed, b.lane[l].armed, MaxBreaks)
                                 ELSE b.lane[l]]
           /\ Cleared(b, lanes).pause = NoPause
           /\ Cleared(b, lanes).lastRan = 0
<1>1. \A l \in Lanes : Idle(b.lane[l].armed, b.lane[l].armed, MaxBreaks) \in LaneStates
  BY BoardParts, LaneParts, IdleIsALaneState DEF MaxBreaks
<1> QED  BY <1>1 DEF Cleared, Boards

LEMMA TruthTypes ==
    ASSUME TypeOK, NEW p \in Panels, NEW l \in Lanes, NEW lanes
    PROVE  LET Truths == [on : SUBSET Lanes, ran : [Lanes -> Nat], turn : Lanes \union {0}]
           IN  /\ Ground(p) \in Truths
               /\ OffTurn(l) \in Truths
               /\ [Ground(p) EXCEPT !.on = @ \union {l}, !.turn = l] \in Truths
               /\ ReArm(Ground(p), lanes) \in Truths
<1>1. Ground(p) \in [on : SUBSET Lanes, ran : [Lanes -> Nat], turn : Lanes \union {0}]
  BY DEF Ground, NoTurns, TypeOK
<1> QED  BY <1>1 DEF OffTurn, ReArm, TypeOK

LEMMA OffTurnTypes ==
    ASSUME TypeOK, NEW p \in Panels, NEW l \in Lanes
    PROVE  OffTurn(l) \in [on : SUBSET Lanes, ran : [Lanes -> Nat], turn : Lanes \union {0}]
  BY TruthTypes

LEMMA ReArmTypes ==
    ASSUME TypeOK, NEW p \in Panels, NEW lanes
    PROVE  ReArm(Ground(p), lanes) \in [on : SUBSET Lanes, ran : [Lanes -> Nat], turn : Lanes \union {0}]
  BY TruthTypes, LanesAre

LEMMA PressTypes ==
    ASSUME TypeOK, NEW p \in Panels, NEW s \in Pages, NEW frames, frames \subseteq CountFrames,
           Act(p, s, frames),
           truth' \in [on : SUBSET Lanes, ran : [Lanes -> Nat], turn : Lanes \union {0}],
           count' \in [starts : Nat, breaks : Nat, arms : Nat, reloads : Nat]
    PROVE  TypeOK'
<1>1. /\ panel' \in [Panels -> Pages]
      /\ stored' \in [Panels -> SUBSET Copies]
      /\ net' \subseteq [to : Panels, frame : Frames]
      /\ now' = now
  BY ActGives
<1> QED  BY <1>1 DEF TypeOK

LEMMA CountedTypes ==
    ASSUME TypeOK, NEW what \in {"starts", "breaks", "arms", "reloads"}, NEW bound, Counted(what, bound)
    PROVE  count' \in [starts : Nat, breaks : Nat, arms : Nat, reloads : Nat]
  BY DEF TypeOK, Counted

\* A panel's own event: what it leaves on the board of p, and the frames of it.
Event(p, mode, b, frames) ==
    /\ b \in Boards /\ mode \in Modes /\ frames \subseteq CountFrames
    /\ Act(p, [panel[p] EXCEPT !.mode = mode, !.board = b], frames)

LEMMA SameMode ==
    ASSUME TypeOK, NEW p \in Panels, NEW b
    PROVE  [panel[p] EXCEPT !.board = b] = [panel[p] EXCEPT !.mode = panel[p].mode, !.board = b]
<1>1. panel[p] \in Pages
  BY DEF TypeOK
<1> QED  BY <1>1 DEF Pages

LEMMA StartIsAnEvent ==
    ASSUME TypeOK, NEW p \in Panels, NEW l \in Lanes, StartLane(p, l)
    PROVE  LET b == Start(panel[p].board, l, now)
           IN  Event(p, panel[p].mode, b, {StartFrame(l, b)})
<1>1. panel[p].board \in Boards /\ panel[p].mode \in Modes /\ now \in Nat
  BY PageParts DEF TypeOK
<1>2. Start(panel[p].board, l, now) \in Boards
  BY <1>1, PressedBoards
<1>3. Act(p, [panel[p] EXCEPT !.board = Start(panel[p].board, l, now)],
          {StartFrame(l, Start(panel[p].board, l, now))})
  BY DEF StartLane
<1> QED  BY <1>1, <1>2, <1>3, SameMode, CountFramesAre DEF Event, CountFrames

LEMMA StopIsAnEvent ==
    ASSUME TypeOK, NEW p \in Panels, NEW l \in Lanes, StopLane(p, l)
    PROVE  LET b == Stop(panel[p].board, l, now)
           IN  Event(p, panel[p].mode, b, {StopFrame(l, b)})
<1>1. panel[p].board \in Boards /\ panel[p].mode \in Modes /\ now \in Nat
  BY PageParts DEF TypeOK
<1>2. Stop(panel[p].board, l, now) \in Boards
  BY <1>1, PressedBoards
<1>3. Act(p, [panel[p] EXCEPT !.board = Stop(panel[p].board, l, now)],
          {StopFrame(l, Stop(panel[p].board, l, now))})
  BY DEF StopLane
<1> QED  BY <1>1, <1>2, <1>3, SameMode, CountFramesAre DEF Event, CountFrames

LEMMA BreakIsAnEvent ==
    ASSUME TypeOK, NEW p \in Panels, NEW l \in Lanes, TakeABreak(p, l)
    PROVE  LET b == TakeBreak(panel[p].board, l, now)
           IN  Event(p, panel[p].mode, b, {BreakFrame(l, b)})
<1>1. panel[p].board \in Boards /\ panel[p].mode \in Modes /\ now \in Nat
  BY PageParts DEF TypeOK
<1>2. TakeBreak(panel[p].board, l, now) \in Boards
  BY <1>1, PressedBoards DEF TakeABreak, CanTakeBreak
<1>3. Act(p, [panel[p] EXCEPT !.board = TakeBreak(panel[p].board, l, now)],
          {BreakFrame(l, TakeBreak(panel[p].board, l, now))})
  BY DEF TakeABreak
<1> QED  BY <1>1, <1>2, <1>3, SameMode, CountFramesAre DEF Event, CountFrames

LEMMA ResetIsAnEvent ==
    ASSUME TypeOK, NEW p \in Panels, NEW l \in Lanes, Reset(p, l)
    PROVE  LET b == ResetLane(panel[p].board, l, panel[p].board.lane[l].armed)
           IN  Event(p, panel[p].mode, b, {ResetFrame(l, b)})
<1>1. panel[p].board \in Boards /\ panel[p].mode \in Modes /\ now \in Nat
  BY PageParts DEF TypeOK
<1> DEFINE b == ResetLane(panel[p].board, l, panel[p].board.lane[l].armed)
<1>2. b \in Boards
  BY <1>1, PressedBoards
<1>3. Act(p, [panel[p] EXCEPT !.board = b], {ResetFrame(l, b)})
  BY DEF Reset
<1> QED  BY <1>1, <1>2, <1>3, SameMode, CountFramesAre DEF Event, CountFrames

LEMMA ClearIsAnEvent ==
    ASSUME TypeOK, NEW p \in Panels, ResetRecorded(p)
    PROVE  LET lanes == Recorded(panel[p].mode)
               b == Cleared(panel[p].board, lanes)
           IN  Event(p, panel[p].mode, b, {ResetFrame(l, b) : l \in lanes})
<1>1. panel[p].board \in Boards /\ panel[p].mode \in Modes /\ now \in Nat
  BY PageParts DEF TypeOK
<1> DEFINE lanes == Recorded(panel[p].mode)
           b == Cleared(panel[p].board, lanes)
<1>2. b \in Boards
  BY <1>1, ClearedGives
<1>3. Act(p, [panel[p] EXCEPT !.board = b], {ResetFrame(l, b) : l \in lanes})
  BY DEF ResetRecorded, Cleared
<1>4. lanes \subseteq Lanes
  BY LanesAre DEF Recorded
<1> HIDE DEF lanes, b
<1>5. {ResetFrame(l, b) : l \in lanes} \subseteq CountFrames
  BY <1>2, <1>4, CountFramesAre DEF CountFrames
<1>6. Event(p, panel[p].mode, b, {ResetFrame(l, b) : l \in lanes})
  BY <1>1, <1>2, <1>3, <1>5, SameMode DEF Event
<1> QED  BY <1>6 DEF lanes, b

LEMMA FormatIsAnEvent ==
    ASSUME TypeOK, NEW p \in Panels, NEW mode \in Modes, NEW budget \in Nat, Format(p, mode, budget)
    PROVE  LET b == SetBudgets(panel[p].board, budget)
           IN  Event(p, mode, b, {ResetFrame(l, b) : l \in ReArmed(panel[p].board)})
<1>1. panel[p].board \in Boards /\ now \in Nat
  BY PageParts DEF TypeOK
<1> DEFINE lanes == ReArmed(panel[p].board)
           b == SetBudgets(panel[p].board, budget)
<1>2. b \in Boards
  BY <1>1, SetBudgetsGives
<1>3. Act(p, [panel[p] EXCEPT !.mode = mode, !.board = b], {ResetFrame(l, b) : l \in lanes})
  BY DEF Format
<1>4. lanes \subseteq Lanes
  BY DEF ReArmed
<1> HIDE DEF lanes, b
<1>5. {ResetFrame(l, b) : l \in lanes} \subseteq CountFrames
  BY <1>2, <1>4, CountFramesAre DEF CountFrames
<1>6. Event(p, mode, b, {ResetFrame(l, b) : l \in lanes})
  BY <1>1, <1>2, <1>3, <1>5 DEF Event
<1> QED  BY <1>6 DEF lanes, b

\* The two formats: a budget is a natural number, and not none when no draft is.
LEMMA FormatsAre ==
    ASSUME TypeOK, NEW p \in Panels, ApplyRunBudget(p) \/ ApplyMode(p)
    PROVE  \E mode \in Modes : \E budget \in Nat :
             Format(p, mode, budget) /\ (0 \notin Drafts => budget # 0)
<1>1. panel[p].mode \in Modes
  BY PageParts DEF TypeOK
<1>2. CASE ApplyRunBudget(p)
  BY <1>1, <1>2, DraftsAssumption DEF ApplyRunBudget
<1>3. CASE ApplyMode(p)
  BY <1>3, PresetAssumption DEF ApplyMode
<1> QED  BY <1>2, <1>3

\* The two crossings of a clock.
LEMMA ExpiryIsAnEvent ==
    ASSUME TypeOK, NEW p \in Panels, NEW l \in Lanes, Expire(p, l)
    PROVE  LET old == panel[p].board
               lane == old.lane[l]
               over == Timeout(old, l, now)
               rested == BreakZero(old, l)
           IN  /\ panel[p].link
               /\ UNCHANGED count
               /\ \/ /\ lane.phase = "running" /\ now >= lane.at + lane.budget
                     /\ Event(p, panel[p].mode, over, {StopFrame(l, over)})
                     /\ truth' = OffTurn(l)
                  \/ /\ lane.phase = "onBreak" /\ now >= lane.at + lane.rest
                     /\ Event(p, panel[p].mode, rested, {BreakEndFrame(l, rested)})
                     /\ UNCHANGED truth
<1> DEFINE old == panel[p].board
           over == Timeout(old, l, now)
           rested == BreakZero(old, l)
<1>1. old \in Boards /\ panel[p].mode \in Modes /\ now \in Nat
  BY PageParts DEF TypeOK
<1>2. over \in Boards /\ rested \in Boards
  BY <1>1, PressedBoards
<1>3. CASE old.lane[l].phase = "running"
  <2>1. /\ now >= old.lane[l].at + old.lane[l].budget
        /\ Act(p, [panel[p] EXCEPT !.board = over], {StopFrame(l, over)})
        /\ truth' = OffTurn(l)
    BY <1>3 DEF Expire
  <2> HIDE DEF over
  <2>2. Event(p, panel[p].mode, over, {StopFrame(l, over)})
    BY <1>1, <1>2, <2>1, SameMode, CountFramesAre DEF Event, CountFrames
  <2> QED  BY <1>3, <2>1, <2>2 DEF over, Expire
<1>4. CASE old.lane[l].phase = "onBreak"
  <2>1. /\ now >= old.lane[l].at + old.lane[l].rest
        /\ Act(p, [panel[p] EXCEPT !.board = rested], {BreakEndFrame(l, rested)})
        /\ UNCHANGED truth
    BY <1>4 DEF Expire
  <2> HIDE DEF rested
  <2>2. Event(p, panel[p].mode, rested, {BreakEndFrame(l, rested)})
    BY <1>1, <1>2, <2>1, SameMode, CountFramesAre DEF Event, CountFrames
  <2> QED  BY <1>4, <2>1, <2>2 DEF rested, Expire
<1>5. old.lane[l].phase \in {"running", "onBreak"}
  BY DEF Expire
<1> QED  BY <1>3, <1>4, <1>5

LEMMA EventTypes ==
    ASSUME TypeOK, NEW p \in Panels, NEW mode, NEW b, NEW frames, Event(p, mode, b, frames),
           truth' \in [on : SUBSET Lanes, ran : [Lanes -> Nat], turn : Lanes \union {0}],
           count' \in [starts : Nat, breaks : Nat, arms : Nat, reloads : Nat]
    PROVE  TypeOK'
<1>1. [panel[p] EXCEPT !.mode = mode, !.board = b] \in Pages
  BY PagesChange, InitialStampIsAStamp DEF TypeOK, Event
<1> QED  BY <1>1, PressTypes DEF Event

\* What a panel sends when a frame moved its part of the selection.
Retold(p, t) ==
    IF View(t) = View(panel[p]) THEN {} ELSE {SelectionFrame(Restated(p, t.stamp), t)}

Mirror(s, f) == [Closed(s) EXCEPT !.board = Mirrored(@, f)]
Heard(s) == [s EXCEPT !.offer = FALSE]

LEMMA FrameKinds ==
    ASSUME NEW f \in Frames
    PROVE  /\ f.kind \in Countdowns => f \in CountFrames
           /\ f.kind = "selection" => f \in SelectionFrames
           /\ f.kind = "ask" => f \in AskFrames
           /\ f.kind = "snapshot" => f \in SnapshotFrames
           /\ f.kind \in Countdowns \union {"selection", "ask", "snapshot"}
           /\ f \in CountFrames => f.kind \in Countdowns
  BY DEF Frames, CountFrames, StartFrames, StopFrames, ResetFrames, BreakFrames, BreakEndFrames,
         SelectionFrames, AskFrames, SnapshotFrames, Countdowns

LEMMA HandledGives ==
    ASSUME NEW p \in Panels, NEW f
    PROVE  /\ f.kind = "ask" => Handled(p, f) = Answer(p)
           /\ f.kind \in Countdowns =>
                Handled(p, f) = [state |-> Mirror(panel[p], f), sent |-> Retold(p, Mirror(panel[p], f))]
           /\ f.kind = "selection" =>
                Handled(p, f) = [state |-> Followed(Heard(panel[p]), f),
                                 sent |-> Retold(p, Followed(Heard(panel[p]), f))]
           /\ f.kind = "snapshot" =>
                Handled(p, f) = [state |-> Hydrated(Heard(panel[p]), f),
                                 sent |-> Retold(p, Hydrated(Heard(panel[p]), f))]
<1>1. ASSUME f.kind = "ask"  PROVE Handled(p, f) = Answer(p)
  BY <1>1 DEF Handled
<1>2. ASSUME f.kind \in Countdowns
      PROVE Handled(p, f) = [state |-> Mirror(panel[p], f), sent |-> Retold(p, Mirror(panel[p], f))]
  BY <1>2 DEF Handled, Mirror, Retold, Countdowns
<1>3. ASSUME f.kind = "selection"
      PROVE Handled(p, f) = [state |-> Followed(Heard(panel[p]), f),
                             sent |-> Retold(p, Followed(Heard(panel[p]), f))]
  BY <1>3 DEF Handled, Heard, Retold, Countdowns
<1>4. ASSUME f.kind = "snapshot"
      PROVE Handled(p, f) = [state |-> Hydrated(Heard(panel[p]), f),
                             sent |-> Retold(p, Hydrated(Heard(panel[p]), f))]
  BY <1>4 DEF Handled, Heard, Retold, Countdowns
<1> QED  BY <1>1, <1>2, <1>3, <1>4

LEMMA RetoldTypes ==
    ASSUME TypeOK, NEW p \in Panels, NEW t \in Pages
    PROVE  Retold(p, t) \subseteq Frames
<1>1. t.stamp \in Stamp
  BY PageParts
<1>2. Restated(p, t.stamp) \in Stamp
  BY <1>1, StampsAreStamps
<1> QED  BY <1>2, FramesAre DEF Retold

LEMMA MirrorTypes ==
    ASSUME TypeOK, NEW s \in Pages, NEW f \in CountFrames
    PROVE  Mirror(s, f) \in Pages
<1>1. Closed(s) \in Pages
  BY DEF Closed, Pages
<1>2. Mirrored(Closed(s).board, f) \in Boards
  BY <1>1, PageParts, MirroredGives DEF TypeOK
<1> QED  BY <1>1, <1>2 DEF Mirror, Pages

LEMMA FollowedTypes ==
    ASSUME TypeOK, NEW s \in Pages, NEW f \in SelectionFrames
    PROVE  Followed(s, f) \in Pages
<1>1. f.stamp \in Stamp /\ f.view.mode \in Modes /\ f.view.nextUp \in Lanes \union {0}
  BY DEF SelectionFrames, Views
<1>2. PeerHint(s.board, f.view.nextUp, f.view.mode) \in Boards
  BY <1>1, PageParts, PeerHintGives
<1> QED  BY <1>1, <1>2 DEF Followed, Pages

LEMMA HydratedTypes ==
    ASSUME TypeOK, NEW s \in Pages, NEW f \in SnapshotFrames
    PROVE  Hydrated(s, f) \in Pages
<1>1. f.rows \in RowSet
  BY DEF SnapshotFrames
<1>2. PeerSnapshot(s.board, f.rows) \in Boards
  BY <1>1, PageParts, PeerSnapshotGives
<1> QED  BY <1>1, <1>2 DEF Hydrated, Pages

LEMMA AnswerTypes ==
    ASSUME TypeOK, NEW p \in Panels
    PROVE  Answer(p).state \in Pages /\ Answer(p).sent \subseteq Frames
<1>1. panel[p] \in Pages /\ panel[p].stamp \in Stamp
  BY PageParts DEF TypeOK
<1>2. Minted(p, panel[p].stamp, FALSE, 0) \in Stamp /\ Restated(p, panel[p].stamp) \in Stamp
  BY <1>1, StampsAreStamps
<1> DEFINE stamp == IF panel[p].stamp.seq > 0 THEN Restated(p, panel[p].stamp)
                    ELSE Minted(p, panel[p].stamp, FALSE, 0)
<1>3. stamp \in Stamp
  BY <1>2
<1>4. /\ Answer(p).state = IF panel[p].stamp.seq > 0 THEN panel[p] ELSE [panel[p] EXCEPT !.stamp = stamp]
      /\ Answer(p).sent = {SelectionFrame(stamp, panel[p]), SnapshotFrame(panel[p])}
  BY DEF Answer
<1> HIDE DEF stamp
<1>5. [panel[p] EXCEPT !.stamp = stamp] \in Pages
  BY <1>1, <1>3 DEF Pages
<1> QED  BY <1>1, <1>3, <1>4, <1>5, FramesAre

LEMMA HandledTypes ==
    ASSUME TypeOK, NEW p \in Panels, NEW f \in Frames
    PROVE  Handled(p, f).state \in Pages /\ Handled(p, f).sent \subseteq Frames
<1>1. panel[p] \in Pages
  BY DEF TypeOK
<1>2. panel[p] \in Pages /\ Heard(panel[p]) \in Pages
  BY <1>1 DEF Heard, Pages
<1>3. CASE f.kind = "ask"
  BY <1>3, HandledGives, AnswerTypes
<1>4. CASE f.kind \in Countdowns
  BY <1>2, <1>4, FrameKinds, HandledGives, MirrorTypes, RetoldTypes
<1>5. CASE f.kind = "selection"
  BY <1>2, <1>5, FrameKinds, HandledGives, FollowedTypes, RetoldTypes
<1>6. CASE f.kind = "snapshot"
  BY <1>2, <1>6, FrameKinds, HandledGives, HydratedTypes, RetoldTypes
<1> QED  BY <1>3, <1>4, <1>5, <1>6, FrameKinds

\* A frame handled, of all that it changes.
LEMMA DeliverGives ==
    ASSUME TypeOK, NEW p \in Panels, Deliver(p)
    PROVE  \E m \in net :
             LET done == Handled(p, m.frame)
             IN  /\ m.to = p /\ m.frame \in Frames
                 /\ done.state \in Pages /\ done.sent \subseteq Frames
                 /\ panel' \in [Panels -> Pages]
                 /\ panel'[p] = done.state
                 /\ \A q \in Panels \ {p} : panel'[q] = panel[q]
                 /\ net' = (net \ {m}) \union Fanout(p, done.sent)
                 /\ net' \subseteq [to : Panels, frame : Frames]
                 /\ stored' \in [Panels -> SUBSET Copies]
                 /\ \A q \in Panels \ {p} : stored'[q] = stored[q]
                 /\ UNCHANGED <<now, truth, count>>
<1>1. PICK m \in net :
        LET done == Handled(p, m.frame)
        IN  /\ m.to = p
            /\ panel' = [panel EXCEPT ![p] = done.state]
            /\ net' = (net \ {m}) \union Fanout(p, done.sent)
            /\ stored' = IF m.frame.kind \in Countdowns \/ View(done.state) # View(panel[p])
                         THEN [stored EXCEPT ![p] = Copy(done.state)] ELSE stored
  BY DEF Deliver
<1> DEFINE done == Handled(p, m.frame)
<1>2. m.frame \in Frames
  BY DEF TypeOK
<1>3. done.state \in Pages /\ done.sent \subseteq Frames
  BY <1>2, HandledTypes
<1>4. Copy(done.state) \subseteq Copies
  BY <1>3, CopiesAreCopies DEF TypeOK
<1>5. Fanout(p, done.sent) \subseteq [to : Panels, frame : Frames]
  BY <1>3, FanoutTypes
<1>6. UNCHANGED <<now, truth, count>>
  BY DEF Deliver
<1> HIDE DEF done
<1>7. /\ m.to = p
      /\ panel' = [panel EXCEPT ![p] = done.state]
      /\ net' = (net \ {m}) \union Fanout(p, done.sent)
      /\ stored' = [stored EXCEPT ![p] = Copy(done.state)] \/ stored' = stored
  BY <1>1 DEF done
<1>8. panel' \in [Panels -> Pages] /\ panel'[p] = done.state /\ \A q \in Panels \ {p} : panel'[q] = panel[q]
  BY <1>3, <1>7 DEF TypeOK
<1>9. stored' \in [Panels -> SUBSET Copies] /\ \A q \in Panels \ {p} : stored'[q] = stored[q]
  BY <1>4, <1>7 DEF TypeOK
<1>10. net' \subseteq [to : Panels, frame : Frames]
  BY <1>5, <1>7 DEF TypeOK
<1> QED  BY <1>2, <1>3, <1>6, <1>7, <1>8, <1>9, <1>10 DEF done

\* A copy put on the board.
LEMMA RecalledGives ==
    ASSUME NEW s \in Pages, NEW copy \in Copies
    PROVE  LET b == Recalled(s, copy).board
           IN  /\ Recalled(s, copy) \in Pages
               /\ Recalled(s, copy) = [s EXCEPT !.mode = copy.view.mode, !.board = b]
               /\ b \in Boards
               /\ b.lane = [l \in Lanes |-> LaneFromSnapshot(copy.rows[l])]
               /\ b.pause = s.board.pause
               /\ b.lastRan = IF LaneLive(b) THEN IF Runs(b, 1) THEN 1 ELSE 2
                              ELSE IF copy.view.nextUp = 0 \/ copy.view.mode # "battle" \/ LaneLive(s.board)
                                   THEN s.board.lastRan ELSE Other(copy.view.nextUp)
<1> DEFINE hinted == PeerHint(s.board, copy.view.nextUp, copy.view.mode)
           c == PeerSnapshot(hinted, copy.rows)
<1>1. copy.rows \in RowSet /\ copy.view.mode \in Modes /\ copy.view.nextUp \in Lanes \union {0}
  BY DEF Copies, Views
<1>2. /\ hinted \in Boards /\ hinted.pause = s.board.pause
      /\ hinted.lastRan = IF copy.view.nextUp = 0 \/ copy.view.mode # "battle" \/ LaneLive(s.board)
                          THEN s.board.lastRan ELSE Other(copy.view.nextUp)
  BY <1>1, PageParts, PeerHintGives
<1> HIDE DEF hinted
<1>3. /\ c \in Boards
      /\ c.lane = [l \in Lanes |-> LaneFromSnapshot(copy.rows[l])]
      /\ c.pause = s.board.pause
      /\ c.lastRan = IF LaneLive(c) THEN IF Runs(c, 1) THEN 1 ELSE 2 ELSE hinted.lastRan
  BY <1>1, <1>2, PeerSnapshotGives
<1>4. Recalled(s, copy) = [s EXCEPT !.mode = copy.view.mode, !.board = c]
  BY DEF Recalled, hinted
<1> HIDE DEF c
<1>5. Recalled(s, copy).board = c /\ Recalled(s, copy) \in Pages
  BY <1>1, <1>3, <1>4 DEF Pages
<1> QED  BY <1>2, <1>3, <1>4, <1>5

LEMMA ClaimingTypes ==
    ASSUME TypeOK, NEW p \in Panels, NEW s \in Pages
    PROVE  /\ Claiming(p, s).state \in Pages
           /\ Claiming(p, s).sent \subseteq Frames
           /\ \/ Claiming(p, s).state = s /\ Claiming(p, s).sent = {}
              \/ LET stamp == Minted(p, s.stamp, FALSE, 0)
                 IN  /\ panel[p].link
                     /\ Claiming(p, s).state = [s EXCEPT !.stamp = stamp]
                     /\ Claiming(p, s).sent = {SelectionFrame(stamp, s)}
<1> DEFINE stamp == Minted(p, s.stamp, FALSE, 0)
<1>1. stamp \in Stamp
  BY PageParts, StampsAreStamps
<1>2. [s EXCEPT !.stamp = stamp] \in Pages
  BY <1>1 DEF Pages
<1>3. SelectionFrame(stamp, s) \in Frames
  BY <1>1, FramesAre
<1>4. Claiming(p, s) =
        IF panel[p].link /\ View(s) # View(panel[p])
        THEN [state |-> [s EXCEPT !.stamp = stamp], sent |-> {SelectionFrame(stamp, s)}]
        ELSE [state |-> s, sent |-> {}]
  BY DEF Claiming
<1> HIDE DEF stamp
<1>5. /\ Claiming(p, s).state \in Pages
      /\ Claiming(p, s).sent \subseteq Frames
      /\ \/ Claiming(p, s).state = s /\ Claiming(p, s).sent = {}
         \/ /\ panel[p].link
            /\ Claiming(p, s).state = [s EXCEPT !.stamp = stamp]
            /\ Claiming(p, s).sent = {SelectionFrame(stamp, s)}
  BY <1>2, <1>3, <1>4
<1> QED  BY <1>5 DEF stamp

LEMMA RestoreGives ==
    ASSUME TypeOK, NEW p \in Panels, Restore(p)
    PROVE  LET s == Heard(panel[p])
           IN  /\ s \in Pages
               /\ panel[p].offer
               /\ panel[p].link \/ panel[p].away
               /\ Patient => net = {} /\ (panel[p].link \/ \A q \in Panels : ~panel[q].link)
               /\ panel' \in [Panels -> Pages] /\ \A q \in Panels \ {p} : panel'[q] = panel[q]
               /\ stored' \in [Panels -> SUBSET Copies] /\ \A q \in Panels \ {p} : stored'[q] = stored[q]
               /\ net' \subseteq [to : Panels, frame : Frames]
               /\ UNCHANGED <<now, truth, count>>
               /\ \/ /\ stored[p] = {}
                     /\ panel'[p] = s
                     /\ UNCHANGED <<stored, net>>
                  \/ \E copy \in stored[p] :
                       LET done == Claiming(p, Recalled(s, copy))
                       IN  /\ copy \in Copies
                           /\ done.state \in Pages /\ done.sent \subseteq Frames
                           /\ panel'[p] = done.state
                           /\ stored'[p] = IF done.sent = {} THEN stored[p] ELSE Copy(done.state)
                           /\ net' = net \union Fanout(p, done.sent)
<1> DEFINE s == Heard(panel[p])
<1>1. s \in Pages
  BY DEF Heard, TypeOK, Pages
<1>2. /\ panel[p].offer
      /\ panel[p].link \/ panel[p].away
      /\ Patient => net = {} /\ (panel[p].link \/ \A q \in Panels : ~panel[q].link)
      /\ UNCHANGED <<now, truth, count>>
  BY DEF Restore
<1>3. \/ /\ stored[p] = {}
         /\ panel' = [panel EXCEPT ![p] = s]
         /\ UNCHANGED <<stored, net>>
      \/ \E copy \in stored[p] :
           LET done == Claiming(p, Recalled(s, copy))
           IN  /\ panel' = [panel EXCEPT ![p] = done.state]
               /\ stored' = [stored EXCEPT ![p] = IF done.sent = {} THEN @ ELSE Copy(done.state)]
               /\ net' = net \union Fanout(p, done.sent)
  BY DEF Restore, Heard
<1> HIDE DEF s
<1>4. CASE /\ stored[p] = {}
           /\ panel' = [panel EXCEPT ![p] = s]
           /\ UNCHANGED <<stored, net>>
  BY <1>1, <1>2, <1>4 DEF s, TypeOK
<1>5. ASSUME NEW copy \in stored[p],
             LET done == Claiming(p, Recalled(s, copy))
             IN  /\ panel' = [panel EXCEPT ![p] = done.state]
                 /\ stored' = [stored EXCEPT ![p] = IF done.sent = {} THEN @ ELSE Copy(done.state)]
                 /\ net' = net \union Fanout(p, done.sent)
      PROVE  LET done == Claiming(p, Recalled(s, copy))
             IN  /\ copy \in Copies
                 /\ done.state \in Pages /\ done.sent \subseteq Frames
                 /\ panel' \in [Panels -> Pages] /\ \A q \in Panels \ {p} : panel'[q] = panel[q]
                 /\ stored' \in [Panels -> SUBSET Copies] /\ \A q \in Panels \ {p} : stored'[q] = stored[q]
                 /\ net' \subseteq [to : Panels, frame : Frames]
                 /\ panel'[p] = done.state
                 /\ stored'[p] = IF done.sent = {} THEN stored[p] ELSE Copy(done.state)
                 /\ net' = net \union Fanout(p, done.sent)
  <2> DEFINE done == Claiming(p, Recalled(s, copy))
  <2>1. copy \in Copies
    BY DEF TypeOK
  <2>2. done.state \in Pages /\ done.sent \subseteq Frames
    BY <1>1, <2>1, RecalledGives, ClaimingTypes
  <2>3. Copy(done.state) \subseteq Copies
    BY <2>2, CopiesAreCopies DEF TypeOK
  <2>4. Fanout(p, done.sent) \subseteq [to : Panels, frame : Frames]
    BY <2>2, FanoutTypes
  <2> HIDE DEF done
  <2>5. /\ panel' = [panel EXCEPT ![p] = done.state]
        /\ stored' = [stored EXCEPT ![p] = IF done.sent = {} THEN @ ELSE Copy(done.state)]
        /\ net' = net \union Fanout(p, done.sent)
    BY <1>5 DEF done
  <2>6. panel' \in [Panels -> Pages] /\ panel'[p] = done.state /\ \A q \in Panels \ {p} : panel'[q] = panel[q]
    BY <2>2, <2>5 DEF TypeOK
  <2>7. /\ stored' \in [Panels -> SUBSET Copies] /\ \A q \in Panels \ {p} : stored'[q] = stored[q]
        /\ stored'[p] = IF done.sent = {} THEN stored[p] ELSE Copy(done.state)
    BY <2>3, <2>5 DEF TypeOK
  <2>8. net' \subseteq [to : Panels, frame : Frames]
    BY <2>4, <2>5 DEF TypeOK
  <2> QED  BY <2>1, <2>2, <2>5, <2>6, <2>7, <2>8 DEF done
<1>6. CASE \E copy \in stored[p] :
             LET done == Claiming(p, Recalled(s, copy))
             IN  /\ panel' = [panel EXCEPT ![p] = done.state]
                 /\ stored' = [stored EXCEPT ![p] = IF done.sent = {} THEN @ ELSE Copy(done.state)]
                 /\ net' = net \union Fanout(p, done.sent)
  BY <1>1, <1>2, <1>5, <1>6 DEF s
<1> QED  BY <1>3, <1>4, <1>6 DEF s

LEMMA OpenGives ==
    ASSUME TypeOK, NEW p \in Panels, Open(p)
    PROVE  LET s == [panel[p] EXCEPT !.link = TRUE, !.away = FALSE]
               restored == ~s.offer /\ stored[p] # {}
               claim == Minted(p, s.stamp, FALSE, 0)
           IN  /\ ~panel[p].link /\ Calm(p)
               /\ s \in Pages
               /\ panel' \in [Panels -> Pages] /\ \A q \in Panels \ {p} : panel'[q] = panel[q]
               /\ panel'[p] = IF restored THEN [s EXCEPT !.stamp = claim] ELSE s
               /\ net' = net \union Fanout(p, {AskFrame(p)} \union
                                              IF restored THEN {SelectionFrame(claim, s)} ELSE {})
               /\ net' \subseteq [to : Panels, frame : Frames]
               /\ stored' \in [Panels -> SUBSET Copies] /\ \A q \in Panels \ {p} : stored'[q] = stored[q]
               /\ stored'[p] = IF restored THEN Copy(s) ELSE stored[p]
               /\ UNCHANGED <<now, truth, count>>
<1> DEFINE s == [panel[p] EXCEPT !.link = TRUE, !.away = FALSE]
           restored == ~s.offer /\ stored[p] # {}
           claim == Minted(p, s.stamp, FALSE, 0)
           sent == {AskFrame(p)} \union IF restored THEN {SelectionFrame(claim, s)} ELSE {}
<1>1. s \in Pages
  BY DEF TypeOK, Pages
<1>2. claim \in Stamp
  BY <1>1, PageParts, StampsAreStamps
<1>3. [s EXCEPT !.stamp = claim] \in Pages
  BY <1>1, <1>2 DEF Pages
<1>4. sent \subseteq Frames
  BY <1>1, <1>2, FramesAre
<1>5. Fanout(p, sent) \subseteq [to : Panels, frame : Frames]
  BY <1>4, FanoutTypes
<1>6. Copy(s) \subseteq Copies
  BY <1>1, CopiesAreCopies DEF TypeOK
<1>7. /\ ~panel[p].link /\ Calm(p)
      /\ panel' = [panel EXCEPT ![p] = IF restored THEN [s EXCEPT !.stamp = claim] ELSE s]
      /\ net' = net \union Fanout(p, sent)
      /\ stored' = IF restored THEN [stored EXCEPT ![p] = Copy(s)] ELSE stored
      /\ UNCHANGED <<now, truth, count>>
  BY DEF Open
<1> HIDE DEF s, restored, claim, sent
<1>8. /\ panel' \in [Panels -> Pages] /\ \A q \in Panels \ {p} : panel'[q] = panel[q]
      /\ panel'[p] = IF restored THEN [s EXCEPT !.stamp = claim] ELSE s
  BY <1>1, <1>3, <1>7 DEF TypeOK
<1>9. /\ stored' \in [Panels -> SUBSET Copies] /\ \A q \in Panels \ {p} : stored'[q] = stored[q]
      /\ stored'[p] = IF restored THEN Copy(s) ELSE stored[p]
  BY <1>6, <1>7 DEF TypeOK
<1>10. net' \subseteq [to : Panels, frame : Frames]
  BY <1>5, <1>7 DEF TypeOK
<1> QED  BY <1>1, <1>7, <1>8, <1>9, <1>10 DEF s, restored, claim, sent

LEMMA ReloadGives ==
    ASSUME TypeOK, NEW p \in Panels, Reload(p)
    PROVE  /\ panel[p].link /\ Calm(p)
           /\ panel' \in [Panels -> Pages] /\ \A q \in Panels \ {p} : panel'[q] = panel[q]
           /\ panel'[p] = [Page(panel[p].mode) EXCEPT !.away = TRUE]
           /\ count' \in [starts : Nat, breaks : Nat, arms : Nat, reloads : Nat]
           /\ UNCHANGED <<stored, net, now, truth>>
<1>1. [Page(panel[p].mode) EXCEPT !.away = TRUE] \in Pages
  BY PageParts, PageIsAPage DEF TypeOK
<1>2. count' \in [starts : Nat, breaks : Nat, arms : Nat, reloads : Nat]
  BY CountedTypes DEF Reload
<1>3. panel' = [panel EXCEPT ![p] = [Page(panel[p].mode) EXCEPT !.away = TRUE]]
  BY DEF Reload
<1> QED  BY <1>1, <1>2, <1>3 DEF Reload, TypeOK

LEMMA TypesAreKept ==
    ASSUME TypeOK, [Next]_vars
    PROVE  TypeOK'
<1>1. ASSUME NEW p \in Panels, NEW l \in Lanes, StartLane(p, l)  PROVE TypeOK'
  <2>1. truth' \in [on : SUBSET Lanes, ran : [Lanes -> Nat], turn : Lanes \union {0}]
    BY <1>1, TruthTypes DEF StartLane
  <2>2. count' \in [starts : Nat, breaks : Nat, arms : Nat, reloads : Nat]
    BY <1>1, CountedTypes DEF StartLane, Pressed
  <2> QED  BY <1>1, <2>1, <2>2, StartIsAnEvent, EventTypes
<1>2. ASSUME NEW p \in Panels, NEW l \in Lanes, StopLane(p, l)  PROVE TypeOK'
  <2>1. truth' \in [on : SUBSET Lanes, ran : [Lanes -> Nat], turn : Lanes \union {0}]
    BY <1>2, TruthTypes DEF StopLane
  <2>2. count' \in [starts : Nat, breaks : Nat, arms : Nat, reloads : Nat]
    BY <1>2 DEF StopLane, TypeOK
  <2> QED  BY <1>2, <2>1, <2>2, StopIsAnEvent, EventTypes
<1>3. ASSUME NEW p \in Panels, NEW l \in Lanes, TakeABreak(p, l)  PROVE TypeOK'
  <2>1. truth' \in [on : SUBSET Lanes, ran : [Lanes -> Nat], turn : Lanes \union {0}]
    BY <1>3, TruthTypes DEF TakeABreak
  <2>2. count' \in [starts : Nat, breaks : Nat, arms : Nat, reloads : Nat]
    BY <1>3, CountedTypes DEF TakeABreak, Pressed
  <2> QED  BY <1>3, <2>1, <2>2, BreakIsAnEvent, EventTypes
<1>4. ASSUME NEW p \in Panels, NEW l \in Lanes, Reset(p, l)  PROVE TypeOK'
  <2>1. truth' \in [on : SUBSET Lanes, ran : [Lanes -> Nat], turn : Lanes \union {0}]
    BY <1>4, TruthTypes DEF Reset
  <2>2. count' \in [starts : Nat, breaks : Nat, arms : Nat, reloads : Nat]
    BY <1>4, CountedTypes DEF Reset, Pressed
  <2> DEFINE b == ResetLane(panel[p].board, l, panel[p].board.lane[l].armed)
  <2>3. Event(p, panel[p].mode, b, {ResetFrame(l, b)})
    BY <1>4, ResetIsAnEvent
  <2> HIDE DEF b
  <2> QED  BY <2>1, <2>2, <2>3, EventTypes
<1>5. ASSUME NEW p \in Panels, NEW l \in Lanes, Expire(p, l)  PROVE TypeOK'
  <2>1. truth' \in [on : SUBSET Lanes, ran : [Lanes -> Nat], turn : Lanes \union {0}]
    <3>1. truth' = OffTurn(l) \/ truth' = truth
      BY <1>5, ExpiryIsAnEvent
    <3> QED  BY <3>1, OffTurnTypes DEF TypeOK
  <2>2. count' \in [starts : Nat, breaks : Nat, arms : Nat, reloads : Nat]
    BY <1>5, ExpiryIsAnEvent DEF TypeOK
  <2> QED  BY <1>5, <2>1, <2>2, ExpiryIsAnEvent, EventTypes
<1>6. ASSUME NEW p \in Panels, ResetRecorded(p)  PROVE TypeOK'
  <2>1. truth' \in [on : SUBSET Lanes, ran : [Lanes -> Nat], turn : Lanes \union {0}]
    BY <1>6, TruthTypes, LanesAre DEF ResetRecorded
  <2>2. count' \in [starts : Nat, breaks : Nat, arms : Nat, reloads : Nat]
    BY <1>6, CountedTypes DEF ResetRecorded, Pressed
  <2> QED  BY <1>6, <2>1, <2>2, ClearIsAnEvent, EventTypes
<1>7. ASSUME NEW p \in Panels, ApplyRunBudget(p) \/ ApplyMode(p)  PROVE TypeOK'
  <2>1. PICK mode \in Modes : \E budget \in Nat : Format(p, mode, budget)
    BY <1>7, FormatsAre
  <2>2. PICK budget \in Nat : Format(p, mode, budget)
    BY <2>1
  <2>3. truth' \in [on : SUBSET Lanes, ran : [Lanes -> Nat], turn : Lanes \union {0}]
    <3>1. truth' = ReArm(Ground(p), ReArmed(panel[p].board)) /\ 1 \in Lanes
      BY <2>2, LanesAre DEF Format
    <3> QED  BY <3>1, ReArmTypes
  <2>4. count' \in [starts : Nat, breaks : Nat, arms : Nat, reloads : Nat]
    BY <2>2, CountedTypes DEF Format, Pressed
  <2> QED  BY <2>2, <2>3, <2>4, FormatIsAnEvent, EventTypes
<1>8. ASSUME NEW p \in Panels, Reload(p)  PROVE TypeOK'
  BY <1>8, ReloadGives DEF TypeOK
<1>9. ASSUME NEW p \in Panels, Restore(p)  PROVE TypeOK'
  BY <1>9, RestoreGives DEF TypeOK
<1>10. ASSUME NEW p \in Panels, Open(p)  PROVE TypeOK'
  BY <1>10, OpenGives DEF TypeOK
<1>11. ASSUME NEW p \in Panels, Deliver(p)  PROVE TypeOK'
  BY <1>11, DeliverGives DEF TypeOK
<1>12. ASSUME Tick  PROVE TypeOK'
  BY <1>12 DEF Tick, TypeOK
<1>13. ASSUME UNCHANGED vars  PROVE TypeOK'
  BY <1>13 DEF vars, TypeOK
<1> QED
  BY <1>1, <1>2, <1>3, <1>4, <1>5, <1>6, <1>7, <1>8, <1>9, <1>10, <1>11, <1>12, <1>13 DEF Next

\* Pages, copies, frames, clock and history keep their types, whoever presses what and
\* when (useFreestyleBoard.ts): no event leaves a lane a negative budget or break.
THEOREM BattleTypeCorrect == Spec => []TypeOK
<1>1. Init => TypeOK
  <2> SUFFICES ASSUME Init  PROVE TypeOK
    OBVIOUS
  <2>1. panel \in [Panels -> Pages]
    BY PageIsAPage, ZenonT(40) DEF Init
  <2> QED  BY <2>1 DEF Init, TypeOK, NoTurns
<1>2. TypeOK /\ [Next]_vars => TypeOK'
  BY TypesAreKept
<1> QED  BY <1>1, <1>2, PTL DEF Spec

-----------------------------------------------------------------------------
(* Lanes that show the same.                                               *)

\* Two lanes that a panel shows alike at time t.
Alike(a, b, t) == Row(a, t) = Row(b, t)

\* The clock of a lane is at zero.
AtZero(lane, t) ==
    \/ lane.phase = "running" /\ t >= lane.at + lane.budget
    \/ lane.phase = "onBreak" /\ t >= lane.at + lane.rest

\* A lane the machine can be in: a budget is there unless it was spent.
Proper(lane) ==
    /\ lane.armed > 0
    /\ lane.phase = "idle" => lane.budget > 0 /\ lane.at = 0 /\ lane.rest = 0
    /\ lane.phase = "finished" => lane.budget = 0 /\ lane.at = 0 /\ lane.rest = 0
    /\ lane.phase = "running" => lane.rest = 0
    /\ lane.phase = "onBreak" => lane.budget > 0

LEMMA AlikeMeans ==
    ASSUME NEW a \in LaneStates, NEW b \in LaneStates, NEW t \in Nat
    PROVE  Alike(a, b, t) <=>
             /\ a.phase = b.phase /\ a.armed = b.armed /\ a.left = b.left
             /\ a.phase = "running" => Remaining(a, t) = Remaining(b, t) /\ a.rest = b.rest
             /\ a.phase = "onBreak" =>
                  a.budget = b.budget /\ RemainingFrom(a.rest, a.at, t) = RemainingFrom(b.rest, b.at, t)
             /\ a.phase \notin {"running", "onBreak"} => a = b
<1>1. /\ Row(a, t).phase = a.phase /\ Row(a, t).armed = a.armed /\ Row(a, t).left = a.left
      /\ a.phase = "running" =>
           Row(a, t).budget = Remaining(a, t) /\ Row(a, t).rest = a.rest /\ Row(a, t).at = t
      /\ a.phase = "onBreak" =>
           /\ Row(a, t).budget = a.budget /\ Row(a, t).rest = RemainingFrom(a.rest, a.at, t)
           /\ Row(a, t).at = t
      /\ a.phase \notin {"running", "onBreak"} => Row(a, t) = a
  BY DEF Row, LaneStates
<1>2. /\ Row(b, t).phase = b.phase /\ Row(b, t).armed = b.armed /\ Row(b, t).left = b.left
      /\ b.phase = "running" =>
           Row(b, t).budget = Remaining(b, t) /\ Row(b, t).rest = b.rest /\ Row(b, t).at = t
      /\ b.phase = "onBreak" =>
           /\ Row(b, t).budget = b.budget /\ Row(b, t).rest = RemainingFrom(b.rest, b.at, t)
           /\ Row(b, t).at = t
      /\ b.phase \notin {"running", "onBreak"} => Row(b, t) = b
  BY DEF Row, LaneStates
<1>3. Row(a, t) \in LaneStates /\ Row(b, t) \in LaneStates
  BY RowIsALaneState
<1>4. Row(a, t) = Row(b, t) <=>
        /\ Row(a, t).phase = Row(b, t).phase /\ Row(a, t).budget = Row(b, t).budget
        /\ Row(a, t).armed = Row(b, t).armed /\ Row(a, t).at = Row(b, t).at
        /\ Row(a, t).rest = Row(b, t).rest /\ Row(a, t).left = Row(b, t).left
  BY <1>3 DEF LaneStates
<1> QED  BY <1>1, <1>2, <1>4 DEF Alike

LEMMA AlikeIsEqual ==
    ASSUME NEW t
    PROVE  /\ \A a : Alike(a, a, t)
           /\ \A a, b : Alike(a, b, t) => Alike(b, a, t)
           /\ \A a, b, c : Alike(a, b, t) /\ Alike(b, c, t) => Alike(a, c, t)
  BY DEF Alike

\* Two clocks that show the same go on to.
LEMMA ClocksTick ==
    ASSUME NEW d \in Nat, NEW s \in Nat, NEW e \in Nat, NEW u \in Nat, NEW t \in Nat,
           RemainingFrom(d, s, t) = RemainingFrom(e, u, t)
    PROVE  RemainingFrom(d, s, t + 1) = RemainingFrom(e, u, t + 1)
  BY DEF RemainingFrom

LEMMA AlikeTicks ==
    ASSUME NEW a \in LaneStates, NEW b \in LaneStates, NEW t \in Nat, Alike(a, b, t)
    PROVE  Alike(a, b, t + 1)
<1>1. a.budget \in Nat /\ a.at \in Nat /\ a.rest \in Nat /\ b.budget \in Nat /\ b.at \in Nat /\ b.rest \in Nat
  BY LaneParts
<1>2. /\ a.phase = b.phase /\ a.armed = b.armed /\ a.left = b.left
      /\ a.phase = "running" => Remaining(a, t) = Remaining(b, t) /\ a.rest = b.rest
      /\ a.phase = "onBreak" =>
           a.budget = b.budget /\ RemainingFrom(a.rest, a.at, t) = RemainingFrom(b.rest, b.at, t)
      /\ a.phase \notin {"running", "onBreak"} => a = b
  BY AlikeMeans
<1>3. a.phase = "running" => Remaining(a, t + 1) = Remaining(b, t + 1)
  BY <1>1, <1>2, ClocksTick DEF Remaining
<1>4. a.phase = "onBreak" => RemainingFrom(a.rest, a.at, t + 1) = RemainingFrom(b.rest, b.at, t + 1)
  BY <1>1, <1>2, ClocksTick
<1>5. t + 1 \in Nat
  OBVIOUS
<1> QED  BY <1>2, <1>3, <1>4, <1>5, AlikeMeans

LEMMA ZeroMeans ==
    ASSUME NEW lane \in LaneStates, NEW t \in Nat
    PROVE  /\ lane.phase = "running" => (AtZero(lane, t) <=> Remaining(lane, t) = 0)
           /\ lane.phase = "onBreak" => (AtZero(lane, t) <=> RemainingFrom(lane.rest, lane.at, t) = 0)
           /\ lane.phase \notin {"running", "onBreak"} => ~AtZero(lane, t)
<1>1. lane.budget \in Nat /\ lane.at \in Nat /\ lane.rest \in Nat
  BY LaneParts
<1> QED  BY <1>1 DEF AtZero, Remaining, RemainingFrom

LEMMA ZeroAlike ==
    ASSUME NEW a \in LaneStates, NEW b \in LaneStates, NEW t \in Nat, Alike(a, b, t)
    PROVE  AtZero(a, t) <=> AtZero(b, t)
  BY AlikeMeans, ZeroMeans

LEMMA SpentIsALaneState ==
    ASSUME NEW lane \in LaneStates
    PROVE  Spent(lane) \in LaneStates
  BY LaneParts, IdleIsALaneState DEF Spent

\* Clocks that show the same leave the same lane at zero.
LEMMA SpentAlike ==
    ASSUME NEW a \in LaneStates, NEW b \in LaneStates, NEW t \in Nat, Alike(a, b, t)
    PROVE  a.phase \in {"running", "onBreak"} => Spent(a) = Spent(b)
  BY AlikeMeans DEF Spent

\* A frame lands alike on lanes that are alike.
LEMMA LandsAlike ==
    ASSUME NEW f \in CountFrames, NEW a \in LaneStates, NEW b \in LaneStates, NEW t \in Nat,
           Alike(a, b, t)
    PROVE  Alike(Lands(f, a), Lands(f, b), t)
<1>1. a.phase = b.phase /\ a.armed = b.armed /\ a.left = b.left
  BY AlikeMeans
<1>2. Lands(f, a) = Lands(f, b) \/ (Lands(f, a) = a /\ Lands(f, b) = b)
  BY <1>1, CountFrameParts DEF Lands, StoppedLane, Countdowns
<1> QED  BY <1>2 DEF Alike

LEMMA ProperRow ==
    ASSUME NEW lane \in LaneStates, NEW t \in Nat, Proper(lane)
    PROVE  /\ Proper(Row(lane, t))
           /\ LaneFromSnapshot(Row(lane, t)) = Row(lane, t)
           /\ Alike(Row(lane, t), lane, t)
<1>1. lane.budget \in Nat /\ lane.at \in Nat /\ lane.rest \in Nat /\ lane.phase \in Phases
  BY LaneParts
<1>2. Row(lane, t) \in LaneStates
  BY RowIsALaneState
<1>3. CASE lane.phase = "running"
  <2> DEFINE row == [lane EXCEPT !.budget = Remaining(lane, t), !.at = t]
  <2>1. Row(lane, t) = row
    BY <1>3 DEF Row
  <2>2. /\ row.phase = "running" /\ row.budget = Remaining(lane, t) /\ row.at = t
        /\ row.rest = lane.rest /\ row.armed = lane.armed /\ row.left = lane.left
    BY <1>3 DEF LaneStates
  <2>3. Remaining(lane, t) \in Nat
    BY RemainingIsNat
  <2>4. Remaining(row, t) = Remaining(lane, t)
    BY <2>2, <2>3 DEF Remaining, RemainingFrom
  <2>5. row \in LaneStates
    BY <1>2, <2>1
  <2> HIDE DEF row
  <2>6. Alike(row, lane, t)
    BY <1>3, <2>2, <2>4, <2>5, AlikeMeans
  <2>7. Proper(row)
    BY <1>3, <2>2 DEF Proper
  <2>8. LaneFromSnapshot(row) = row
    BY <2>2 DEF LaneFromSnapshot
  <2> QED  BY <2>1, <2>6, <2>7, <2>8
<1>4. CASE lane.phase = "onBreak"
  <2> DEFINE row == [lane EXCEPT !.rest = RemainingFrom(lane.rest, lane.at, t), !.at = t]
  <2>1. Row(lane, t) = row
    BY <1>4 DEF Row
  <2>2. /\ row.phase = "onBreak" /\ row.budget = lane.budget /\ row.at = t
        /\ row.rest = RemainingFrom(lane.rest, lane.at, t) /\ row.armed = lane.armed /\ row.left = lane.left
    BY <1>4 DEF LaneStates
  <2>3. RemainingFrom(lane.rest, lane.at, t) \in Nat
    BY <1>1, RemainingFromIsNat
  <2>4. RemainingFrom(row.rest, row.at, t) = RemainingFrom(lane.rest, lane.at, t)
    BY <2>2, <2>3 DEF RemainingFrom
  <2>5. row \in LaneStates
    BY <1>2, <2>1
  <2> HIDE DEF row
  <2>6. Alike(row, lane, t)
    BY <1>4, <2>2, <2>4, <2>5, AlikeMeans
  <2>7. Proper(row)
    BY <1>4, <2>2 DEF Proper
  <2>8. LaneFromSnapshot(row) = row
    BY <2>2 DEF LaneFromSnapshot
  <2> QED  BY <2>1, <2>6, <2>7, <2>8
<1>5. CASE lane.phase \in {"idle", "finished"}
  <2>1. Row(lane, t) = lane
    BY <1>5 DEF Row
  <2>2. lane = Lane(lane.phase, lane.budget, lane.armed, lane.at, lane.rest, lane.left)
    BY LaneParts
  <2>3. LaneFromSnapshot(lane) = lane
    BY <1>1, <1>5, <2>2 DEF LaneFromSnapshot, Proper, Idle, Finished
  <2> QED  BY <2>1, <2>3 DEF Alike
<1> QED  BY <1>1, <1>3, <1>4, <1>5 DEF Phases

LEMMA ProperAlike ==
    ASSUME NEW a \in LaneStates, NEW b \in LaneStates, NEW t \in Nat, Alike(a, b, t)
    PROVE  Proper(a) <=> Proper(b)
<1>1. /\ a.phase = b.phase /\ a.armed = b.armed
      /\ a.phase = "running" => a.rest = b.rest
      /\ a.phase = "onBreak" => a.budget = b.budget
      /\ a.phase \notin {"running", "onBreak"} => a = b
  BY AlikeMeans
<1> QED  BY <1>1 DEF Proper

\* Proper lanes that frames leave.
LEMMA ProperLands ==
    ASSUME NEW f \in CountFrames, NEW lane \in LaneStates, Proper(lane),
           f.kind # "stop" => f.remaining > 0
    PROVE  Proper(Lands(f, lane))
<1>1. f.remaining \in Nat /\ f.kind \in Countdowns
  BY CountFrameParts
<1> QED  BY <1>1 DEF Lands, Proper, Lane, Idle, Finished, StoppedLane, Countdowns

LEMMA ProperSpent ==
    ASSUME NEW lane \in LaneStates, Proper(lane), lane.phase \in {"running", "onBreak"}
    PROVE  Proper(Spent(lane))
  BY DEF Spent, Proper, Lane, Idle, Finished

-----------------------------------------------------------------------------
(* Pages, where operators act when nothing is in flight.                   *)

\* Page x asked the room, and someone has not answered.
Asking(x) == \E m \in net : m.frame.kind = "ask" /\ m.frame.by = x

\* A frame is on its way to page x.
Expects(x) == \E m \in net : m.to = x

\* A page that is away is the only one that does not listen; one that has a copy
\* on offer is blank, and alone or about to hear of the others.
PagesFit ==
    /\ \A x \in Panels : panel[x].away =>
         /\ ~panel[x].link
         /\ \A q \in Panels \ {x} : ~panel[q].away /\ (panel[q].link => ~panel[q].offer)
         /\ ~panel[x].offer => \A q \in Panels : ~panel[q].link
    /\ \A x \in Panels : ~panel[x].link => panel[x].stamp = InitialStamp /\ ~panel[x].live
    /\ \A x \in Panels : panel[x].offer => panel[x].board = InitialBoard(Preset[panel[x].mode])
    /\ \A x \in Panels : ~panel[x].link /\ ~panel[x].away => panel[x].offer /\ stored[x] = {}
    /\ \A x \in Panels : \A y \in Panels :
         panel[x].link /\ panel[x].offer /\ panel[y].link /\ x # y =>
           ~panel[y].offer /\ (Asking(x) \/ Expects(x))
    /\ \A m \in net :
         /\ panel[m.to].link
         /\ \E y \in Panels : y # m.to /\ panel[y].link
         /\ m.frame.kind = "ask" => m.to # m.frame.by /\ ~panel[m.to].offer

\* Lanes a mode allows: proper ones, one of which runs at most; lane 2 is hidden
\* in quali, and only quali has breaks.
Fitting(mode, lanes) ==
    /\ \A l \in Lanes : Proper(lanes[l])
    /\ \A l \in Lanes : lanes[l].phase = "running" => lanes[Other(l)].phase # "running"
    /\ mode = "quali" => lanes[2].phase = "idle"
    /\ mode = "battle" => \A l \in Lanes : lanes[l].phase # "onBreak"

\* Page p is the only one that was ever opened.
Solo(p) ==
    /\ panel[p].link \/ panel[p].away
    /\ \A q \in Panels \ {p} : ~panel[q].link /\ ~panel[q].away

CopyLanes(copy) == [l \in Lanes |-> LaneFromSnapshot(copy.rows[l])]

\* Such a page shows, and would restore, lanes that its mode allows.
SoloFits ==
    \A p \in Panels : Solo(p) =>
        /\ Fitting(panel[p].mode, panel[p].board.lane)
        /\ \A copy \in stored[p] : Fitting(copy.view.mode, CopyLanes(copy))

-----------------------------------------------------------------------------
(* The room.  A room w has the lanes c that its panels show or will once   *)
(* their frames are in, the lanes d they showed before, one mode, the top  *)
(* sequence number of the stamps, and the page that is joining, or 0.      *)

Rooms == [c : RowSet, d : RowSet, mode : Modes, seq : Nat, joiner : Panels \union {0}]

\* A countdown frame for lane l is on its way to page x.
Awaits(x, l) == \E m \in net : m.to = x /\ m.frame.kind \in Countdowns /\ m.frame.lane = l

\* A selection under the sequence number n is on its way to page x.
Told(x, n) == \E m \in net : m.to = x /\ m.frame.kind = "selection" /\ m.frame.stamp.seq = n

\* The lanes of a board show what those of another do.
Shows(lanes, others) == \A l \in Lanes : Alike(lanes[l], others[l], now)

AllIdle(w) == \A l \in Lanes : w.c[l].phase = "idle" /\ w.d[l].phase = "idle"

\* Countdown frames: whichever comes, and however often, it leaves the room's lane.
FramesFit(w) ==
    \A m \in net : m.frame.kind \in Countdowns =>
        /\ w.joiner = 0
        /\ Alike(Lands(m.frame, w.c[m.frame.lane]), w.c[m.frame.lane], now)
        /\ Alike(Lands(m.frame, w.d[m.frame.lane]), w.c[m.frame.lane], now)
        /\ m.frame.kind \in {"start", "reset"} =>
             /\ w.c[Other(m.frame.lane)].phase # "running"
             /\ w.d[Other(m.frame.lane)].phase # "running"

\* A panel shows the room's lane, or the one before and has a frame to come.
LanesFit(w) ==
    \A x \in Panels : panel[x].link /\ x # w.joiner => \A l \in Lanes :
        \/ Alike(panel[x].board.lane[l], w.c[l], now)
        \/ Alike(panel[x].board.lane[l], w.d[l], now) /\ Awaits(x, l)

\* A joining page has hydrated, or has an answer to come; no event is in flight.
JoinFits(w) ==
    /\ w.joiner # 0 =>
         /\ panel[w.joiner].link
         /\ w.d = w.c
         /\ \E x \in Panels : x # w.joiner /\ panel[x].link /\ ~panel[x].offer
         /\ \/ Shows(panel[w.joiner].board.lane, w.c)
            \/ /\ ~panel[w.joiner].live
               /\ \A l \in Lanes : panel[w.joiner].board.lane[l].phase = "idle"
               /\ Asking(w.joiner) \/ \E m \in net : m.to = w.joiner /\ m.frame.kind = "snapshot"
    /\ \A m \in net :
         /\ m.frame.kind = "ask" => m.frame.by = w.joiner
         /\ m.frame.kind = "snapshot" =>
              w.joiner # 0 /\ Shows([l \in Lanes |-> LaneFromSnapshot(m.frame.rows[l])], w.c)

\* A clock at zero finds the room quiet; a panel whose clock is at zero shows the
\* room's lane, or will by its own timer.
ZerosFit(w) ==
    /\ \A l \in Lanes : AtZero(w.c[l], now) => net = {}
    /\ \A x \in Panels : panel[x].link /\ x # w.joiner => \A l \in Lanes :
         AtZero(panel[x].board.lane[l], now) =>
             \/ Alike(panel[x].board.lane[l], w.c[l], now)
             \/ Alike(Spent(panel[x].board.lane[l]), w.c[l], now)

\* While a frame is in flight some panel shows all of the room's lanes.
LeaderFits(w) ==
    net # {} => \E x \in Panels : panel[x].link /\ x # w.joiner /\ Shows(panel[x].board.lane, w.c)

\* No lane runs, before or now, when the other does; both sets of lanes fit the mode.
ClocksFit(w) ==
    /\ Fitting(w.mode, w.c)
    /\ Fitting(w.mode, w.d)
    /\ \A l \in Lanes : w.c[l].phase = "running" => w.d[Other(l)].phase # "running"

\* Panels under the top sequence number have the room's mode, the others hear of it.
ModesFit(w) ==
    /\ \A x \in Panels : panel[x].link =>
         /\ panel[x].stamp.seq <= w.seq
         /\ panel[x].stamp.seq = w.seq =>
              panel[x].mode = w.mode \/ (x = w.joiner /\ w.seq = 0 /\ Asking(x))
         /\ panel[x].stamp.seq < w.seq => Told(x, w.seq) \/ (x = w.joiner /\ Asking(x))
         /\ w.joiner # 0 /\ x # w.joiner => panel[x].stamp.seq = w.seq
         /\ panel[x].mode # w.mode => x = w.joiner \/ AllIdle(w)
    /\ \A m \in net : m.frame.kind = "selection" =>
         /\ m.frame.stamp.seq <= w.seq
         /\ m.frame.stamp.seq = w.seq => m.frame.view.mode = w.mode
         /\ m.frame.view.mode # w.mode => w.joiner # 0 \/ AllIdle(w)
    /\ w.seq = 0 =>
         /\ \A x \in Panels : \A y \in Panels : panel[x].link /\ panel[y].link /\ x # y =>
              w.joiner \in {x, y} /\ Asking(w.joiner)
         /\ \A m \in net : m.frame.kind = "ask"

Room(w) ==
    /\ FramesFit(w) /\ LanesFit(w) /\ JoinFits(w) /\ ZerosFit(w) /\ LeaderFits(w) /\ ClocksFit(w)
    /\ ModesFit(w)

-----------------------------------------------------------------------------
(* The time that turns spent.                                              *)

\* Lanes have spent the turns of a history, and those on turn run.
Spends(lanes, past) ==
    \A l \in Lanes :
        /\ Remaining(lanes[l], now) = RemainingFrom(lanes[l].armed, 0, past.ran[l])
        /\ lanes[l].phase = "running" <=> l \in past.on

\* The room's lanes have spent the turns that were taken.
TruthFits(w) ==
    \A x \in Panels : panel[x].link /\ x # w.joiner /\ ~panel[x].offer => Spends(w.c, truth)

\* So have those of a page alone, and those it would restore.
SoloCounts ==
    /\ (\A x \in Panels : ~panel[x].link /\ ~panel[x].away) => truth = NoTurns
    /\ \A p \in Panels : Solo(p) =>
         /\ stored[p] = {} => truth.on = {} /\ \A l \in Lanes : truth.ran[l] = 0
         /\ \A copy \in stored[p] : Spends(CopyLanes(copy), truth)
         /\ ~panel[p].offer => Spends(panel[p].board.lane, truth)

-----------------------------------------------------------------------------
(* Pages, step by step.                                                    *)

LEMMA FanoutIs ==
    ASSUME NEW p \in Panels, NEW frames
    PROVE  /\ \A m \in Fanout(p, frames) :
                m.to \in Panels /\ m.to # p /\ panel[m.to].link /\ m.frame \in frames
           /\ \A q \in Panels : q # p /\ panel[q].link =>
                \A f \in frames : [to |-> q, frame |-> f] \in Fanout(p, frames)
  BY DEF Fanout

\* An event of page p, of all that the room sees of it.
LEMMA EventGives ==
    ASSUME TypeOK, NEW p \in Panels, NEW mode, NEW b, NEW frames, Event(p, mode, b, frames)
    PROVE  LET s == [panel[p] EXCEPT !.mode = mode, !.board = b]
               claim == Minted(p, panel[p].stamp, TRUE, 0)
           IN  /\ s \in Pages
               /\ panel'[p].link = panel[p].link /\ panel'[p].away = panel[p].away
               /\ panel'[p].live /\ ~panel'[p].offer
               /\ panel'[p].mode = mode /\ panel'[p].board = b
               /\ \A q \in Panels \ {p} : panel'[q] = panel[q] /\ stored'[q] = stored[q]
               /\ stored'[p] = Copy(s)
               /\ now' = now
               /\ \/ /\ panel'[p].stamp = claim
                     /\ net' = net \union Fanout(p, frames \union {SelectionFrame(claim, s)})
                  \/ /\ panel'[p].stamp = panel[p].stamp /\ mode = panel[p].mode
                     /\ View(s) = View(panel[p])
                     /\ net' = net \union Fanout(p, frames)
<1> DEFINE s == [panel[p] EXCEPT !.mode = mode, !.board = b]
<1>1. b \in Boards /\ mode \in Modes /\ frames \subseteq CountFrames /\ Act(p, s, frames)
  BY DEF Event
<1>2. panel[p] \in Pages
  BY DEF TypeOK
<1>3. /\ s \in Pages /\ s.stamp = panel[p].stamp /\ s.mode = mode /\ s.board = b
      /\ s.link = panel[p].link /\ s.away = panel[p].away
  BY <1>1, <1>2 DEF Pages
<1> HIDE DEF s
<1> DEFINE claim == Minted(p, panel[p].stamp, TRUE, 0)
           moved == View(s) # View(panel[p])
           sent == frames \union IF moved THEN {SelectionFrame(claim, s)} ELSE {}
<1>4. /\ panel' = [panel EXCEPT ![p] = IF moved THEN [Closed(s) EXCEPT !.stamp = claim] ELSE Closed(s)]
      /\ stored' = [stored EXCEPT ![p] = Copy(s)]
      /\ net' = net \union Fanout(p, sent)
      /\ now' = now
  BY <1>1, <1>3 DEF Act
<1>5. panel \in [Panels -> Pages] /\ stored \in [Panels -> SUBSET Copies]
  BY DEF TypeOK
<1>6. claim \in Stamp
  BY <1>2, PageParts, StampsAreStamps
<1> HIDE DEF claim
<1>7. /\ panel'[p].link = panel[p].link /\ panel'[p].away = panel[p].away
      /\ panel'[p].live /\ ~panel'[p].offer
      /\ panel'[p].mode = mode /\ panel'[p].board = b
      /\ panel'[p].stamp = IF moved THEN claim ELSE panel[p].stamp
  <2>1. panel'[p] = IF moved THEN [Closed(s) EXCEPT !.stamp = claim] ELSE Closed(s)
    BY <1>5, <1>4
  <2> QED  BY <1>3, <1>6, <2>1 DEF Closed, Pages
<1>8. ~moved => mode = panel[p].mode
  BY <1>3 DEF View
<1>9. frames \union {} = frames
  OBVIOUS
<1>10. \/ /\ panel'[p].stamp = claim
          /\ net' = net \union Fanout(p, frames \union {SelectionFrame(claim, s)})
       \/ /\ panel'[p].stamp = panel[p].stamp /\ mode = panel[p].mode
          /\ View(s) = View(panel[p])
          /\ net' = net \union Fanout(p, frames)
  BY <1>4, <1>7, <1>8, <1>9
<1>11. /\ \A q \in Panels \ {p} : panel'[q] = panel[q] /\ stored'[q] = stored[q]
       /\ stored'[p] = Copy(s)
  BY <1>5, <1>4
<1> QED  BY <1>3, <1>4, <1>7, <1>10, <1>11 DEF s, claim

\* The same, of the page alone.
LEMMA EventPage ==
    ASSUME TypeOK, NEW p \in Panels, NEW mode, NEW b, NEW frames, Event(p, mode, b, frames)
    PROVE  /\ panel'[p].link = panel[p].link /\ panel'[p].away = panel[p].away
           /\ panel'[p].live /\ ~panel'[p].offer
           /\ panel'[p].mode = mode /\ panel'[p].board = b
           /\ \A q \in Panels \ {p} : panel'[q] = panel[q] /\ stored'[q] = stored[q]
           /\ now' = now
<1> DEFINE s == [panel[p] EXCEPT !.mode = mode, !.board = b]
           claim == Minted(p, panel[p].stamp, TRUE, 0)
<1>1. /\ s \in Pages
      /\ panel'[p].link = panel[p].link /\ panel'[p].away = panel[p].away
      /\ panel'[p].live /\ ~panel'[p].offer
      /\ panel'[p].mode = mode /\ panel'[p].board = b
      /\ \A q \in Panels \ {p} : panel'[q] = panel[q] /\ stored'[q] = stored[q]
      /\ stored'[p] = Copy(s)
      /\ now' = now
      /\ \/ /\ panel'[p].stamp = claim
            /\ net' = net \union Fanout(p, frames \union {SelectionFrame(claim, s)})
         \/ /\ panel'[p].stamp = panel[p].stamp /\ mode = panel[p].mode
            /\ View(s) = View(panel[p])
            /\ net' = net \union Fanout(p, frames)
  BY EventGives, ZenonT(40)
<1> HIDE DEF s, claim
<1> QED  BY <1>1

\* A page that listens acts: it holds no copy on offer, and asks nothing.
LEMMA ActingPagesFit ==
    ASSUME TypeOK, PagesFit, NEW p \in Panels, panel[p].link, panel'[p].link,
           panel'[p].away = panel[p].away, ~panel'[p].offer,
           \A q \in Panels \ {p} : panel'[q] = panel[q] /\ stored'[q] = stored[q],
           NEW sent, \A f \in sent : f.kind # "ask",
           net' = net \union Fanout(p, sent)
    PROVE  PagesFit'
<1>1. ~panel[p].away /\ ~panel'[p].away
  BY DEF PagesFit
<1>2. \A x \in Panels : /\ panel'[x].link <=> panel[x].link
                        /\ panel'[x].away <=> panel[x].away
                        /\ panel'[x].offer => panel[x].offer
                        /\ x # p => panel'[x] = panel[x]
  BY <1>1
<1>3. \A m \in net' : m \in net \/ (m.to \in Panels /\ m.to # p /\ panel[m.to].link /\ m.frame \in sent)
  BY FanoutIs
<1>4. \A x \in Panels : (Asking(x) => Asking(x)') /\ (Expects(x) => Expects(x)')
  BY DEF Asking, Expects
<1>5. \A x \in Panels : panel'[x].away =>
         /\ ~panel'[x].link
         /\ \A q \in Panels \ {x} : ~panel'[q].away /\ (panel'[q].link => ~panel'[q].offer)
         /\ ~panel'[x].offer => \A q \in Panels : ~panel'[q].link
  BY <1>1, <1>2 DEF PagesFit
<1>6. \A x \in Panels : ~panel'[x].link => panel'[x].stamp = InitialStamp /\ ~panel'[x].live
  BY <1>2 DEF PagesFit
<1>7. \A x \in Panels : panel'[x].offer => panel'[x].board = InitialBoard(Preset[panel'[x].mode])
  BY <1>2 DEF PagesFit
<1>8. \A x \in Panels : ~panel'[x].link /\ ~panel'[x].away => panel'[x].offer /\ stored'[x] = {}
  BY <1>2 DEF PagesFit
<1>9. \A x \in Panels : \A y \in Panels :
         panel'[x].link /\ panel'[x].offer /\ panel'[y].link /\ x # y =>
           ~panel'[y].offer /\ (Asking(x)' \/ Expects(x)')
  BY <1>2, <1>4 DEF PagesFit
<1>10. \A m \in net' : /\ panel'[m.to].link
                       /\ \E y \in Panels : y # m.to /\ panel'[y].link
                       /\ m.frame.kind = "ask" => m.to # m.frame.by /\ ~panel'[m.to].offer
  <2> SUFFICES ASSUME NEW m \in net'
               PROVE  /\ panel'[m.to].link
                      /\ \E y \in Panels : y # m.to /\ panel'[y].link
                      /\ m.frame.kind = "ask" => m.to # m.frame.by /\ ~panel'[m.to].offer
    OBVIOUS
  <2>1. CASE m \in net
    <3>1. m.to \in Panels
      BY <2>1 DEF TypeOK
    <3> QED  BY <1>2, <2>1, <3>1 DEF PagesFit
  <2>2. CASE m.to \in Panels /\ m.to # p /\ panel[m.to].link /\ m.frame \in sent
    BY <1>2, <2>2
  <2> QED  BY <1>3, <2>1, <2>2
<1> QED  BY <1>5, <1>6, <1>7, <1>8, <1>9, <1>10 DEF PagesFit, Asking, Expects

LEMMA CountFramesAreNoAsks ==
    ASSUME NEW frames, frames \subseteq CountFrames, NEW t, NEW s
    PROVE  /\ \A f \in frames : f.kind # "ask"
           /\ \A f \in frames \union {SelectionFrame(t, s)} : f.kind # "ask"
  BY CountFrameParts DEF Countdowns, SelectionFrame

LEMMA EventPagesFit ==
    ASSUME TypeOK, PagesFit, NEW p \in Panels, panel[p].link, NEW mode, NEW b, NEW frames,
           Event(p, mode, b, frames)
    PROVE  PagesFit'
<1> DEFINE s == [panel[p] EXCEPT !.mode = mode, !.board = b]
           claim == Minted(p, panel[p].stamp, TRUE, 0)
<1>1. /\ panel'[p].link = panel[p].link /\ panel'[p].away = panel[p].away /\ ~panel'[p].offer
      /\ \A q \in Panels \ {p} : panel'[q] = panel[q] /\ stored'[q] = stored[q]
      /\ \/ net' = net \union Fanout(p, frames \union {SelectionFrame(claim, s)})
         \/ net' = net \union Fanout(p, frames)
  BY EventGives
<1>2. frames \subseteq CountFrames
  BY DEF Event
<1> HIDE DEF s, claim
<1>3. /\ \A f \in frames : f.kind # "ask"
      /\ \A f \in frames \union {SelectionFrame(claim, s)} : f.kind # "ask"
  BY <1>2, CountFramesAreNoAsks
<1>4. CASE net' = net \union Fanout(p, frames \union {SelectionFrame(claim, s)})
  BY <1>1, <1>3, <1>4, ActingPagesFit
<1>5. CASE net' = net \union Fanout(p, frames)
  BY <1>1, <1>3, <1>5, ActingPagesFit
<1> QED  BY <1>1, <1>4, <1>5

\* Page p handles a frame, by its kind: what it leaves of the page, what it sends.
MirrorsIt(p, f, sent) ==
    /\ f \in CountFrames
    /\ panel'[p].live /\ ~panel'[p].offer
    /\ panel'[p].stamp = panel[p].stamp /\ panel'[p].mode = panel[p].mode
    /\ panel'[p].board = Mirrored(panel[p].board, f)
    /\ sent = Retold(p, panel'[p])

FollowsIt(p, f, sent) ==
    /\ f \in SelectionFrames
    /\ panel'[p].live = panel[p].live /\ ~panel'[p].offer
    /\ IF Outranks(f.stamp, panel[p].stamp)
       THEN /\ panel'[p].stamp = f.stamp /\ panel'[p].mode = f.view.mode
            /\ panel'[p].board = PeerHint(panel[p].board, f.view.nextUp, f.view.mode)
       ELSE /\ panel'[p].stamp = panel[p].stamp /\ panel'[p].mode = panel[p].mode
            /\ panel'[p].board = panel[p].board
    /\ sent = Retold(p, panel'[p])

HydratesIt(p, f, sent) ==
    /\ f \in SnapshotFrames
    /\ panel'[p].live = panel[p].live /\ ~panel'[p].offer
    /\ panel'[p].stamp = panel[p].stamp /\ panel'[p].mode = panel[p].mode
    /\ panel'[p].board = IF panel[p].live THEN panel[p].board ELSE PeerSnapshot(panel[p].board, f.rows)
    /\ sent = Retold(p, panel'[p])

AnswersIt(p, f, sent) ==
    /\ f \in AskFrames
    /\ panel'[p].live = panel[p].live /\ panel'[p].offer = panel[p].offer
    /\ panel'[p].mode = panel[p].mode /\ panel'[p].board = panel[p].board
    /\ LET stamp == IF panel[p].stamp.seq > 0 THEN Restated(p, panel[p].stamp)
                    ELSE Minted(p, panel[p].stamp, FALSE, 0)
       IN  /\ panel'[p].stamp = IF panel[p].stamp.seq > 0 THEN panel[p].stamp ELSE stamp
           /\ sent = {SelectionFrame(stamp, panel[p]), SnapshotFrame(panel[p])}

\* Frame m comes in on page p, which sends frames.
Delivers(p, m, sent) ==
    /\ m \in net /\ m.to = p /\ m.frame \in Frames /\ sent \subseteq Frames
    /\ panel'[p] \in Pages
    /\ \A q \in Panels \ {p} : panel'[q] = panel[q] /\ stored'[q] = stored[q]
    /\ net' = (net \ {m}) \union Fanout(p, sent)
    /\ UNCHANGED <<now, truth>>
    /\ panel'[p].link = panel[p].link /\ panel'[p].away = panel[p].away
    /\ stored'[p] \in {stored[p], Copy(panel'[p])}
    /\ \/ m.frame.kind \in Countdowns /\ MirrorsIt(p, m.frame, sent)
       \/ m.frame.kind = "selection" /\ FollowsIt(p, m.frame, sent)
       \/ m.frame.kind = "snapshot" /\ HydratesIt(p, m.frame, sent)
       \/ m.frame.kind = "ask" /\ AnswersIt(p, m.frame, sent)

LEMMA DeliverIs ==
    ASSUME TypeOK, NEW p \in Panels, Deliver(p)
    PROVE  \E m \in net : \E sent \in SUBSET Frames : Delivers(p, m, sent)
<1>1. PICK m \in net :
        LET done == Handled(p, m.frame)
        IN  /\ m.to = p
            /\ panel' = [panel EXCEPT ![p] = done.state]
            /\ net' = (net \ {m}) \union Fanout(p, done.sent)
            /\ stored' = IF m.frame.kind \in Countdowns \/ View(done.state) # View(panel[p])
                         THEN [stored EXCEPT ![p] = Copy(done.state)] ELSE stored
  BY DEF Deliver
<1> DEFINE f == m.frame
           s == panel[p]
           done == Handled(p, f)
<1>2. f \in Frames /\ s \in Pages
  BY DEF TypeOK
<1>3. done.state \in Pages /\ done.sent \subseteq Frames
  BY <1>2, HandledTypes
<1>4. UNCHANGED <<now, truth>>
  BY DEF Deliver
<1>5. /\ f.kind = "ask" => done = Answer(p)
      /\ f.kind \in Countdowns => done = [state |-> Mirror(s, f), sent |-> Retold(p, Mirror(s, f))]
      /\ f.kind = "selection" =>
           done = [state |-> Followed(Heard(s), f), sent |-> Retold(p, Followed(Heard(s), f))]
      /\ f.kind = "snapshot" =>
           done = [state |-> Hydrated(Heard(s), f), sent |-> Retold(p, Hydrated(Heard(s), f))]
  BY HandledGives
<1> HIDE DEF done
<1>6. /\ panel'[p] = done.state
      /\ \A q \in Panels \ {p} : panel'[q] = panel[q] /\ stored'[q] = stored[q]
      /\ net' = (net \ {m}) \union Fanout(p, done.sent)
      /\ stored'[p] \in {stored[p], Copy(panel'[p])}
  BY <1>1, <1>3 DEF TypeOK, done
<1>7. CASE f.kind \in Countdowns
  <2>1. f \in CountFrames
    BY <1>2, <1>7, FrameKinds
  <2>2. Mirrored(s.board, f) \in Boards
    BY <1>2, <2>1, PageParts, MirroredGives DEF TypeOK
  <2>3. done.state = Mirror(s, f) /\ done.sent = Retold(p, Mirror(s, f))
    BY <1>5, <1>7
  <2>4. /\ Mirror(s, f).live /\ ~Mirror(s, f).offer
        /\ Mirror(s, f).stamp = s.stamp /\ Mirror(s, f).mode = s.mode
        /\ Mirror(s, f).board = Mirrored(s.board, f)
        /\ Mirror(s, f).link = s.link /\ Mirror(s, f).away = s.away
    BY <1>2, <2>2 DEF Mirror, Closed, Pages
  <2>5. MirrorsIt(p, f, done.sent)
    BY <1>6, <2>1, <2>3, <2>4 DEF MirrorsIt
  <2> QED  BY <1>1, <1>2, <1>3, <1>4, <1>6, <1>7, <2>3, <2>4, <2>5 DEF Delivers
<1>8. CASE f.kind = "selection"
  <2>1. f \in SelectionFrames
    BY <1>2, <1>8, FrameKinds
  <2>2. f.view.mode \in Modes /\ f.view.nextUp \in Lanes \union {0}
    BY <2>1 DEF SelectionFrames, Views
  <2>3. PeerHint(s.board, f.view.nextUp, f.view.mode) \in Boards
    BY <1>2, <2>2, PageParts, PeerHintGives
  <2> DEFINE t == Followed(Heard(s), f)
  <2>4. done.state = t /\ done.sent = Retold(p, t)
    BY <1>5, <1>8
  <2>5. /\ t.live = s.live /\ ~t.offer /\ t.link = s.link /\ t.away = s.away
        /\ IF Outranks(f.stamp, s.stamp)
           THEN /\ t.stamp = f.stamp /\ t.mode = f.view.mode
                /\ t.board = PeerHint(s.board, f.view.nextUp, f.view.mode)
           ELSE t.stamp = s.stamp /\ t.mode = s.mode /\ t.board = s.board
    BY <1>2, <2>3 DEF Followed, Heard, Pages
  <2> HIDE DEF t
  <2>6. FollowsIt(p, f, done.sent)
    BY <1>6, <2>1, <2>4, <2>5 DEF FollowsIt
  <2> QED  BY <1>1, <1>2, <1>3, <1>4, <1>6, <1>8, <2>4, <2>5, <2>6 DEF Delivers
<1>9. CASE f.kind = "snapshot"
  <2>1. f \in SnapshotFrames
    BY <1>2, <1>9, FrameKinds
  <2>2. f.rows \in RowSet
    BY <2>1 DEF SnapshotFrames
  <2>3. PeerSnapshot(s.board, f.rows) \in Boards
    BY <1>2, <2>2, PageParts, PeerSnapshotGives
  <2> DEFINE t == Hydrated(Heard(s), f)
  <2>4. done.state = t /\ done.sent = Retold(p, t)
    BY <1>5, <1>9
  <2>5. /\ t.live = s.live /\ ~t.offer /\ t.link = s.link /\ t.away = s.away
        /\ t.stamp = s.stamp /\ t.mode = s.mode
        /\ t.board = IF s.live THEN s.board ELSE PeerSnapshot(s.board, f.rows)
    BY <1>2, <2>3 DEF Hydrated, Heard, Pages
  <2> HIDE DEF t
  <2>6. HydratesIt(p, f, done.sent)
    BY <1>6, <2>1, <2>4, <2>5 DEF HydratesIt
  <2> QED  BY <1>1, <1>2, <1>3, <1>4, <1>6, <1>9, <2>4, <2>5, <2>6 DEF Delivers
<1>10. CASE f.kind = "ask"
  <2>1. f \in AskFrames
    BY <1>2, <1>10, FrameKinds
  <2> DEFINE stamp == IF s.stamp.seq > 0 THEN Restated(p, s.stamp) ELSE Minted(p, s.stamp, FALSE, 0)
  <2>2. stamp \in Stamp
    BY <1>2, PageParts, StampsAreStamps
  <2>3. /\ Answer(p).state = IF s.stamp.seq > 0 THEN s ELSE [s EXCEPT !.stamp = stamp]
        /\ Answer(p).sent = {SelectionFrame(stamp, s), SnapshotFrame(s)}
    BY DEF Answer
  <2>4. /\ done.state = IF s.stamp.seq > 0 THEN s ELSE [s EXCEPT !.stamp = stamp]
        /\ done.sent = {SelectionFrame(stamp, s), SnapshotFrame(s)}
    <3> HIDE DEF stamp
    <3> QED  BY <1>5, <1>10, <2>3
  <2>5. /\ done.state.live = s.live /\ done.state.offer = s.offer /\ done.state.link = s.link
        /\ done.state.away = s.away /\ done.state.mode = s.mode /\ done.state.board = s.board
        /\ done.state.stamp = IF s.stamp.seq > 0 THEN s.stamp ELSE stamp
    BY <1>2, <2>2, <2>4 DEF Pages
  <2>6. AnswersIt(p, f, done.sent)
    BY <1>6, <2>1, <2>4, <2>5 DEF AnswersIt
  <2> QED  BY <1>1, <1>2, <1>3, <1>4, <1>6, <1>10, <2>5, <2>6 DEF Delivers
<1>11. f.kind \in Countdowns \union {"selection", "ask", "snapshot"}
  BY <1>2, FrameKinds
<1> QED  BY <1>7, <1>8, <1>9, <1>10, <1>11

LEMMA RetoldIs ==
    ASSUME NEW p \in Panels, NEW t
    PROVE  \A f \in Retold(p, t) :
             /\ f.kind = "selection" /\ f.stamp.seq = t.stamp.seq /\ f.view = View(t)
             /\ f.view.mode = t.mode
  BY DEF Retold, SelectionFrame, Restated, View

LEMMA AnswerIs ==
    ASSUME NEW s, NEW t
    PROVE  /\ SelectionFrame(t, s).kind = "selection" /\ SelectionFrame(t, s).stamp = t
           /\ SelectionFrame(t, s).view = View(s) /\ SelectionFrame(t, s).view.mode = s.mode
           /\ SnapshotFrame(s).kind = "snapshot" /\ SnapshotFrame(s).rows = Rows(s)
  BY DEF SelectionFrame, SnapshotFrame, View

\* What a page sends when a frame comes in asks nothing.
LEMMA RepliesAreNoAsks ==
    ASSUME NEW p \in Panels, NEW m, NEW sent, Delivers(p, m, sent)
    PROVE  \A f \in sent : f.kind # "ask"
<1>1. CASE m.frame.kind = "ask" /\ AnswersIt(p, m.frame, sent)
  <2>1. \E t : sent = {SelectionFrame(t, panel[p]), SnapshotFrame(panel[p])}
    BY <1>1 DEF AnswersIt
  <2> QED  BY <2>1, AnswerIs
<1>2. CASE sent = Retold(p, panel'[p])
  BY <1>2, RetoldIs
<1> QED  BY <1>1, <1>2 DEF Delivers, MirrorsIt, FollowsIt, HydratesIt

LEMMA DeliverPagesFit ==
    ASSUME TypeOK, PagesFit, NEW p \in Panels, NEW m \in net, NEW sent \in SUBSET Frames,
           Delivers(p, m, sent)
    PROVE  PagesFit'
<1>1. /\ m.to = p /\ panel[p].link /\ ~panel[p].away
      /\ \A q \in Panels \ {p} : panel'[q] = panel[q] /\ stored'[q] = stored[q]
      /\ panel'[p].link = panel[p].link /\ panel'[p].away = panel[p].away
      /\ net' = (net \ {m}) \union Fanout(p, sent)
  BY DEF PagesFit, Delivers
<1>2. ~panel'[p].offer
  <2>1. CASE m.frame.kind = "ask"
    BY <1>1, <2>1 DEF Delivers, AnswersIt, PagesFit, Countdowns
  <2>2. CASE m.frame.kind # "ask"
    BY <2>2 DEF Delivers, MirrorsIt, FollowsIt, HydratesIt
  <2> QED  BY <2>1, <2>2
<1>3. \A x \in Panels : /\ panel'[x].link <=> panel[x].link
                        /\ panel'[x].away <=> panel[x].away
                        /\ panel'[x].offer => panel[x].offer
                        /\ x # p => panel'[x] = panel[x]
  BY <1>1, <1>2
<1>4. \A n \in net' : n \in net \/ (n.to \in Panels /\ n.to # p /\ panel[n.to].link /\ n.frame \in sent)
  BY <1>1, FanoutIs
<1>5. ASSUME NEW x \in Panels, x # p, panel[x].link, Asking(x) \/ Expects(x)
      PROVE  Asking(x)' \/ Expects(x)'
  <2>1. CASE \E n \in net : n # m /\ (n.to = x \/ (n.frame.kind = "ask" /\ n.frame.by = x))
    BY <1>1, <2>1 DEF Asking, Expects
  <2>2. CASE m.to = x
    BY <1>1, <1>5, <2>2
  <2>3. CASE m.frame.kind = "ask" /\ m.frame.by = x
    <3>1. AnswersIt(p, m.frame, sent)
      BY <2>3 DEF Delivers, Countdowns
    <3>2. SnapshotFrame(panel[p]) \in sent
      BY <3>1 DEF AnswersIt
    <3>3. [to |-> x, frame |-> SnapshotFrame(panel[p])] \in net'
      BY <1>1, <1>5, <3>2, FanoutIs
    <3> QED  BY <3>3 DEF Expects
  <2> QED  BY <1>5, <2>1, <2>2, <2>3 DEF Asking, Expects
<1>6. \A x \in Panels : panel'[x].away =>
         /\ ~panel'[x].link
         /\ \A q \in Panels \ {x} : ~panel'[q].away /\ (panel'[q].link => ~panel'[q].offer)
         /\ ~panel'[x].offer => \A q \in Panels : ~panel'[q].link
  BY <1>1, <1>3 DEF PagesFit
<1>7. \A x \in Panels : ~panel'[x].link => panel'[x].stamp = InitialStamp /\ ~panel'[x].live
  BY <1>1, <1>3 DEF PagesFit
<1>8. \A x \in Panels : panel'[x].offer => panel'[x].board = InitialBoard(Preset[panel'[x].mode])
  BY <1>2, <1>3 DEF PagesFit
<1>9. \A x \in Panels : ~panel'[x].link /\ ~panel'[x].away => panel'[x].offer /\ stored'[x] = {}
  BY <1>1, <1>3 DEF PagesFit
<1>10. \A x \in Panels : \A y \in Panels :
         panel'[x].link /\ panel'[x].offer /\ panel'[y].link /\ x # y =>
           ~panel'[y].offer /\ (Asking(x)' \/ Expects(x)')
  <2> SUFFICES ASSUME NEW x \in Panels, NEW y \in Panels,
                      panel'[x].link /\ panel'[x].offer /\ panel'[y].link /\ x # y
               PROVE  ~panel'[y].offer /\ (Asking(x)' \/ Expects(x)')
    OBVIOUS
  <2>1. panel[x].link /\ panel[x].offer /\ panel[y].link /\ x # p
    BY <1>2, <1>3
  <2>2. ~panel[y].offer /\ (Asking(x) \/ Expects(x))
    BY <2>1 DEF PagesFit
  <2> QED  BY <1>3, <1>5, <2>1, <2>2
<1>11. ASSUME NEW n \in net'
       PROVE  /\ panel'[n.to].link
              /\ \E y \in Panels : y # n.to /\ panel'[y].link
              /\ n.frame.kind = "ask" => n.to # n.frame.by /\ ~panel'[n.to].offer
  <2>1. CASE n \in net
    <3>1. n.to \in Panels
      BY <2>1 DEF TypeOK
    <3> QED  BY <1>3, <2>1, <3>1 DEF PagesFit
  <2>2. CASE n.to \in Panels /\ n.to # p /\ panel[n.to].link /\ n.frame \in sent
    BY <1>1, <1>3, <2>2, RepliesAreNoAsks
  <2> QED  BY <1>4, <2>1, <2>2
<1> QED  BY <1>6, <1>7, <1>8, <1>9, <1>10, <1>11 DEF PagesFit, Asking, Expects

LEMMA OpenPagesFit ==
    ASSUME TypeOK, PagesFit, Patient, NEW p \in Panels, Open(p)
    PROVE  PagesFit'
<1> DEFINE s == [panel[p] EXCEPT !.link = TRUE, !.away = FALSE]
           restored == ~s.offer /\ stored[p] # {}
           claim == Minted(p, s.stamp, FALSE, 0)
           sent == {AskFrame(p)} \union IF restored THEN {SelectionFrame(claim, s)} ELSE {}
<1>1. /\ ~panel[p].link /\ Calm(p)
      /\ s \in Pages
      /\ \A q \in Panels \ {p} : panel'[q] = panel[q] /\ stored'[q] = stored[q]
      /\ panel'[p] = IF restored THEN [s EXCEPT !.stamp = claim] ELSE s
      /\ net' = net \union Fanout(p, sent)
  BY OpenGives
<1>2. /\ net = {}
      /\ \A q \in Panels \ {p} : ~panel[q].away /\ (panel[q].link => ~panel[q].offer)
  BY <1>1 DEF Calm
<1>3. claim \in Stamp
  BY <1>1, PageParts, StampsAreStamps
<1>4. /\ s.link /\ ~s.away /\ s.offer = panel[p].offer /\ s.mode = panel[p].mode /\ s.board = panel[p].board
      /\ s.live = panel[p].live
  BY DEF TypeOK, Pages
<1> HIDE DEF s, restored, claim
<1>5. \A f \in sent : f.kind = "ask" => f.by = p
  BY AnswerIs DEF AskFrame
<1>6. AskFrame(p) \in sent /\ AskFrame(p).kind = "ask" /\ AskFrame(p).by = p
  BY DEF AskFrame
<1> HIDE DEF sent
<1>7. /\ panel'[p].link /\ ~panel'[p].away /\ panel'[p].offer = panel[p].offer
      /\ panel'[p].mode = panel[p].mode /\ panel'[p].board = panel[p].board
  BY <1>1, <1>3, <1>4 DEF Pages
<1>8. \A m \in net' : m.to \in Panels /\ m.to # p /\ panel[m.to].link /\ m.frame \in sent
  BY <1>1, <1>2, FanoutIs
<1>9. \A x \in Panels : panel'[x].away =>
         /\ ~panel'[x].link
         /\ \A q \in Panels \ {x} : ~panel'[q].away /\ (panel'[q].link => ~panel'[q].offer)
         /\ ~panel'[x].offer => \A q \in Panels : ~panel'[q].link
  BY <1>1, <1>2, <1>7
<1>10. \A x \in Panels : ~panel'[x].link => panel'[x].stamp = InitialStamp /\ ~panel'[x].live
  <2>1. \A x \in Panels : ~panel[x].link => panel[x].stamp = InitialStamp /\ ~panel[x].live
    BY DEF PagesFit
  <2> QED  BY <1>1, <1>7, <2>1
<1>11. \A x \in Panels : panel'[x].offer => panel'[x].board = InitialBoard(Preset[panel'[x].mode])
  <2>1. \A x \in Panels : panel[x].offer => panel[x].board = InitialBoard(Preset[panel[x].mode])
    BY DEF PagesFit
  <2> QED  BY <1>1, <1>7, <2>1
<1>12. \A x \in Panels : ~panel'[x].link /\ ~panel'[x].away => panel'[x].offer /\ stored'[x] = {}
  BY <1>1, <1>7 DEF PagesFit
<1>13. \A x \in Panels : \A y \in Panels :
         panel'[x].link /\ panel'[x].offer /\ panel'[y].link /\ x # y =>
           ~panel'[y].offer /\ (Asking(x)' \/ Expects(x)')
  <2> SUFFICES ASSUME NEW x \in Panels, NEW y \in Panels,
                      panel'[x].link /\ panel'[x].offer /\ panel'[y].link /\ x # y
               PROVE  ~panel'[y].offer /\ (Asking(x)' \/ Expects(x)')
    OBVIOUS
  <2>1. x = p /\ y # p /\ panel[y].link /\ ~panel'[y].offer
    BY <1>1, <1>2
  <2>2. [to |-> y, frame |-> AskFrame(p)] \in net'
    BY <1>1, <1>6, <2>1, FanoutIs
  <2>3. Asking(p)'
    BY <1>6, <2>2 DEF Asking
  <2> QED  BY <2>1, <2>3
<1>14. ASSUME NEW m \in net'
       PROVE  /\ panel'[m.to].link
              /\ \E y \in Panels : y # m.to /\ panel'[y].link
              /\ m.frame.kind = "ask" => m.to # m.frame.by /\ ~panel'[m.to].offer
  BY <1>1, <1>2, <1>5, <1>7, <1>8
<1> QED  BY <1>9, <1>10, <1>11, <1>12, <1>13, <1>14 DEF PagesFit, Asking, Expects

LEMMA ReloadPagesFit ==
    ASSUME TypeOK, PagesFit, Patient, NEW p \in Panels, Reload(p)
    PROVE  PagesFit'
<1>1. /\ panel[p].link /\ Calm(p)
      /\ \A q \in Panels \ {p} : panel'[q] = panel[q]
      /\ panel'[p] = [Page(panel[p].mode) EXCEPT !.away = TRUE]
      /\ UNCHANGED <<stored, net>>
  BY ReloadGives
<1>2. /\ net = {} /\ net' = {}
      /\ \A q \in Panels \ {p} : ~panel[q].away /\ (panel[q].link => ~panel[q].offer)
  BY <1>1 DEF Calm
<1>3. /\ ~panel'[p].link /\ panel'[p].away /\ panel'[p].offer /\ ~panel'[p].live
      /\ panel'[p].stamp = InitialStamp /\ panel'[p].mode = panel[p].mode
      /\ panel'[p].board = InitialBoard(Preset[panel[p].mode])
  BY <1>1 DEF Page
<1>4. \A x \in Panels : panel'[x].away =>
         /\ ~panel'[x].link
         /\ \A q \in Panels \ {x} : ~panel'[q].away /\ (panel'[q].link => ~panel'[q].offer)
         /\ ~panel'[x].offer => \A q \in Panels : ~panel'[q].link
  BY <1>1, <1>2, <1>3
<1>5. \A x \in Panels : ~panel'[x].link => panel'[x].stamp = InitialStamp /\ ~panel'[x].live
  <2>1. \A x \in Panels : ~panel[x].link => panel[x].stamp = InitialStamp /\ ~panel[x].live
    BY DEF PagesFit
  <2> QED  BY <1>1, <1>3, <2>1
<1>6. \A x \in Panels : panel'[x].offer => panel'[x].board = InitialBoard(Preset[panel'[x].mode])
  <2>1. \A x \in Panels : panel[x].offer => panel[x].board = InitialBoard(Preset[panel[x].mode])
    BY DEF PagesFit
  <2>2. panel'[p].board = InitialBoard(Preset[panel'[p].mode])
    BY <1>3
  <2>3. \A x \in Panels \ {p} : panel'[x] = panel[x]
    BY <1>1
  <2> QED  BY <2>1, <2>2, <2>3
<1>7. \A x \in Panels : ~panel'[x].link /\ ~panel'[x].away => panel'[x].offer /\ stored'[x] = {}
  <2>1. \A x \in Panels : ~panel[x].link /\ ~panel[x].away => panel[x].offer /\ stored[x] = {}
    BY DEF PagesFit
  <2> QED  BY <1>1, <1>3, <2>1
<1>8. \A x \in Panels : \A y \in Panels :
         panel'[x].link /\ panel'[x].offer /\ panel'[y].link /\ x # y =>
           ~panel'[y].offer /\ (Asking(x)' \/ Expects(x)')
  BY <1>1, <1>2, <1>3
<1> QED  BY <1>2, <1>4, <1>5, <1>6, <1>7, <1>8 DEF PagesFit, Asking, Expects

\* A copy goes on the board of a page that is alone.
Restores(p) ==
    /\ Solo(p) /\ panel[p].offer /\ net = {} /\ net' = {}
    /\ \A q \in Panels \ {p} : panel'[q] = panel[q] /\ stored'[q] = stored[q]
    /\ UNCHANGED <<now, truth>>
    /\ panel'[p] \in Pages
    /\ panel'[p].link = panel[p].link /\ panel'[p].away = panel[p].away
    /\ panel'[p].live = panel[p].live /\ ~panel'[p].offer
    /\ ~panel[p].link => panel'[p].stamp = panel[p].stamp
    /\ \/ /\ stored[p] = {} /\ stored'[p] = {}
          /\ panel'[p].mode = panel[p].mode /\ panel'[p].board = panel[p].board
       \/ \E copy \in stored[p] :
            /\ copy \in Copies
            /\ panel'[p].mode = copy.view.mode
            /\ panel'[p].board = Recalled(Heard(panel[p]), copy).board
            /\ stored'[p] \in {stored[p], Copy(panel'[p])}

LEMMA RestoreIs ==
    ASSUME TypeOK, PagesFit, Patient, NEW p \in Panels, Restore(p)
    PROVE  Restores(p)
<1> DEFINE s == Heard(panel[p])
<1>1. /\ s \in Pages
      /\ panel[p].offer
      /\ panel[p].link \/ panel[p].away
      /\ net = {} /\ (panel[p].link \/ \A q \in Panels : ~panel[q].link)
      /\ panel' \in [Panels -> Pages] /\ \A q \in Panels \ {p} : panel'[q] = panel[q]
      /\ \A q \in Panels \ {p} : stored'[q] = stored[q]
      /\ UNCHANGED <<now, truth, count>>
      /\ \/ /\ stored[p] = {}
            /\ panel'[p] = s
            /\ UNCHANGED <<stored, net>>
         \/ \E copy \in stored[p] :
              LET done == Claiming(p, Recalled(s, copy))
              IN  /\ copy \in Copies
                  /\ done.state \in Pages /\ done.sent \subseteq Frames
                  /\ panel'[p] = done.state
                  /\ stored'[p] = IF done.sent = {} THEN stored[p] ELSE Copy(done.state)
                  /\ net' = net \union Fanout(p, done.sent)
  BY RestoreGives
<1>2. /\ s.link = panel[p].link /\ s.away = panel[p].away /\ s.live = panel[p].live /\ ~s.offer
      /\ s.stamp = panel[p].stamp /\ s.mode = panel[p].mode /\ s.board = panel[p].board
  BY DEF Heard, TypeOK, Pages
<1> HIDE DEF s
<1>3. \A q \in Panels \ {p} : ~panel[q].link
  BY <1>1 DEF PagesFit, Asking, Expects
<1>4. \A q \in Panels \ {p} : ~panel[q].away
  BY <1>1 DEF PagesFit
<1>5. Solo(p)
  BY <1>1, <1>3, <1>4 DEF Solo
<1>6. \A sent : Fanout(p, sent) = {}
  BY <1>3 DEF Fanout
<1>7. CASE /\ stored[p] = {}
           /\ panel'[p] = s
           /\ UNCHANGED <<stored, net>>
  BY <1>1, <1>2, <1>5, <1>7 DEF Restores
<1>8. ASSUME NEW copy \in stored[p],
             LET done == Claiming(p, Recalled(s, copy))
             IN  /\ copy \in Copies
                 /\ done.state \in Pages /\ done.sent \subseteq Frames
                 /\ panel'[p] = done.state
                 /\ stored'[p] = IF done.sent = {} THEN stored[p] ELSE Copy(done.state)
                 /\ net' = net \union Fanout(p, done.sent)
      PROVE  Restores(p)
  <2> DEFINE r == Recalled(s, copy)
             done == Claiming(p, r)
             stamp == Minted(p, r.stamp, FALSE, 0)
  <2>1. /\ r \in Pages /\ r = [s EXCEPT !.mode = copy.view.mode, !.board = r.board]
    BY <1>1, <1>8, RecalledGives
  <2> HIDE DEF r
  <2>2. /\ r.mode = copy.view.mode /\ r.link = s.link /\ r.away = s.away /\ r.live = s.live
        /\ r.offer = s.offer /\ r.stamp = s.stamp
    BY <1>1, <2>1 DEF Pages
  <2>3. \/ done.state = r
        \/ panel[p].link /\ done.state = [r EXCEPT !.stamp = stamp]
    BY <2>1, ClaimingTypes
  <2>4. stamp \in Stamp
    BY <2>1, PageParts, StampsAreStamps
  <2>5. /\ panel'[p] = done.state /\ net' = {}
        /\ stored'[p] \in {stored[p], Copy(panel'[p])}
        /\ panel'[p] \in Pages /\ copy \in Copies
    BY <1>1, <1>6, <1>8 DEF r
  <2> HIDE DEF done, stamp
  <2>6. /\ panel'[p].mode = r.mode /\ panel'[p].board = r.board
        /\ panel'[p].link = r.link /\ panel'[p].away = r.away /\ panel'[p].live = r.live
        /\ panel'[p].offer = r.offer
        /\ ~panel[p].link => panel'[p].stamp = r.stamp
    BY <2>1, <2>3, <2>4, <2>5 DEF Pages
  <2>7. panel'[p].mode = copy.view.mode /\ panel'[p].board = Recalled(Heard(panel[p]), copy).board
    BY <2>2, <2>6 DEF r, s
  <2>8. /\ panel'[p].link = panel[p].link /\ panel'[p].away = panel[p].away
        /\ panel'[p].live = panel[p].live /\ ~panel'[p].offer
        /\ ~panel[p].link => panel'[p].stamp = panel[p].stamp
    BY <1>2, <2>2, <2>6
  <2> QED  BY <1>1, <1>5, <2>5, <2>7, <2>8 DEF Restores
<1> QED  BY <1>1, <1>7, <1>8

LEMMA RestorePagesFit ==
    ASSUME TypeOK, PagesFit, NEW p \in Panels, Restores(p)
    PROVE  PagesFit'
  BY DEF PagesFit, Restores, Solo

LEMMA PagesFitAreKept ==
    ASSUME TypeOK, PagesFit, Patient, [Next]_vars
    PROVE  PagesFit'
<1>1. ASSUME NEW p \in Panels, panel[p].link, NEW mode, NEW b, NEW frames, Event(p, mode, b, frames)
      PROVE  PagesFit'
  BY <1>1, EventPagesFit
<1>2. ASSUME NEW p \in Panels, NEW l \in Lanes, StartLane(p, l) \/ StopLane(p, l) \/ TakeABreak(p, l)
      PROVE  PagesFit'
  <2>1. panel[p].link
    BY <1>2 DEF StartLane, StopLane, TakeABreak, Pressed
  <2> QED  BY <1>1, <1>2, <2>1, StartIsAnEvent, StopIsAnEvent, BreakIsAnEvent
<1>3. ASSUME NEW p \in Panels, NEW l \in Lanes, Reset(p, l)
      PROVE  PagesFit'
  <2> DEFINE b == ResetLane(panel[p].board, l, panel[p].board.lane[l].armed)
  <2>1. panel[p].link
    BY <1>3 DEF Reset, Pressed
  <2>2. Event(p, panel[p].mode, b, {ResetFrame(l, b)})
    BY <1>3, ResetIsAnEvent
  <2> HIDE DEF b
  <2> QED  BY <1>1, <2>1, <2>2
<1>4. ASSUME NEW p \in Panels, NEW l \in Lanes, Expire(p, l)
      PROVE  PagesFit'
  BY <1>1, <1>4, ExpiryIsAnEvent
<1>5. ASSUME NEW p \in Panels, ResetRecorded(p)
      PROVE  PagesFit'
  <2>1. panel[p].link
    BY <1>5 DEF ResetRecorded, Pressed
  <2> QED  BY <1>1, <1>5, <2>1, ClearIsAnEvent
<1>6. ASSUME NEW p \in Panels, ApplyRunBudget(p) \/ ApplyMode(p)
      PROVE  PagesFit'
  <2>1. PICK mode \in Modes : \E budget \in Nat : Format(p, mode, budget)
    BY <1>6, FormatsAre
  <2>2. PICK budget \in Nat : Format(p, mode, budget)
    BY <2>1
  <2>3. panel[p].link
    BY <2>2 DEF Format, Pressed
  <2> QED  BY <1>1, <2>2, <2>3, FormatIsAnEvent
<1>7. ASSUME NEW p \in Panels, Deliver(p)  PROVE PagesFit'
  <2>1. PICK m \in net : \E sent \in SUBSET Frames : Delivers(p, m, sent)
    BY <1>7, DeliverIs
  <2>2. PICK sent \in SUBSET Frames : Delivers(p, m, sent)
    BY <2>1
  <2> QED  BY <2>2, DeliverPagesFit
<1>8. ASSUME NEW p \in Panels, Restore(p)  PROVE PagesFit'
  BY <1>8, RestoreIs, RestorePagesFit
<1>9. ASSUME Tick \/ UNCHANGED vars  PROVE PagesFit'
  <2>1. UNCHANGED <<panel, stored, net>>
    BY <1>9 DEF Tick, vars
  <2> QED  BY <2>1 DEF PagesFit, Asking, Expects
<1> QED  BY <1>2, <1>3, <1>4, <1>5, <1>6, <1>7, <1>8, <1>9, OpenPagesFit, ReloadPagesFit DEF Next

-----------------------------------------------------------------------------
(* Events on lanes.                                                        *)

\* What an event moves on the lanes of page p: what was and what is fit the mode
\* it leaves, and each of its frames takes either to what is.
Moves(p, mode, b, frames) ==
    LET was == panel[p].board.lane
        is == b.lane
    IN  /\ Fitting(mode, was) /\ Fitting(mode, is)
        /\ \A l \in Lanes : is[l].phase = "running" => was[Other(l)].phase # "running"
        /\ \A f \in frames :
             /\ Lands(f, is[f.lane]) = is[f.lane]
             /\ Lands(f, was[f.lane]) = is[f.lane]
             /\ f.kind \in {"start", "reset"} =>
                  was[Other(f.lane)].phase # "running" /\ is[Other(f.lane)].phase # "running"
        /\ \A l \in Lanes : was[l] = is[l] \/ \E f \in frames : f.lane = l
        /\ \A l \in Lanes : ~AtZero(is[l], now)
        /\ \A l \in Lanes : AtZero(was[l], now) => Spent(was[l]) = is[l]
        /\ mode # panel[p].mode => \A l \in Lanes : was[l].phase = "idle" /\ is[l].phase = "idle"

LEMMA OneClock ==
    ASSUME NEW mode \in Modes, NEW lanes, Fitting(mode, lanes), NEW l \in Lanes,
           lanes[l].phase \in {"running", "onBreak"}
    PROVE  lanes[Other(l)].phase \notin {"running", "onBreak"}
  BY LanesAre DEF Fitting, Modes

\* A clock at zero on a page that listens is due.
LEMMA ZerosAreDue ==
    ASSUME TypeOK, NEW x \in Panels, panel[x].link, NEW l \in Lanes, NEW t \in Nat,
           AtZero(panel[x].board.lane[l], t)
    PROVE  DueBy(t)
<1> DEFINE lane == panel[x].board.lane[l]
<1>1. CASE lane.phase = "running" /\ t >= lane.at + lane.budget
  <2>1. lane.at + lane.budget \in Deadlines(panel[x].board)
    BY <1>1 DEF Deadlines, Runs
  <2>2. lane.at + lane.budget <= t
    <3>1. lane \in LaneStates
      BY PageParts, BoardParts DEF TypeOK
    <3> QED  BY <1>1, <3>1, LaneParts
  <2> QED  BY <2>1, <2>2 DEF DueBy
<1>2. CASE lane.phase = "onBreak" /\ t >= lane.at + lane.rest
  <2>1. lane.at + lane.rest \in Deadlines(panel[x].board)
    BY <1>2 DEF Deadlines
  <2>2. lane.at + lane.rest <= t
    <3>1. lane \in LaneStates
      BY PageParts, BoardParts DEF TypeOK
    <3> QED  BY <1>2, <3>1, LaneParts
  <2> QED  BY <2>1, <2>2 DEF DueBy
<1> QED  BY <1>1, <1>2 DEF AtZero

\* One lane moves, by one frame.
LEMMA OneLaneMoves ==
    ASSUME TypeOK, NEW p \in Panels, NEW b, NEW l \in Lanes, NEW lane, NEW f,
           Fitting(panel[p].mode, panel[p].board.lane),
           f.lane = l,
           b.lane = [panel[p].board.lane EXCEPT ![l] = lane],
           Lands(f, panel[p].board.lane[l]) = lane, Lands(f, lane) = lane,
           Proper(lane),
           lane.phase = "running" \/ f.kind \in {"start", "reset"} =>
             panel[p].board.lane[Other(l)].phase # "running",
           panel[p].mode = "quali" /\ l = 2 => lane.phase = "idle",
           panel[p].mode = "battle" => lane.phase # "onBreak",
           ~AtZero(lane, now), ~AtZero(panel[p].board.lane[Other(l)], now),
           AtZero(panel[p].board.lane[l], now) => Spent(panel[p].board.lane[l]) = lane
    PROVE  Moves(p, panel[p].mode, b, {f})
<1> DEFINE was == panel[p].board.lane
           is == b.lane
<1>1. was \in [Lanes -> LaneStates]
  BY PageParts, BoardParts DEF TypeOK
<1>2. is[l] = lane /\ is[Other(l)] = was[Other(l)]
  BY <1>1, LanesAre
<1>3. \A k \in Lanes : k = l \/ k = Other(l)
  BY LanesAre
<1>4. Other(l) \in Lanes /\ Other(Other(l)) = l
  BY LanesAre
<1> HIDE DEF was, is
<1>5. /\ \A k \in Lanes : Proper(was[k])
      /\ \A k \in Lanes : was[k].phase = "running" => was[Other(k)].phase # "running"
      /\ panel[p].mode = "quali" => was[2].phase = "idle"
      /\ panel[p].mode = "battle" => \A k \in Lanes : was[k].phase # "onBreak"
  BY DEF Fitting, was
<1>6. Fitting(panel[p].mode, is)
  <2>1. \A k \in Lanes : Proper(is[k])
    BY <1>2, <1>3, <1>5
  <2>2. \A k \in Lanes : is[k].phase = "running" => is[Other(k)].phase # "running"
    BY <1>2, <1>3, <1>4, <1>5 DEF was
  <2>3. panel[p].mode = "quali" => is[2].phase = "idle"
    <3>1. 2 \in Lanes
      BY DEF Lanes
    <3> QED  BY <1>2, <1>3, <1>5, <3>1
  <2>4. panel[p].mode = "battle" => \A k \in Lanes : is[k].phase # "onBreak"
    BY <1>2, <1>3, <1>4, <1>5
  <2> QED  BY <2>1, <2>2, <2>3, <2>4 DEF Fitting
<1>7. \A k \in Lanes : is[k].phase = "running" => was[Other(k)].phase # "running"
  BY <1>2, <1>3, <1>4, <1>5 DEF was
<1>8. /\ Lands(f, is[l]) = is[l] /\ Lands(f, was[l]) = is[l]
      /\ f.kind \in {"start", "reset"} => was[Other(l)].phase # "running" /\ is[Other(l)].phase # "running"
  BY <1>2 DEF was
<1>9. \A k \in Lanes : was[k] = is[k] \/ k = l
  BY <1>2, <1>3
<1>10. \A k \in Lanes : ~AtZero(is[k], now)
  BY <1>2, <1>3 DEF was
<1>11. \A k \in Lanes : AtZero(was[k], now) => Spent(was[k]) = is[k]
  BY <1>2, <1>3 DEF was
<1>12. Fitting(panel[p].mode, was)
  BY DEF was
<1>13. Moves(p, panel[p].mode, b, {f}) <=>
        /\ Fitting(panel[p].mode, was) /\ Fitting(panel[p].mode, is)
        /\ \A k \in Lanes : is[k].phase = "running" => was[Other(k)].phase # "running"
        /\ \A g \in {f} :
             /\ Lands(g, is[g.lane]) = is[g.lane]
             /\ Lands(g, was[g.lane]) = is[g.lane]
             /\ g.kind \in {"start", "reset"} =>
                  was[Other(g.lane)].phase # "running" /\ is[Other(g.lane)].phase # "running"
        /\ \A k \in Lanes : was[k] = is[k] \/ \E g \in {f} : g.lane = k
        /\ \A k \in Lanes : ~AtZero(is[k], now)
        /\ \A k \in Lanes : AtZero(was[k], now) => Spent(was[k]) = is[k]
  BY DEF Moves, was, is
<1> QED  BY <1>6, <1>7, <1>8, <1>9, <1>10, <1>11, <1>12, <1>13

LEMMA StartMoves ==
    ASSUME TypeOK, NEW p \in Panels, NEW l \in Lanes, StartLane(p, l),
           Fitting(panel[p].mode, panel[p].board.lane),
           \A k \in Lanes : ~AtZero(panel[p].board.lane[k], now)
    PROVE  LET b == Start(panel[p].board, l, now)
           IN  Moves(p, panel[p].mode, b, {StartFrame(l, b)})
<1> DEFINE old == panel[p].board
           was == old.lane[l]
           b == Start(old, l, now)
           lane == Lane("running", was.budget, was.armed, now, 0, was.left)
           f == StartFrame(l, b)
<1>1. old \in Boards /\ now \in Nat /\ was \in LaneStates
  BY PageParts, BoardParts DEF TypeOK
<1>2. was.budget \in Nat /\ was.armed \in Nat /\ was.left \in Nat /\ was.phase \in Phases
  BY <1>1, LaneParts
<1>3. b.lane = [old.lane EXCEPT ![l] = lane]
  BY <1>1, <1>2, BeginTurnGives DEF Start
<1>4. /\ was.phase \in {"idle", "onBreak"} /\ old.lane[Other(l)].phase # "running"
      /\ l \in Recorded(panel[p].mode)
  BY <1>2 DEF StartLane, CanStart, Runs, Phases
<1>5. Proper(was)
  BY DEF Fitting
<1>6. was.budget > 0 /\ was.armed > 0
  BY <1>4, <1>5 DEF Proper
<1>7. /\ lane.phase = "running" /\ lane.budget = was.budget /\ lane.at = now /\ lane.armed = was.armed
      /\ lane.left = was.left /\ lane.rest = 0
  BY DEF Lane
<1>8. b.lane[l] = lane
  BY <1>1, <1>3 DEF Boards
<1> HIDE DEF b
<1>9. f.kind = "start" /\ f.lane = l /\ f.remaining = was.budget /\ f.at = now
  BY <1>7, <1>8 DEF StartFrame
<1> HIDE DEF f
<1>10. Lands(f, was) = lane /\ Lands(f, lane) = lane
  BY <1>9 DEF Lands, Lane
<1> HIDE DEF lane
<1>11. Proper(lane) /\ ~AtZero(lane, now)
  BY <1>1, <1>2, <1>6, <1>7 DEF Proper, AtZero
<1>12. panel[p].mode = "quali" => l # 2
  BY <1>4 DEF Recorded
<1>13. Moves(p, panel[p].mode, b, {f})
  BY <1>3, <1>4, <1>7, <1>9, <1>10, <1>11, <1>12, LanesAre, OneLaneMoves, SMTT(60)
<1> QED  BY <1>13 DEF b, f

LEMMA StopMoves ==
    ASSUME TypeOK, NEW p \in Panels, NEW l \in Lanes, StopLane(p, l),
           Fitting(panel[p].mode, panel[p].board.lane),
           \A k \in Lanes : ~AtZero(panel[p].board.lane[k], now)
    PROVE  LET b == Stop(panel[p].board, l, now)
           IN  Moves(p, panel[p].mode, b, {StopFrame(l, b)})
<1> DEFINE old == panel[p].board
           was == old.lane[l]
           b == Stop(old, l, now)
           left == Remaining(was, now)
           lane == Idle(left, was.armed, was.left)
           f == StopFrame(l, b)
<1>1. old \in Boards /\ now \in Nat /\ was \in LaneStates /\ panel[p].mode \in Modes
  BY PageParts, BoardParts DEF TypeOK
<1>2. was.budget \in Nat /\ was.armed \in Nat /\ was.left \in Nat /\ was.phase \in Phases
  BY <1>1, LaneParts
<1>3. was.phase = "running"
  BY DEF StopLane, Underway, Runs
<1>4. left \in Nat /\ left > 0
  BY <1>1, <1>3, RemainingIsNat, ZeroMeans
<1>5. b.lane = [old.lane EXCEPT ![l] = lane]
  BY <1>1, <1>4, EndTurnGives DEF Stop, StoppedLane
<1>6. Proper(was)
  BY DEF Fitting
<1> HIDE DEF left
<1>7. /\ lane.phase = "idle" /\ lane.budget = left /\ lane.at = 0 /\ lane.armed = was.armed
      /\ lane.left = was.left /\ lane.rest = 0
  BY DEF Idle, Lane
<1>8. b.lane[l] = lane
  BY <1>1, <1>5 DEF Boards
<1> HIDE DEF b
<1>9. f.kind = "stop" /\ f.lane = l /\ f.remaining = left
  BY <1>7, <1>8 DEF StopFrame
<1> HIDE DEF f
<1>10. Lands(f, was) = lane /\ Lands(f, lane) = lane
  BY <1>4, <1>7, <1>9 DEF Lands, StoppedLane
<1> HIDE DEF lane
<1>11. Proper(lane) /\ ~AtZero(lane, now)
  BY <1>1, <1>2, <1>4, <1>6, <1>7 DEF Proper, AtZero
<1>12. Moves(p, panel[p].mode, b, {f})
  BY <1>5, <1>7, <1>9, <1>10, <1>11, LanesAre, OneLaneMoves
<1> QED  BY <1>12 DEF b, f

LEMMA BreakMoves ==
    ASSUME TypeOK, NEW p \in Panels, NEW l \in Lanes, TakeABreak(p, l),
           Fitting(panel[p].mode, panel[p].board.lane),
           \A k \in Lanes : ~AtZero(panel[p].board.lane[k], now)
    PROVE  LET b == TakeBreak(panel[p].board, l, now)
           IN  Moves(p, panel[p].mode, b, {BreakFrame(l, b)})
<1> DEFINE old == panel[p].board
           was == old.lane[l]
           b == TakeBreak(old, l, now)
           left == Remaining(was, now)
           lane == Lane("onBreak", left, was.armed, now, BreakMs, was.left - 1)
           f == BreakFrame(l, b)
<1>1. old \in Boards /\ now \in Nat /\ was \in LaneStates
  BY PageParts, BoardParts DEF TypeOK
<1>2. was.budget \in Nat /\ was.armed \in Nat /\ was.left \in Nat /\ was.phase \in Phases
  BY <1>1, LaneParts
<1>3. was.phase = "running" /\ was.left > 0 /\ panel[p].mode = "quali" /\ l = 1
  BY DEF TakeABreak, CanTakeBreak, Runs
<1>4. left \in Nat /\ left > 0
  BY <1>1, <1>3, RemainingIsNat, ZeroMeans
<1>5. b.lane = [old.lane EXCEPT ![l] = lane]
  <2>1. old \in Boards /\ now \in Nat /\ old.lane[l].left > 0
    BY <1>1, <1>3
  <2> HIDE DEF old
  <2> QED  BY <2>1, TakeBreakGives, ZenonT(40)
<1>6. Proper(was)
  BY DEF Fitting
<1> HIDE DEF left
<1>7. /\ lane.phase = "onBreak" /\ lane.budget = left /\ lane.at = now /\ lane.armed = was.armed
      /\ lane.left = was.left - 1 /\ lane.rest = BreakMs
  BY DEF Lane
<1>8. b.lane[l] = lane
  BY <1>1, <1>5 DEF Boards
<1> HIDE DEF b
<1>9. /\ f.kind = "break" /\ f.lane = l /\ f.remaining = left /\ f.at = now /\ f.rest = BreakMs
      /\ f.left = was.left - 1
  BY <1>7, <1>8 DEF BreakFrame
<1> HIDE DEF f
<1>10. Lands(f, was) = lane /\ Lands(f, lane) = lane
  BY <1>9 DEF Lands, Lane
<1> HIDE DEF lane
<1>11. Proper(lane) /\ ~AtZero(lane, now)
  BY <1>1, <1>2, <1>4, <1>6, <1>7, BreakMsAssumption DEF Proper, AtZero
<1>12. Moves(p, panel[p].mode, b, {f})
  BY <1>3, <1>5, <1>7, <1>9, <1>10, <1>11, LanesAre, OneLaneMoves, ZenonT(40)
<1> QED  BY <1>12 DEF b, f

LEMMA ResetMoves ==
    ASSUME TypeOK, NEW p \in Panels, NEW l \in Lanes, Reset(p, l),
           Fitting(panel[p].mode, panel[p].board.lane),
           \A k \in Lanes : ~AtZero(panel[p].board.lane[k], now)
    PROVE  LET b == ResetLane(panel[p].board, l, panel[p].board.lane[l].armed)
           IN  Moves(p, panel[p].mode, b, {ResetFrame(l, b)})
<1> DEFINE old == panel[p].board
           was == old.lane[l]
           b == ResetLane(old, l, was.armed)
           lane == Idle(was.armed, was.armed, MaxBreaks)
           f == ResetFrame(l, b)
<1>1. old \in Boards /\ now \in Nat /\ was \in LaneStates
  BY PageParts, BoardParts DEF TypeOK
<1>2. was.armed \in Nat
  BY <1>1, LaneParts
<1>3. old.lane[Other(l)].phase # "running" /\ l \in Recorded(panel[p].mode)
  BY DEF Reset, Runs
<1>4. b.lane = [old.lane EXCEPT ![l] = lane]
  BY <1>1, <1>2, ResetLaneGives
<1>5. Proper(was)
  BY DEF Fitting
<1>6. /\ lane.phase = "idle" /\ lane.budget = was.armed /\ lane.at = 0 /\ lane.armed = was.armed
      /\ lane.left = MaxBreaks /\ lane.rest = 0
  BY DEF Idle, Lane
<1>7. b.lane[l] = lane
  BY <1>1, <1>4 DEF Boards
<1> HIDE DEF b
<1>8. f.kind = "reset" /\ f.lane = l /\ f.remaining = was.armed
  BY <1>6, <1>7 DEF ResetFrame
<1> HIDE DEF f
<1>9. Lands(f, was) = lane /\ Lands(f, lane) = lane
  BY <1>6, <1>8 DEF Lands
<1> HIDE DEF lane
<1>10. Proper(lane) /\ ~AtZero(lane, now)
  BY <1>1, <1>2, <1>5, <1>6 DEF Proper, AtZero
<1>11. Moves(p, panel[p].mode, b, {f})
  BY <1>3, <1>4, <1>6, <1>8, <1>9, <1>10, LanesAre, OneLaneMoves
<1> QED  BY <1>11 DEF b, f

\* Lanes that rest, and what a re-arm leaves of them.
LEMMA ReArmedIs ==
    ASSUME NEW budget \in Nat \ {0}, NEW t \in Nat
    PROVE  LET lane == Idle(budget, budget, MaxBreaks)
           IN  Proper(lane) /\ lane.phase = "idle" /\ lane.budget = budget /\ lane.armed = budget
               /\ ~AtZero(lane, t)
  BY DEF Idle, Lane, Proper, AtZero

\* A re-arm of lanes none of whose partners runs.
LEMMA ReArmMoves ==
    ASSUME TypeOK, NEW p \in Panels, NEW b \in Boards, NEW lanes \in SUBSET Lanes, NEW mode \in Modes,
           NEW budget \in [Lanes -> Nat \ {0}],
           Fitting(panel[p].mode, panel[p].board.lane),
           \A k \in Lanes : ~AtZero(panel[p].board.lane[k], now),
           b.lane = [l \in Lanes |-> IF l \in lanes THEN Idle(budget[l], budget[l], MaxBreaks)
                                     ELSE panel[p].board.lane[l]],
           \A l \in lanes : panel[p].board.lane[Other(l)].phase # "running",
           mode # panel[p].mode => \A l \in Lanes : panel[p].board.lane[l].phase = "idle"
    PROVE  Moves(p, mode, b, {ResetFrame(l, b) : l \in lanes})
<1> DEFINE was == panel[p].board.lane
           is == b.lane
           frames == {ResetFrame(l, b) : l \in lanes}
<1>1. /\ now \in Nat /\ panel[p].mode \in Modes
      /\ \A l \in Lanes : was[l] \in LaneStates
  BY PageParts, BoardParts DEF TypeOK
<1>2. /\ \A k \in Lanes : Proper(was[k])
      /\ \A k \in Lanes : was[k].phase = "running" => was[Other(k)].phase # "running"
      /\ panel[p].mode = "quali" => was[2].phase = "idle"
      /\ panel[p].mode = "battle" => \A k \in Lanes : was[k].phase # "onBreak"
  BY DEF Fitting
<1>3. \A l \in Lanes :
         /\ l \notin lanes => is[l] = was[l]
         /\ l \in lanes =>
              /\ is[l] = Idle(budget[l], budget[l], MaxBreaks)
              /\ Proper(is[l]) /\ is[l].phase = "idle" /\ is[l].budget = budget[l] /\ ~AtZero(is[l], now)
  BY <1>1, ReArmedIs
<1>4. \A l \in lanes : /\ ResetFrame(l, b).kind = "reset" /\ ResetFrame(l, b).lane = l
                       /\ ResetFrame(l, b).remaining = b.lane[l].budget
  BY DEF ResetFrame
<1>5. ASSUME NEW f \in frames
      PROVE  \E l \in lanes : f.kind = "reset" /\ f.lane = l /\ f.remaining = b.lane[l].budget
  <2>1. PICK l \in lanes : f = ResetFrame(l, b)
    OBVIOUS
  <2> QED  BY <1>4, <2>1
<1>6. \A l \in lanes : \E f \in frames : f.lane = l
  <2>1. \A l \in lanes : ResetFrame(l, b) \in frames
    OBVIOUS
  <2> HIDE DEF frames
  <2> QED  BY <1>4, <2>1
<1> HIDE DEF was, is, frames
<1>7. /\ \A l \in Lanes : Proper(is[l])
      /\ \A l \in Lanes : is[l].phase = "running" => l \notin lanes /\ is[l] = was[l]
      /\ \A l \in Lanes : is[l].phase = "idle" \/ is[l] = was[l]
  BY <1>2, <1>3
<1>8. \A l \in lanes : was[Other(l)].phase # "running"
  BY DEF was
<1>9. \A l \in Lanes : Other(l) \in Lanes
  BY LanesAre
<1>10. mode # panel[p].mode => \A l \in Lanes : was[l].phase = "idle" /\ is[l].phase = "idle"
  BY <1>7 DEF was
<1>11. Fitting(mode, was) /\ Fitting(mode, is)
  <2>1. \A l \in Lanes : is[l].phase = "running" => is[Other(l)].phase # "running"
    BY <1>2, <1>7, <1>9
  <2>2. 2 \in Lanes
    BY LanesAre
  <2>3. CASE mode = panel[p].mode
    BY <1>2, <1>7, <2>1, <2>2, <2>3 DEF Fitting
  <2>4. CASE mode # panel[p].mode
    BY <1>2, <1>7, <1>10, <2>1, <2>2, <2>4 DEF Fitting
  <2> QED  BY <2>3, <2>4
<1>12. \A l \in Lanes : is[l].phase = "running" => was[Other(l)].phase # "running"
  BY <1>2, <1>7
<1>13. ASSUME NEW f \in frames
       PROVE  /\ Lands(f, is[f.lane]) = is[f.lane]
              /\ Lands(f, was[f.lane]) = is[f.lane]
              /\ f.kind \in {"start", "reset"} =>
                   was[Other(f.lane)].phase # "running" /\ is[Other(f.lane)].phase # "running"
  <2>1. PICK l \in lanes : f.kind = "reset" /\ f.lane = l /\ f.remaining = is[l].budget
    BY <1>5 DEF is
  <2>2. is[l] = Idle(f.remaining, f.remaining, MaxBreaks)
    BY <1>3, <2>1
  <2>3. Lands(f, is[l]) = is[l] /\ Lands(f, was[l]) = is[l]
    BY <2>1, <2>2 DEF Lands
  <2>4. was[Other(l)].phase # "running" /\ is[Other(l)].phase # "running"
    BY <1>7, <1>8, <1>9
  <2> QED  BY <2>1, <2>3, <2>4
<1>14. \A l \in Lanes : was[l] = is[l] \/ \E f \in frames : f.lane = l
  BY <1>3, <1>6
<1>15. \A l \in Lanes : ~AtZero(is[l], now)
  BY <1>3 DEF was
<1>16. \A l \in Lanes : AtZero(was[l], now) => Spent(was[l]) = is[l]
  BY DEF was
<1>17. Moves(p, mode, b, frames) <=>
        /\ Fitting(mode, was) /\ Fitting(mode, is)
        /\ \A k \in Lanes : is[k].phase = "running" => was[Other(k)].phase # "running"
        /\ \A g \in frames :
             /\ Lands(g, is[g.lane]) = is[g.lane]
             /\ Lands(g, was[g.lane]) = is[g.lane]
             /\ g.kind \in {"start", "reset"} =>
                  was[Other(g.lane)].phase # "running" /\ is[Other(g.lane)].phase # "running"
        /\ \A k \in Lanes : was[k] = is[k] \/ \E g \in frames : g.lane = k
        /\ \A k \in Lanes : ~AtZero(is[k], now)
        /\ \A k \in Lanes : AtZero(was[k], now) => Spent(was[k]) = is[k]
        /\ mode # panel[p].mode => \A l \in Lanes : was[l].phase = "idle" /\ is[l].phase = "idle"
  BY DEF Moves, was, is
<1>18. Moves(p, mode, b, frames)
  BY <1>10, <1>11, <1>12, <1>13, <1>14, <1>15, <1>16, <1>17
<1> QED  BY <1>18 DEF frames

LEMMA ClearMoves ==
    ASSUME TypeOK, NEW p \in Panels, ResetRecorded(p),
           Fitting(panel[p].mode, panel[p].board.lane),
           \A k \in Lanes : ~AtZero(panel[p].board.lane[k], now)
    PROVE  LET lanes == Recorded(panel[p].mode)
               b == Cleared(panel[p].board, lanes)
           IN  Moves(p, panel[p].mode, b, {ResetFrame(l, b) : l \in lanes})
<1> DEFINE lanes == Recorded(panel[p].mode)
           b == Cleared(panel[p].board, lanes)
           budget == [l \in Lanes |-> panel[p].board.lane[l].armed]
<1>1. /\ panel[p].board \in Boards /\ panel[p].mode \in Modes
      /\ \A l \in Lanes : panel[p].board.lane[l] \in LaneStates
  BY PageParts, BoardParts DEF TypeOK
<1>2. budget \in [Lanes -> Nat \ {0}]
  BY <1>1, LaneParts DEF Fitting, Proper
<1>3. lanes \in SUBSET Lanes
  BY LanesAre DEF Recorded
<1>4. \A l \in lanes : panel[p].board.lane[Other(l)].phase # "running"
  BY DEF ResetRecorded, Runs
<1>5. /\ b \in Boards
      /\ b.lane = [l \in Lanes |-> IF l \in lanes
                                   THEN Idle(panel[p].board.lane[l].armed, panel[p].board.lane[l].armed, MaxBreaks)
                                   ELSE panel[p].board.lane[l]]
  BY <1>1, ClearedGives
<1>6. b.lane = [l \in Lanes |-> IF l \in lanes THEN Idle(budget[l], budget[l], MaxBreaks)
                                ELSE panel[p].board.lane[l]]
  BY <1>5
<1> HIDE DEF lanes, b, budget
<1>7. Moves(p, panel[p].mode, b, {ResetFrame(l, b) : l \in lanes})
  BY <1>1, <1>2, <1>3, <1>4, <1>5, <1>6, ReArmMoves
<1> QED  BY <1>7 DEF lanes, b

LEMMA FormatMoves ==
    ASSUME TypeOK, NEW p \in Panels, NEW mode \in Modes, NEW budget \in Nat \ {0}, Format(p, mode, budget),
           Fitting(panel[p].mode, panel[p].board.lane),
           \A k \in Lanes : ~AtZero(panel[p].board.lane[k], now)
    PROVE  LET b == SetBudgets(panel[p].board, budget)
           IN  Moves(p, mode, b, {ResetFrame(l, b) : l \in ReArmed(panel[p].board)})
<1> DEFINE lanes == ReArmed(panel[p].board)
           b == SetBudgets(panel[p].board, budget)
           budgets == [l \in Lanes |-> budget]
<1>1. panel[p].board \in Boards
  BY PageParts DEF TypeOK
<1>2. budgets \in [Lanes -> Nat \ {0}]
  OBVIOUS
<1>3. \A l \in Lanes : Pristine(panel[p].board.lane[l])
  BY DEF Format, Holds
<1>4. lanes = Lanes /\ \A l \in Lanes : panel[p].board.lane[l].phase = "idle"
  BY <1>3 DEF ReArmed, Pristine
<1>5. /\ b \in Boards
      /\ b.lane = [l \in Lanes |-> IF l \in lanes THEN Idle(budget, budget, MaxBreaks)
                                   ELSE panel[p].board.lane[l]]
  BY <1>1, SetBudgetsGives
<1>6. b.lane = [l \in Lanes |-> IF l \in lanes THEN Idle(budgets[l], budgets[l], MaxBreaks)
                                ELSE panel[p].board.lane[l]]
  BY <1>5
<1>7. \A l \in lanes : panel[p].board.lane[Other(l)].phase # "running"
  BY <1>4, LanesAre
<1> HIDE DEF lanes, b, budgets
<1>8. Moves(p, mode, b, {ResetFrame(l, b) : l \in lanes})
  BY <1>1, <1>2, <1>4, <1>5, <1>6, <1>7, ReArmMoves
<1> QED  BY <1>8 DEF lanes, b

\* A clock that crosses zero: the frame lands its spent lane on whoever hears it.
LEMMA ExpiryLands ==
    ASSUME TypeOK, NEW p \in Panels, NEW l \in Lanes, Expire(p, l)
    PROVE  \E b \in Boards : \E f \in CountFrames :
             LET was == panel[p].board.lane
             IN  /\ Event(p, panel[p].mode, b, {f})
                 /\ was[l].phase \in {"running", "onBreak"} /\ AtZero(was[l], now)
                 /\ b.lane = [was EXCEPT ![l] = Spent(was[l])]
                 /\ b.lastRan = panel[p].board.lastRan
                 /\ was[l].phase = "running" => f = StopFrame(l, b) /\ truth' = OffTurn(l)
                 /\ was[l].phase = "onBreak" =>
                      b.pause = panel[p].board.pause /\ f = BreakEndFrame(l, b) /\ truth' = truth
                 /\ b = IF was[l].phase = "running" THEN Timeout(panel[p].board, l, now)
                        ELSE BreakZero(panel[p].board, l)
<1> DEFINE old == panel[p].board
           was == old.lane
           over == Timeout(old, l, now)
           rested == BreakZero(old, l)
<1>1. old \in Boards /\ now \in Nat /\ was[l] \in LaneStates
  BY PageParts, BoardParts DEF TypeOK
<1>2. \/ /\ was[l].phase = "running" /\ now >= was[l].at + was[l].budget
         /\ Event(p, panel[p].mode, over, {StopFrame(l, over)})
         /\ truth' = OffTurn(l)
      \/ /\ was[l].phase = "onBreak" /\ now >= was[l].at + was[l].rest
         /\ Event(p, panel[p].mode, rested, {BreakEndFrame(l, rested)})
         /\ UNCHANGED truth
  BY ExpiryIsAnEvent
<1>3. /\ over \in Boards /\ over.lane = [was EXCEPT ![l] = StoppedLane(0, was[l])]
      /\ over.lastRan = old.lastRan
  BY <1>1, EndTurnGives DEF Timeout
<1>4. /\ rested \in Boards
      /\ rested.lane = [was EXCEPT ![l] = Idle(was[l].budget, was[l].armed, was[l].left)]
      /\ rested.lastRan = old.lastRan /\ rested.pause = old.pause
  BY <1>1, BreakZeroGives
<1>5. StopFrame(l, over) \in CountFrames /\ BreakEndFrame(l, rested) \in CountFrames
  BY <1>3, <1>4, CountFramesAre DEF CountFrames
<1> DEFINE Crosses(b, f) ==
             /\ Event(p, panel[p].mode, b, {f})
             /\ was[l].phase \in {"running", "onBreak"} /\ AtZero(was[l], now)
             /\ b.lane = [was EXCEPT ![l] = Spent(was[l])]
             /\ b.lastRan = old.lastRan
             /\ was[l].phase = "running" => f = StopFrame(l, b) /\ truth' = OffTurn(l)
             /\ was[l].phase = "onBreak" =>
                  b.pause = old.pause /\ f = BreakEndFrame(l, b) /\ truth' = truth
             /\ b = IF was[l].phase = "running" THEN over ELSE rested
<1>6. CASE was[l].phase = "running"
  <2>1. Spent(was[l]) = StoppedLane(0, was[l]) /\ AtZero(was[l], now)
    BY <1>2, <1>6 DEF Spent, StoppedLane, AtZero
  <2>2. Event(p, panel[p].mode, over, {StopFrame(l, over)}) /\ truth' = OffTurn(l)
    BY <1>2, <1>6
  <2>3. Crosses(over, StopFrame(l, over))
    <3> HIDE DEF over, rested, was, old
    <3> QED  BY <1>3, <1>6, <2>1, <2>2
  <2>4. over \in Boards /\ StopFrame(l, over) \in CountFrames
    BY <1>3, <1>5
  <2> QED  BY <2>3, <2>4
<1>7. CASE was[l].phase = "onBreak"
  <2>1. Spent(was[l]) = Idle(was[l].budget, was[l].armed, was[l].left) /\ AtZero(was[l], now)
    BY <1>2, <1>7 DEF Spent, AtZero
  <2>2. Event(p, panel[p].mode, rested, {BreakEndFrame(l, rested)}) /\ truth' = truth
    BY <1>2, <1>7
  <2>3. Crosses(rested, BreakEndFrame(l, rested))
    <3> HIDE DEF over, rested, was, old
    <3> QED  BY <1>4, <1>7, <2>1, <2>2
  <2>4. rested \in Boards /\ BreakEndFrame(l, rested) \in CountFrames
    BY <1>4, <1>5
  <2> QED  BY <2>3, <2>4
<1> QED  BY <1>2, <1>6, <1>7

\* A clock of page p crosses zero: its board after, and the frame of it, that lands the
\* spent lane on whoever hears it, again if need be.
Crossing(p, l, b, f) ==
    LET was == panel[p].board.lane
    IN  /\ panel[p].link
        /\ Event(p, panel[p].mode, b, {f})
        /\ was[l].phase \in {"running", "onBreak"} /\ AtZero(was[l], now)
        /\ b.lane = [was EXCEPT ![l] = Spent(was[l])]
        /\ b.lastRan = panel[p].board.lastRan
        /\ f.lane = l /\ f.kind \in {"stop", "breakEnd"}
        /\ Lands(f, was[l]) = Spent(was[l]) /\ Lands(f, Spent(was[l])) = Spent(was[l])
        /\ was[l].phase = "running" => truth' = OffTurn(l)
        /\ was[l].phase = "onBreak" => truth' = truth /\ b.pause = panel[p].board.pause

LEMMA ExpiryCrosses ==
    ASSUME TypeOK, NEW p \in Panels, NEW l \in Lanes, Expire(p, l)
    PROVE  \E b \in Boards : \E f \in CountFrames : Crossing(p, l, b, f)
<1> DEFINE was == panel[p].board.lane
<1>1. PICK b \in Boards : \E f \in CountFrames :
        /\ Event(p, panel[p].mode, b, {f})
        /\ was[l].phase \in {"running", "onBreak"} /\ AtZero(was[l], now)
        /\ b.lane = [was EXCEPT ![l] = Spent(was[l])]
        /\ b.lastRan = panel[p].board.lastRan
        /\ was[l].phase = "running" => f = StopFrame(l, b) /\ truth' = OffTurn(l)
        /\ was[l].phase = "onBreak" =>
             b.pause = panel[p].board.pause /\ f = BreakEndFrame(l, b) /\ truth' = truth
        /\ b = IF was[l].phase = "running" THEN Timeout(panel[p].board, l, now)
               ELSE BreakZero(panel[p].board, l)
  BY ExpiryLands
<1>2. PICK f \in CountFrames :
        /\ Event(p, panel[p].mode, b, {f})
        /\ was[l].phase \in {"running", "onBreak"} /\ AtZero(was[l], now)
        /\ b.lane = [was EXCEPT ![l] = Spent(was[l])]
        /\ b.lastRan = panel[p].board.lastRan
        /\ was[l].phase = "running" => f = StopFrame(l, b) /\ truth' = OffTurn(l)
        /\ was[l].phase = "onBreak" =>
             b.pause = panel[p].board.pause /\ f = BreakEndFrame(l, b) /\ truth' = truth
  BY <1>1
<1>3. panel[p].link
  BY DEF Expire
<1>4. was \in [Lanes -> LaneStates]
  BY PageParts, BoardParts DEF TypeOK
<1>5. b.lane[l] = Spent(was[l])
  BY <1>2, <1>4
<1> HIDE DEF was
<1>6. CASE was[l].phase = "running"
  <2>1. Spent(was[l]) = Finished(was[l].armed, was[l].left)
    BY <1>6 DEF Spent
  <2>2. Spent(was[l]).budget = 0 /\ Spent(was[l]).armed = was[l].armed /\ Spent(was[l]).left = was[l].left
    BY <2>1 DEF Finished, Lane
  <2>3. f.kind = "stop" /\ f.lane = l /\ f.remaining = 0
    BY <1>2, <1>5, <1>6, <2>2 DEF StopFrame
  <2>4. Lands(f, was[l]) = Spent(was[l]) /\ Lands(f, Spent(was[l])) = Spent(was[l])
    BY <2>1, <2>2, <2>3 DEF Lands, StoppedLane
  <2> QED  BY <1>2, <1>3, <1>6, <2>3, <2>4 DEF Crossing, was
<1>7. CASE was[l].phase = "onBreak"
  <2>1. Spent(was[l]) = Idle(was[l].budget, was[l].armed, was[l].left)
    BY <1>7 DEF Spent
  <2>2. Spent(was[l]).budget = was[l].budget /\ Spent(was[l]).phase = "idle"
    BY <2>1 DEF Idle, Lane
  <2>3. f.kind = "breakEnd" /\ f.lane = l /\ f.remaining = was[l].budget
    BY <1>2, <1>5, <1>7, <2>2 DEF BreakEndFrame
  <2>4. Lands(f, was[l]) = Spent(was[l]) /\ Lands(f, Spent(was[l])) = Spent(was[l])
    BY <1>7, <2>1, <2>2, <2>3 DEF Lands
  <2> QED  BY <1>2, <1>3, <1>7, <2>3, <2>4 DEF Crossing, was
<1> QED  BY <1>2, <1>6, <1>7

LEMMA SpentRests ==
    ASSUME NEW lane, NEW t
    PROVE  ~AtZero(Spent(lane), t) /\ Spent(lane).phase \in {"idle", "finished"}
  BY DEF Spent, AtZero, Finished, Idle, Lane

LEMMA CrossingMoves ==
    ASSUME TypeOK, NEW p \in Panels, NEW l \in Lanes, NEW b \in Boards, NEW f \in CountFrames,
           Crossing(p, l, b, f), Fitting(panel[p].mode, panel[p].board.lane)
    PROVE  Moves(p, panel[p].mode, b, {f})
<1> DEFINE was == panel[p].board.lane
           lane == Spent(was[l])
<1>1. was \in [Lanes -> LaneStates] /\ panel[p].mode \in Modes
  BY PageParts, BoardParts DEF TypeOK
<1>2. /\ was[l].phase \in {"running", "onBreak"} /\ AtZero(was[l], now)
      /\ b.lane = [was EXCEPT ![l] = lane] /\ f.lane = l /\ f.kind \in {"stop", "breakEnd"}
      /\ Lands(f, was[l]) = lane /\ Lands(f, lane) = lane
  BY DEF Crossing
<1>3. was[Other(l)].phase \notin {"running", "onBreak"}
  BY <1>1, <1>2, OneClock
<1>4. ~AtZero(was[Other(l)], now)
  BY <1>3 DEF AtZero
<1>5. Proper(was[l])
  BY DEF Fitting
<1>6. Proper(lane)
  BY <1>1, <1>2, <1>5, ProperSpent
<1>7. ~AtZero(lane, now) /\ lane.phase \in {"idle", "finished"}
  BY SpentRests
<1>8. panel[p].mode = "quali" /\ l = 2 => lane.phase = "idle"
  BY <1>2 DEF Fitting
<1> HIDE DEF lane
<1>9. Moves(p, panel[p].mode, b, {f})
  <2>1. lane.phase # "running" /\ lane.phase # "onBreak" /\ f.kind \notin {"start", "reset"}
    BY <1>2, <1>7
  <2>2. AtZero(panel[p].board.lane[l], now) => Spent(panel[p].board.lane[l]) = lane
    BY DEF lane
  <2> QED  BY <1>2, <1>4, <1>6, <1>7, <1>8, <2>1, <2>2, OneLaneMoves
<1> QED  BY <1>9

\* Page p acts: its board after, in its mode, and what the room hears of it.
Stirs(p, mode, b, frames) == Event(p, mode, b, frames) /\ Moves(p, mode, b, frames)

\* A press of patient operators moves the lanes of its page, in a quiet room.
Presses(p) ==
    \/ \E l \in Lanes : StartLane(p, l) \/ StopLane(p, l) \/ TakeABreak(p, l) \/ Reset(p, l)
    \/ ResetRecorded(p) \/ ApplyRunBudget(p) \/ ApplyMode(p)

LEMMA PressesArePaced ==
    ASSUME TypeOK, Patient, NEW p \in Panels, Presses(p)
    PROVE  /\ panel[p].link /\ net = {}
           /\ \A k \in Lanes : ~AtZero(panel[p].board.lane[k], now)
<1>1. panel[p].link /\ Paced(p)
  <2>1. ASSUME NEW l \in Lanes, StartLane(p, l) \/ StopLane(p, l) \/ TakeABreak(p, l) \/ Reset(p, l)
        PROVE  panel[p].link /\ Paced(p)
    BY <2>1 DEF StartLane, StopLane, TakeABreak, Reset, Pressed
  <2>2. ASSUME ResetRecorded(p)  PROVE panel[p].link /\ Paced(p)
    BY <2>2 DEF ResetRecorded, Pressed
  <2>3. ASSUME ApplyRunBudget(p) \/ ApplyMode(p)  PROVE panel[p].link /\ Paced(p)
    BY <2>3 DEF ApplyRunBudget, ApplyMode, Format, Pressed
  <2> QED  BY <2>1, <2>2, <2>3 DEF Presses
<1>2. net = {} /\ ~DueBy(now) /\ now \in Nat
  BY <1>1 DEF Paced, TypeOK
<1> QED  BY <1>1, <1>2, ZerosAreDue

-----------------------------------------------------------------------------
(* The room, at rest.                                                      *)

\* A room in which every panel that listens shows the same.
Quiet(v) ==
    /\ net = {} /\ v.joiner = 0 /\ v.d = v.c /\ Fitting(v.mode, v.c)
    /\ \A x \in Panels : panel[x].link =>
         Shows(panel[x].board.lane, v.c) /\ panel[x].stamp.seq = v.seq /\ panel[x].mode = v.mode
    /\ v.seq = 0 => \A x \in Panels : \A y \in Panels : panel[x].link /\ panel[y].link => x = y

LEMMA QuietRoomsFit == \A v \in Rooms : Quiet(v) => Room(v)
<1> SUFFICES ASSUME NEW v \in Rooms, Quiet(v)  PROVE Room(v)
  OBVIOUS
<1>1. FramesFit(v)
  BY DEF Quiet, FramesFit
<1>2. LanesFit(v)
  BY DEF Quiet, LanesFit, Shows
<1>3. JoinFits(v)
  BY DEF Quiet, JoinFits
<1>4. ZerosFit(v)
  BY DEF Quiet, ZerosFit, Shows
<1>5. LeaderFits(v)
  BY DEF Quiet, LeaderFits
<1>6. ClocksFit(v)
  BY DEF Quiet, ClocksFit, Fitting
<1>7. ModesFit(v)
  <2>1. v.seq \in Nat
    BY DEF Rooms
  <2> QED  BY <2>1 DEF Quiet, ModesFit
<1> QED  BY <1>1, <1>2, <1>3, <1>4, <1>5, <1>6, <1>7 DEF Room

LEMMA QuietRoomsFitNext == (\A v \in Rooms : Quiet(v) => Room(v))'
  BY QuietRoomsFit, PTL

LEMMA RoomRests ==
    ASSUME TypeOK, NEW w \in Rooms, Room(w), net = {}
    PROVE  /\ \A x \in Panels : panel[x].link =>
                Shows(panel[x].board.lane, w.c) /\ panel[x].stamp.seq = w.seq /\ panel[x].mode = w.mode
           /\ w.seq = 0 => \A x \in Panels : \A y \in Panels : panel[x].link /\ panel[y].link => x = y
           /\ Fitting(w.mode, w.c)
<1>1. \A x \in Panels : ~Asking(x) /\ \A l \in Lanes : ~Awaits(x, l)
  BY DEF Asking, Awaits
<1>2. \A x \in Panels : ~Told(x, w.seq)
  BY DEF Told
<1>3. ASSUME NEW x \in Panels, panel[x].link
      PROVE  Shows(panel[x].board.lane, w.c)
  <2>1. CASE x # w.joiner
    BY <1>1, <1>3, <2>1 DEF Room, LanesFit, Shows
  <2>2. CASE x = w.joiner
    <3>1. w.joiner # 0
      BY <2>2, PanelsAssumption
    <3>2. JoinFits(w)
      BY DEF Room
    <3> QED  BY <1>1, <2>2, <3>1, <3>2 DEF JoinFits
  <2> QED  BY <2>1, <2>2
<1>4. ASSUME NEW x \in Panels, panel[x].link
      PROVE  panel[x].stamp.seq = w.seq /\ panel[x].mode = w.mode
  <2>1. panel[x].stamp.seq \in Nat /\ w.seq \in Nat
    BY PageParts DEF TypeOK, Stamp, Rooms
  <2>2. /\ panel[x].stamp.seq <= w.seq
        /\ panel[x].stamp.seq = w.seq =>
             panel[x].mode = w.mode \/ (x = w.joiner /\ w.seq = 0 /\ Asking(x))
        /\ panel[x].stamp.seq < w.seq => Told(x, w.seq) \/ (x = w.joiner /\ Asking(x))
    BY <1>4 DEF Room, ModesFit
  <2> QED  BY <1>1, <1>2, <2>1, <2>2
<1>5. ASSUME w.seq = 0, NEW x \in Panels, NEW y \in Panels, panel[x].link, panel[y].link
      PROVE  x = y
  BY <1>1, <1>5 DEF Room, ModesFit
<1>6. Fitting(w.mode, w.c)
  BY DEF Room, ClocksFit
<1> QED  BY <1>3, <1>4, <1>5, <1>6

-----------------------------------------------------------------------------
(* The room, when a panel acts.                                            *)

\* What the room hears of an event.
LEMMA EventHeard ==
    ASSUME TypeOK, NEW p \in Panels, NEW mode, NEW b, NEW frames, Event(p, mode, b, frames)
    PROVE  LET n == panel'[p].stamp.seq
           IN  /\ net \subseteq net'
               /\ \A m \in net' \ net :
                    /\ m.to \in Panels /\ m.to # p /\ panel[m.to].link
                    /\ \/ m.frame \in frames /\ m.frame \in CountFrames
                       \/ /\ m.frame.kind = "selection" /\ m.frame.stamp.seq = n
                          /\ m.frame.view.mode = mode /\ n = panel[p].stamp.seq + 1
               /\ \A x \in Panels \ {p} : panel[x].link =>
                    \A f \in frames : \E m \in net' : m.to = x /\ m.frame = f
               /\ \/ /\ n = panel[p].stamp.seq + 1
                     /\ \A x \in Panels \ {p} : panel[x].link =>
                          \E m \in net' : m.to = x /\ m.frame.kind = "selection" /\ m.frame.stamp.seq = n
                  \/ n = panel[p].stamp.seq /\ mode = panel[p].mode
<1> DEFINE s == [panel[p] EXCEPT !.mode = mode, !.board = b]
           claim == Minted(p, panel[p].stamp, TRUE, 0)
           sel == SelectionFrame(claim, s)
           n == panel'[p].stamp.seq
<1>1. /\ s \in Pages
      /\ panel'[p].link = panel[p].link /\ panel'[p].away = panel[p].away
      /\ panel'[p].live /\ ~panel'[p].offer
      /\ panel'[p].mode = mode /\ panel'[p].board = b
      /\ \A q \in Panels \ {p} : panel'[q] = panel[q] /\ stored'[q] = stored[q]
      /\ stored'[p] = Copy(s)
      /\ now' = now
      /\ \/ /\ panel'[p].stamp = claim
            /\ net' = net \union Fanout(p, frames \union {sel})
         \/ /\ panel'[p].stamp = panel[p].stamp /\ mode = panel[p].mode
            /\ View(s) = View(panel[p])
            /\ net' = net \union Fanout(p, frames)
  BY EventGives, ZenonT(40)
<1>2. /\ s \in Pages
      /\ \/ panel'[p].stamp = claim /\ net' = net \union Fanout(p, frames \union {sel})
         \/ /\ panel'[p].stamp = panel[p].stamp /\ mode = panel[p].mode
            /\ net' = net \union Fanout(p, frames)
  <2> HIDE DEF s, claim, sel
  <2> QED  BY <1>1
<1>3. frames \subseteq CountFrames
  BY DEF Event
<1>4. s.mode = mode /\ claim.seq = panel[p].stamp.seq + 1
  <2>1. s.mode = mode
    BY DEF TypeOK, Pages
  <2>2. claim = [seq |-> panel[p].stamp.seq + 1, by |-> p, echo |-> FALSE]
    BY PageParts, StampsAreStamps DEF TypeOK
  <2> HIDE DEF s, claim
  <2> QED  BY <2>1, <2>2
<1> HIDE DEF s, claim
<1>5. sel.kind = "selection" /\ sel.stamp = claim /\ sel.view.mode = mode
  BY <1>4, AnswerIs
<1> HIDE DEF sel
<1>6. CASE panel'[p].stamp = claim /\ net' = net \union Fanout(p, frames \union {sel})
  <2>1. net' = net \union Fanout(p, frames \union {sel}) /\ n = panel[p].stamp.seq + 1
    BY <1>4, <1>6
  <2>2. \A m \in net' \ net :
          /\ m.to \in Panels /\ m.to # p /\ panel[m.to].link
          /\ \/ m.frame \in frames /\ m.frame \in CountFrames
             \/ /\ m.frame.kind = "selection" /\ m.frame.stamp.seq = n
                /\ m.frame.view.mode = mode /\ n = panel[p].stamp.seq + 1
    <3>1. \A m \in net' \ net :
            m.to \in Panels /\ m.to # p /\ panel[m.to].link /\ m.frame \in frames \union {sel}
      BY <2>1, FanoutIs
    <3> QED  BY <1>3, <1>5, <1>6, <2>1, <3>1
  <2>3. \A x \in Panels \ {p} : panel[x].link =>
          \A f \in frames \union {sel} : [to |-> x, frame |-> f] \in net'
    BY <2>1, FanoutIs
  <2>4. ASSUME NEW x \in Panels \ {p}, panel[x].link
        PROVE  \E m \in net' : m.to = x /\ m.frame.kind = "selection" /\ m.frame.stamp.seq = n
    <3>1. [to |-> x, frame |-> sel] \in net'
      BY <2>3, <2>4
    <3>2. sel.stamp.seq = n
      BY <1>5, <1>6
    <3> QED  BY <1>5, <3>1, <3>2
  <2>5. ASSUME NEW x \in Panels \ {p}, panel[x].link, NEW f \in frames
        PROVE  \E m \in net' : m.to = x /\ m.frame = f
    <3>1. [to |-> x, frame |-> f] \in net'
      BY <2>3, <2>5
    <3> QED  BY <3>1
  <2> QED  BY <2>1, <2>2, <2>4, <2>5
<1>7. CASE /\ panel'[p].stamp = panel[p].stamp /\ mode = panel[p].mode
           /\ net' = net \union Fanout(p, frames)
  <2>1. net' = net \union Fanout(p, frames) /\ n = panel[p].stamp.seq
    BY <1>7
  <2>2. \A m \in net' \ net :
          /\ m.to \in Panels /\ m.to # p /\ panel[m.to].link
          /\ m.frame \in frames /\ m.frame \in CountFrames
    BY <1>3, <2>1, FanoutIs
  <2>3. ASSUME NEW x \in Panels \ {p}, panel[x].link, NEW f \in frames
        PROVE  \E m \in net' : m.to = x /\ m.frame = f
    <3>1. [to |-> x, frame |-> f] \in net'
      BY <2>1, <2>3, FanoutIs
    <3> QED  BY <3>1
  <2> QED  BY <1>7, <2>1, <2>2, <2>3
<1> QED  BY <1>2, <1>6, <1>7

\* An event in a quiet room: what was, what is, and frames that bring one to the other.
LEMMA StirredRoomFits ==
    ASSUME TypeOK, PagesFit, NEW w \in Rooms, Room(w), net = {}, NEW p \in Panels, panel[p].link,
           NEW mode, NEW b, NEW frames, Stirs(p, mode, b, frames),
           NEW v \in Rooms, v.c = b.lane, v.d = panel[p].board.lane, v.mode = mode,
           v.seq = panel'[p].stamp.seq, v.joiner = 0
    PROVE  Room(v)'
<1>1. /\ Event(p, mode, b, frames) /\ Moves(p, mode, b, frames)
      /\ b \in Boards /\ mode \in Modes /\ frames \subseteq CountFrames
  BY DEF Stirs, Event
<1>2. /\ \A x \in Panels : panel[x].link =>
           Shows(panel[x].board.lane, w.c) /\ panel[x].stamp.seq = w.seq /\ panel[x].mode = w.mode
      /\ w.seq = 0 => \A x \in Panels : \A y \in Panels : panel[x].link /\ panel[y].link => x = y
  BY RoomRests
<1>3. /\ panel'[p].link /\ panel'[p].mode = mode /\ panel'[p].board = b
      /\ \A q \in Panels \ {p} : panel'[q] = panel[q]
      /\ now' = now
  BY <1>1, EventPage
<1>4. /\ \A m \in net' :
           /\ m.to \in Panels /\ m.to # p /\ panel[m.to].link
           /\ \/ m.frame \in frames /\ m.frame \in CountFrames
              \/ /\ m.frame.kind = "selection" /\ m.frame.stamp.seq = v.seq
                 /\ m.frame.view.mode = mode /\ v.seq = w.seq + 1
      /\ \A x \in Panels \ {p} : panel[x].link =>
           \A f \in frames : \E m \in net' : m.to = x /\ m.frame = f
      /\ \/ /\ v.seq = w.seq + 1
            /\ \A x \in Panels \ {p} : panel[x].link => Told(x, v.seq)'
         \/ v.seq = w.seq /\ mode = panel[p].mode
  BY <1>1, <1>2, EventHeard DEF Told
<1>5. /\ Fitting(mode, v.d) /\ Fitting(mode, v.c)
      /\ \A l \in Lanes : v.c[l].phase = "running" => v.d[Other(l)].phase # "running"
      /\ \A f \in frames :
           /\ Lands(f, v.c[f.lane]) = v.c[f.lane]
           /\ Lands(f, v.d[f.lane]) = v.c[f.lane]
           /\ f.kind \in {"start", "reset"} =>
                v.d[Other(f.lane)].phase # "running" /\ v.c[Other(f.lane)].phase # "running"
      /\ \A l \in Lanes : v.d[l] = v.c[l] \/ \E f \in frames : f.lane = l
      /\ \A l \in Lanes : ~AtZero(v.c[l], now)
      /\ \A l \in Lanes : AtZero(v.d[l], now) => Spent(v.d[l]) = v.c[l]
      /\ mode # panel[p].mode => \A l \in Lanes : v.d[l].phase = "idle" /\ v.c[l].phase = "idle"
  BY <1>1 DEF Moves
<1>6. /\ now \in Nat /\ v.seq \in Nat /\ w.seq \in Nat
      /\ \A l \in Lanes : v.c[l] \in LaneStates /\ v.d[l] \in LaneStates
      /\ \A x \in Panels : \A l \in Lanes : panel[x].board.lane[l] \in LaneStates
  BY PageParts, BoardParts DEF TypeOK, Rooms, RowSet
<1>7. ASSUME NEW x \in Panels, panel[x].link, NEW l \in Lanes
      PROVE  Alike(panel[x].board.lane[l], v.d[l], now)
  <2>1. Alike(panel[x].board.lane[l], w.c[l], now) /\ Alike(panel[p].board.lane[l], w.c[l], now)
    BY <1>2, <1>7 DEF Shows
  <2> QED  BY <2>1, AlikeIsEqual
<1>8. \A m \in net' : m.frame.kind # "ask" /\ m.frame.kind # "snapshot"
  BY <1>4, CountFrameParts DEF Countdowns
<1>9. FramesFit(v)'
  <2> SUFFICES ASSUME NEW m \in net', m.frame.kind \in Countdowns
               PROVE  /\ Alike(Lands(m.frame, v.c[m.frame.lane]), v.c[m.frame.lane], now)
                      /\ Alike(Lands(m.frame, v.d[m.frame.lane]), v.c[m.frame.lane], now)
                      /\ m.frame.kind \in {"start", "reset"} =>
                           /\ v.c[Other(m.frame.lane)].phase # "running"
                           /\ v.d[Other(m.frame.lane)].phase # "running"
    BY <1>3 DEF FramesFit
  <2>1. m.frame \in frames
    BY <1>4 DEF Countdowns
  <2> QED  BY <1>5, <2>1, AlikeIsEqual
<1>10. LanesFit(v)'
  <2> SUFFICES ASSUME NEW x \in Panels, panel'[x].link, NEW l \in Lanes
               PROVE  \/ Alike(panel'[x].board.lane[l], v.c[l], now)
                      \/ Alike(panel'[x].board.lane[l], v.d[l], now) /\ Awaits(x, l)'
    BY <1>3 DEF LanesFit
  <2>1. CASE x = p
    BY <1>3, <2>1, AlikeIsEqual
  <2>2. CASE x # p
    <3>1. panel'[x] = panel[x] /\ panel[x].link
      BY <1>3, <2>2
    <3>2. Alike(panel[x].board.lane[l], v.d[l], now)
      BY <1>7, <3>1
    <3>3. CASE v.d[l] = v.c[l]
      BY <3>1, <3>2, <3>3
    <3>4. CASE \E f \in frames : f.lane = l
      <4>1. PICK f \in frames : f.lane = l
        BY <3>4
      <4>2. f.kind \in Countdowns
        BY <1>1, CountFrameParts
      <4>3. \E m \in net' : m.to = x /\ m.frame = f
        BY <1>4, <2>2, <3>1
      <4>4. Awaits(x, l)'
        BY <4>1, <4>2, <4>3 DEF Awaits
      <4> QED  BY <3>1, <3>2, <4>4
    <3> QED  BY <1>5, <3>3, <3>4
  <2> QED  BY <2>1, <2>2
<1>11. JoinFits(v)'
  BY <1>8 DEF JoinFits
<1>12. ZerosFit(v)'
  <2>1. \A l \in Lanes : ~AtZero(v.c[l], now')
    BY <1>3, <1>5
  <2>2. ASSUME NEW x \in Panels, panel'[x].link, NEW l \in Lanes, AtZero(panel'[x].board.lane[l], now')
        PROVE  Alike(Spent(panel'[x].board.lane[l]), v.c[l], now')
    <3>1. x # p
      BY <1>3, <1>5, <2>2
    <3>2. panel'[x] = panel[x] /\ panel[x].link /\ AtZero(panel[x].board.lane[l], now)
      BY <1>3, <2>2, <3>1
    <3>3. Alike(panel[x].board.lane[l], v.d[l], now)
      BY <1>7, <3>2
    <3>4. AtZero(v.d[l], now)
      BY <1>6, <3>2, <3>3, ZeroAlike
    <3>5. panel[x].board.lane[l].phase \in {"running", "onBreak"}
      BY <3>2 DEF AtZero
    <3>6. Spent(panel[x].board.lane[l]) = v.c[l]
      BY <1>5, <1>6, <3>3, <3>4, <3>5, SpentAlike
    <3> QED  BY <3>2, <3>6, AlikeIsEqual
  <2> QED  BY <2>1, <2>2 DEF ZerosFit
<1>13. LeaderFits(v)'
  <2>1. panel'[p].link /\ p # v.joiner /\ panel'[p].board.lane = v.c
    BY <1>3, PanelsAssumption
  <2>2. Shows(panel[p].board.lane, v.c)'
    BY <2>1, AlikeIsEqual DEF Shows
  <2> QED  BY <2>1, <2>2 DEF LeaderFits
<1>14. ClocksFit(v)'
  BY <1>5 DEF ClocksFit
<1>15. mode # w.mode => AllIdle(v)
  BY <1>2, <1>5 DEF AllIdle
<1>16. ModesFit(v)'
  <2>1. ASSUME NEW x \in Panels, panel'[x].link
        PROVE  /\ panel'[x].stamp.seq <= v.seq
               /\ panel'[x].stamp.seq = v.seq => panel'[x].mode = v.mode
               /\ panel'[x].stamp.seq < v.seq => Told(x, v.seq)'
               /\ panel'[x].mode # v.mode => AllIdle(v)
    <3>1. CASE x = p
      BY <1>3, <1>6, <3>1
    <3>2. CASE x # p
      <4>1. panel'[x] = panel[x] /\ panel[x].link /\ panel[x].stamp.seq = w.seq /\ panel[x].mode = w.mode
        BY <1>2, <1>3, <2>1, <3>2
      <4>2. panel[p].mode = w.mode
        BY <1>2
      <4> QED  BY <1>4, <1>6, <1>15, <3>2, <4>1, <4>2
    <3> QED  BY <3>1, <3>2
  <2>2. \A m \in net' : m.frame.kind = "selection" =>
          m.frame.stamp.seq = v.seq /\ m.frame.view.mode = v.mode
    BY <1>4, CountFrameParts DEF Countdowns
  <2>3. ASSUME v.seq = 0
        PROVE  /\ \A x \in Panels : \A y \in Panels : ~(panel'[x].link /\ panel'[y].link /\ x # y)
               /\ \A m \in net' : m.frame.kind = "ask"
    <3>1. w.seq = 0
      BY <1>4, <1>6, <2>3
    <3>2. \A x \in Panels : panel[x].link => x = p
      BY <1>2, <3>1
    <3> QED  BY <1>3, <1>4, <3>2
  <2>4. AllIdle(v)' <=> AllIdle(v)
    BY DEF AllIdle
  <2> QED  BY <1>6, <2>1, <2>2, <2>3, <2>4 DEF ModesFit
<1> QED  BY <1>9, <1>10, <1>11, <1>12, <1>13, <1>14, <1>16 DEF Room

\* The expiry timer of a panel that has the frame of the same crossing to come.
LEMMA TwinRoomFits ==
    ASSUME TypeOK, PagesFit, NEW w \in Rooms, Room(w), net # {}, NEW p \in Panels, NEW l \in Lanes,
           NEW b \in Boards, NEW f \in CountFrames, Crossing(p, l, b, f),
           NEW v \in Rooms, v.c = w.c, v.d = w.d, v.mode = w.mode, v.joiner = w.joiner,
           v.seq = IF panel'[p].stamp.seq > w.seq THEN panel'[p].stamp.seq ELSE w.seq
    PROVE  Room(v)'
<1> DEFINE was == panel[p].board.lane
           n == panel'[p].stamp.seq
<1>1. /\ panel[p].link /\ Event(p, panel[p].mode, b, {f})
      /\ was[l].phase \in {"running", "onBreak"} /\ AtZero(was[l], now)
      /\ b.lane = [was EXCEPT ![l] = Spent(was[l])]
      /\ f.lane = l /\ f.kind \in {"stop", "breakEnd"}
      /\ Lands(f, was[l]) = Spent(was[l]) /\ Lands(f, Spent(was[l])) = Spent(was[l])
  BY DEF Crossing
<1>2. /\ panel'[p].link /\ panel'[p].mode = panel[p].mode /\ panel'[p].board = b
      /\ \A q \in Panels \ {p} : panel'[q] = panel[q]
      /\ now' = now
  BY <1>1, EventPage
<1>3. /\ net \subseteq net'
      /\ \A m \in net' \ net :
           /\ m.to \in Panels /\ m.to # p /\ panel[m.to].link
           /\ \/ m.frame \in {f}
              \/ /\ m.frame.kind = "selection" /\ m.frame.stamp.seq = n
                 /\ m.frame.view.mode = panel[p].mode /\ n = panel[p].stamp.seq + 1
      /\ \/ /\ n = panel[p].stamp.seq + 1
            /\ \A x \in Panels \ {p} : panel[x].link =>
                 \E m \in net' : m.to = x /\ m.frame.kind = "selection" /\ m.frame.stamp.seq = n
         \/ n = panel[p].stamp.seq
  BY <1>1, EventHeard
<1>4. /\ now \in Nat /\ v.seq \in Nat /\ w.seq \in Nat
      /\ \A k \in Lanes : w.c[k] \in LaneStates /\ w.d[k] \in LaneStates
      /\ \A x \in Panels : panel[x].stamp.seq \in Nat
      /\ \A x \in Panels : \A k \in Lanes : panel[x].board.lane[k] \in LaneStates
      /\ was \in [Lanes -> LaneStates]
  BY PageParts, BoardParts DEF TypeOK, Rooms, RowSet, Stamp
<1>5. /\ FramesFit(w) /\ LanesFit(w) /\ JoinFits(w) /\ ZerosFit(w) /\ LeaderFits(w) /\ ClocksFit(w)
      /\ ModesFit(w)
  BY DEF Room
<1>6. \A k \in Lanes : ~AtZero(w.c[k], now)
  BY <1>5 DEF ZerosFit
<1>7. ~Alike(was[l], w.c[l], now)
  BY <1>1, <1>4, <1>6, ZeroAlike
<1>8. p # w.joiner
  <2> SUFFICES ASSUME p = w.joiner  PROVE FALSE
    OBVIOUS
  <2>1. w.joiner # 0
    BY PanelsAssumption
  <2>2. Shows(was, w.c) \/ \A k \in Lanes : was[k].phase = "idle"
    BY <1>5, <2>1 DEF JoinFits
  <2> QED  BY <1>1, <1>7, <2>2 DEF Shows
<1>9. Alike(was[l], w.d[l], now) /\ Awaits(p, l) /\ Alike(Spent(was[l]), w.c[l], now)
  BY <1>1, <1>5, <1>7, <1>8 DEF LanesFit, ZerosFit
<1>10. w.joiner = 0
  BY <1>5, <1>9 DEF Awaits, FramesFit
<1>11. ~AllIdle(w)
  <2>1. w.d[l].phase = was[l].phase
    BY <1>4, <1>9, AlikeMeans
  <2> QED  BY <1>1, <2>1 DEF AllIdle
<1>12. panel[p].mode = w.mode
  BY <1>1, <1>5, <1>8, <1>11 DEF ModesFit
<1>13. b.lane[l] = Spent(was[l]) /\ \A k \in Lanes : k # l => b.lane[k] = was[k]
  BY <1>1, <1>4
<1> HIDE DEF was
<1>14. FramesFit(v)'
  <2> SUFFICES ASSUME NEW m \in net', m.frame.kind \in Countdowns
               PROVE  /\ Alike(Lands(m.frame, w.c[m.frame.lane]), w.c[m.frame.lane], now)
                      /\ Alike(Lands(m.frame, w.d[m.frame.lane]), w.c[m.frame.lane], now)
                      /\ m.frame.kind \in {"start", "reset"} =>
                           /\ w.c[Other(m.frame.lane)].phase # "running"
                           /\ w.d[Other(m.frame.lane)].phase # "running"
    BY <1>2, <1>10 DEF FramesFit
  <2>1. CASE m \in net
    BY <1>5, <2>1 DEF FramesFit
  <2>2. CASE m.frame = f
    <3>1. Alike(Lands(f, Spent(was[l])), Lands(f, w.c[l]), now)
      BY <1>4, <1>9, LandsAlike, SpentIsALaneState
    <3>2. Alike(Lands(f, was[l]), Lands(f, w.d[l]), now)
      BY <1>4, <1>9, LandsAlike
    <3>3. Alike(Spent(was[l]), Lands(f, w.c[l]), now) /\ Alike(Spent(was[l]), Lands(f, w.d[l]), now)
      BY <1>1, <3>1, <3>2 DEF was
    <3> QED  BY <1>1, <1>9, <2>2, <3>3, AlikeIsEqual
  <2> QED  BY <1>3, <2>1, <2>2 DEF Countdowns
<1>15. \A x \in Panels : \A k \in Lanes : Awaits(x, k) => Awaits(x, k)'
  BY <1>3 DEF Awaits
<1>16. LanesFit(v)'
  <2> SUFFICES ASSUME NEW x \in Panels, panel'[x].link, x # w.joiner, NEW k \in Lanes
               PROVE  \/ Alike(panel'[x].board.lane[k], w.c[k], now)
                      \/ Alike(panel'[x].board.lane[k], w.d[k], now) /\ Awaits(x, k)'
    BY <1>2 DEF LanesFit
  <2>1. CASE x = p /\ k = l
    BY <1>2, <1>9, <1>13, <2>1
  <2>2. CASE x # p \/ k # l
    <3>1. panel[x].link /\ panel'[x].board.lane[k] = panel[x].board.lane[k]
      BY <1>1, <1>2, <1>13, <2>2, ZenonT(40) DEF was
    <3>2. \/ Alike(panel[x].board.lane[k], w.c[k], now)
          \/ Alike(panel[x].board.lane[k], w.d[k], now) /\ Awaits(x, k)
      BY <1>5, <3>1 DEF LanesFit
    <3> QED  BY <1>15, <3>1, <3>2
  <2> QED  BY <2>1, <2>2
<1>17. JoinFits(v)'
  <2>1. \A m \in net' : m.frame.kind \in {"ask", "snapshot"} => m \in net
    BY <1>1, <1>3
  <2>2. \A m \in net' : /\ m.frame.kind = "ask" => m.frame.by = w.joiner
                        /\ m.frame.kind # "snapshot"
    BY <1>5, <1>10, <2>1 DEF JoinFits
  <2> QED  BY <1>10, <2>2 DEF JoinFits
<1>18. ZerosFit(v)'
  <2>1. \A k \in Lanes : ~AtZero(v.c[k], now')
    BY <1>2, <1>6
  <2>2. ASSUME NEW x \in Panels, panel'[x].link, x # w.joiner, NEW k \in Lanes,
               AtZero(panel'[x].board.lane[k], now')
        PROVE  \/ Alike(panel'[x].board.lane[k], w.c[k], now')
               \/ Alike(Spent(panel'[x].board.lane[k]), w.c[k], now')
    <3>1. x # p \/ k # l
      BY <1>2, <1>13, <2>2, SpentRests
    <3>2. panel[x].link /\ panel'[x].board.lane[k] = panel[x].board.lane[k]
      BY <1>1, <1>2, <1>13, <2>2, <3>1 DEF was
    <3> QED  BY <1>2, <1>5, <2>2, <3>2 DEF ZerosFit
  <2> QED  BY <2>1, <2>2 DEF ZerosFit
<1>19. LeaderFits(v)'
  <2>1. PICK x \in Panels : panel[x].link /\ x # w.joiner /\ Shows(panel[x].board.lane, w.c)
    BY <1>5 DEF LeaderFits
  <2>2. x # p
    BY <1>7, <2>1 DEF Shows, was
  <2>3. panel'[x] = panel[x]
    BY <1>2, <2>2
  <2>4. Shows(panel[x].board.lane, v.c)'
    BY <1>2, <2>1, <2>3 DEF Shows
  <2> QED  BY <2>1, <2>3, <2>4 DEF LeaderFits
<1>20. ClocksFit(v)'
  BY <1>5 DEF ClocksFit
<1>21. ModesFit(v)'
  <2>1. panel[p].stamp.seq <= w.seq /\ n \in Nat /\ n <= w.seq + 1
    BY <1>1, <1>3, <1>4, <1>5 DEF ModesFit
  <2>2. w.seq # 0
    <3>1. \E m \in net : m.frame.kind \in Countdowns
      BY <1>9 DEF Awaits
    <3> QED  BY <1>5, <3>1 DEF ModesFit, Countdowns
  <2>3. w.seq <= v.seq /\ n <= v.seq /\ v.seq \in {w.seq, n}
    BY <1>4, <2>1
  <2>4. \A x \in Panels : Told(x, w.seq) => Told(x, w.seq)'
    BY <1>3 DEF Told
  <2>5. ASSUME NEW x \in Panels, panel[x].link
        PROVE  /\ panel[x].stamp.seq <= w.seq
               /\ panel[x].mode = w.mode
               /\ panel[x].stamp.seq < w.seq => Told(x, w.seq)
    <3>1. x # w.joiner
      BY <1>10, PanelsAssumption
    <3> QED  BY <1>5, <1>11, <2>5, <3>1 DEF ModesFit
  <2>6. ASSUME NEW x \in Panels, panel'[x].link
        PROVE  /\ panel'[x].stamp.seq <= v.seq
               /\ panel'[x].mode = v.mode
               /\ panel'[x].stamp.seq < v.seq => Told(x, v.seq)'
    <3>1. CASE x = p
      <4>1. panel'[x].mode = v.mode /\ n <= v.seq
        BY <1>2, <1>12, <2>3, <3>1
      <4>2. n < v.seq => v.seq = w.seq /\ panel[p].stamp.seq < w.seq
        BY <1>3, <1>4, <2>1, <2>3
      <4> QED  BY <1>1, <2>4, <2>5, <3>1, <4>1, <4>2
    <3>2. CASE x # p
      <4>1. panel'[x] = panel[x] /\ panel[x].link
        BY <1>2, <2>6, <3>2
      <4>2. v.seq # w.seq => v.seq = n /\ n = panel[p].stamp.seq + 1
        BY <1>3, <1>4, <2>1, <2>3
      <4>3. v.seq # w.seq => Told(x, v.seq)'
        BY <1>3, <1>4, <3>2, <4>1, <4>2 DEF Told
      <4>4. panel[x].stamp.seq \in Nat
        BY <1>4
      <4> QED  BY <1>4, <2>3, <2>4, <2>5, <4>1, <4>3, <4>4
    <3> QED  BY <3>1, <3>2
  <2>7. ASSUME NEW m \in net', m.frame.kind = "selection"
        PROVE  /\ m.frame.stamp.seq <= v.seq
               /\ m.frame.stamp.seq = v.seq => m.frame.view.mode = v.mode
               /\ m.frame.view.mode # v.mode => w.joiner # 0 \/ AllIdle(w)
    <3>1. CASE m \in net
      <4>1. m.frame.stamp.seq \in Nat
        BY <2>7, <3>1, FrameKinds DEF TypeOK, SelectionFrames, Stamp
      <4>2. /\ m.frame.stamp.seq <= w.seq
            /\ m.frame.stamp.seq = w.seq => m.frame.view.mode = w.mode
            /\ m.frame.view.mode # w.mode => w.joiner # 0 \/ AllIdle(w)
        BY <1>5, <2>7, <3>1 DEF ModesFit
      <4> QED  BY <1>4, <2>3, <4>1, <4>2
    <3>2. CASE m \notin net
      <4>1. m.frame.stamp.seq = n /\ m.frame.view.mode = w.mode
        BY <1>1, <1>3, <1>12, <2>7, <3>2
      <4> QED  BY <2>3, <4>1
    <3> QED  BY <3>1, <3>2
  <2>8. AllIdle(v)' <=> AllIdle(w)
    BY DEF AllIdle
  <2>9. v.seq # 0
    BY <1>4, <2>2, <2>3
  <2> QED  BY <1>10, <2>6, <2>7, <2>8, <2>9 DEF ModesFit
<1> QED  BY <1>14, <1>16, <1>17, <1>18, <1>19, <1>20, <1>21 DEF Room

-----------------------------------------------------------------------------
(* The room, when a frame comes in.                                        *)

\* Page p heard frame m and sent no event: of the room it moves its own lanes, and
\* those to the room's.
LEMMA HeardRoomFits ==
    ASSUME TypeOK, PagesFit, NEW w \in Rooms, Room(w), NEW p \in Panels, panel[p].link,
           NEW m \in net, m.to = p, NEW sent, net' = (net \ {m}) \union Fanout(p, sent),
           panel'[p].link, \A q \in Panels \ {p} : panel'[q] = panel[q], now' = now,
           \A f \in sent : f.kind \notin Countdowns,
           p # w.joiner => \A l \in Lanes :
             \/ Alike(panel'[p].board.lane[l], w.c[l], now)
             \/ /\ panel'[p].board.lane[l] = panel[p].board.lane[l]
                /\ ~(m.frame.kind \in Countdowns /\ m.frame.lane = l),
           NEW v \in Rooms, v.c = w.c, v.d = w.d, v.mode = w.mode, v.joiner = w.joiner,
           JoinFits(v)', ModesFit(v)'
    PROVE  Room(v)'
<1>1. /\ FramesFit(w) /\ LanesFit(w) /\ JoinFits(w) /\ ZerosFit(w) /\ LeaderFits(w) /\ ClocksFit(w)
      /\ ModesFit(w)
  BY DEF Room
<1>2. \A l \in Lanes : ~AtZero(w.c[l], now)
  BY <1>1 DEF ZerosFit
<1>3. \A n \in net' : n.frame.kind \in Countdowns => n \in net
  BY FanoutIs
<1>4. \A x \in Panels : \A l \in Lanes :
        Awaits(x, l) => Awaits(x, l)' \/ (x = p /\ m.frame.kind \in Countdowns /\ m.frame.lane = l)
  BY DEF Awaits
<1>5. \A x \in Panels : panel'[x].link => panel[x].link
  BY PanelsAssumption
<1>6. FramesFit(v)'
  BY <1>1, <1>3 DEF FramesFit
<1>7. LanesFit(v)'
  <2> SUFFICES ASSUME NEW x \in Panels, panel'[x].link, x # w.joiner, NEW l \in Lanes
               PROVE  \/ Alike(panel'[x].board.lane[l], w.c[l], now)
                      \/ Alike(panel'[x].board.lane[l], w.d[l], now) /\ Awaits(x, l)'
    BY DEF LanesFit
  <2>1. \/ Alike(panel[x].board.lane[l], w.c[l], now)
        \/ Alike(panel[x].board.lane[l], w.d[l], now) /\ Awaits(x, l)
    BY <1>1, <1>5 DEF LanesFit
  <2>2. CASE x = p
    BY <1>4, <2>1, <2>2
  <2>3. CASE x # p
    BY <1>4, <2>1, <2>3
  <2> QED  BY <2>2, <2>3
<1>8. ZerosFit(v)'
  <2> SUFFICES ASSUME NEW x \in Panels, panel'[x].link, x # w.joiner, NEW l \in Lanes,
                      AtZero(panel'[x].board.lane[l], now)
               PROVE  \/ Alike(panel'[x].board.lane[l], w.c[l], now)
                      \/ Alike(Spent(panel'[x].board.lane[l]), w.c[l], now)
    BY <1>2 DEF ZerosFit
  <2>1. AtZero(panel[x].board.lane[l], now) =>
          \/ Alike(panel[x].board.lane[l], w.c[l], now)
          \/ Alike(Spent(panel[x].board.lane[l]), w.c[l], now)
    BY <1>1, <1>5 DEF ZerosFit
  <2> QED  BY <2>1
<1>9. LeaderFits(v)'
  <2>1. PICK x \in Panels : panel[x].link /\ x # w.joiner /\ Shows(panel[x].board.lane, w.c)
    BY <1>1 DEF LeaderFits
  <2>2. Shows(panel[x].board.lane, v.c)'
    BY <2>1 DEF Shows
  <2> QED  BY <2>1, <2>2 DEF LeaderFits
<1>10. ClocksFit(v)'
  BY <1>1 DEF ClocksFit
<1> QED  BY <1>6, <1>7, <1>8, <1>9, <1>10 DEF Room

\* What page p says after a frame other than an ask: its own selection, if it moved.
LEMMA RetoldModesFit ==
    ASSUME TypeOK, PagesFit, NEW w \in Rooms, Room(w), NEW p \in Panels, panel[p].link,
           NEW m \in net, m.to = p, m.frame.kind # "ask",
           NEW sent, net' = (net \ {m}) \union Fanout(p, sent),
           panel'[p].link, \A q \in Panels \ {p} : panel'[q] = panel[q],
           sent = Retold(p, panel'[p]),
           panel'[p].stamp.seq <= w.seq,
           panel'[p].stamp.seq = w.seq => panel'[p].mode = w.mode,
           panel'[p].stamp.seq < w.seq => Told(p, w.seq)' \/ (p = w.joiner /\ Asking(p)),
           w.joiner # 0 /\ p # w.joiner => panel'[p].stamp.seq = w.seq,
           panel'[p].mode # w.mode => p = w.joiner \/ AllIdle(w)
    PROVE  ModesFit(w)'
<1>1. ModesFit(w)
  BY DEF Room
<1>2. w.seq # 0
  BY <1>1 DEF ModesFit
<1>3. \A x \in Panels : Asking(x) => Asking(x)'
  BY DEF Asking
<1>4. \A x \in Panels \ {p} : Told(x, w.seq) => Told(x, w.seq)'
  BY DEF Told
<1>5. \A f \in sent : /\ f.kind = "selection" /\ f.stamp.seq = panel'[p].stamp.seq
                      /\ f.view.mode = panel'[p].mode
  BY RetoldIs
<1>6. \A n \in net' : n \in net \/ n.frame \in sent
  BY FanoutIs
<1>7. ASSUME NEW x \in Panels, panel'[x].link
      PROVE  /\ panel'[x].stamp.seq <= w.seq
             /\ panel'[x].stamp.seq = w.seq => panel'[x].mode = w.mode
             /\ panel'[x].stamp.seq < w.seq => Told(x, w.seq)' \/ (x = w.joiner /\ Asking(x)')
             /\ w.joiner # 0 /\ x # w.joiner => panel'[x].stamp.seq = w.seq
             /\ panel'[x].mode # w.mode => x = w.joiner \/ AllIdle(w)
  <2>1. CASE x = p
    BY <1>3, <2>1
  <2>2. CASE x # p
    <3>1. panel'[x] = panel[x] /\ panel[x].link
      BY <1>7, <2>2
    <3>2. /\ panel[x].stamp.seq <= w.seq
          /\ panel[x].stamp.seq = w.seq => panel[x].mode = w.mode
          /\ panel[x].stamp.seq < w.seq => Told(x, w.seq) \/ (x = w.joiner /\ Asking(x))
          /\ w.joiner # 0 /\ x # w.joiner => panel[x].stamp.seq = w.seq
          /\ panel[x].mode # w.mode => x = w.joiner \/ AllIdle(w)
      BY <1>1, <1>2, <3>1 DEF ModesFit
    <3> QED  BY <1>3, <1>4, <2>2, <3>1, <3>2
  <2> QED  BY <2>1, <2>2
<1>8. ASSUME NEW n \in net', n.frame.kind = "selection"
      PROVE  /\ n.frame.stamp.seq <= w.seq
             /\ n.frame.stamp.seq = w.seq => n.frame.view.mode = w.mode
             /\ n.frame.view.mode # w.mode => w.joiner # 0 \/ AllIdle(w)
  <2>1. CASE n \in net
    BY <1>1, <1>8, <2>1 DEF ModesFit
  <2>2. CASE n.frame \in sent
    BY <1>5, <2>2, PanelsAssumption
  <2> QED  BY <1>6, <2>1, <2>2
<1>9. AllIdle(w)' <=> AllIdle(w)
  BY DEF AllIdle
<1> QED  BY <1>2, <1>7, <1>8, <1>9 DEF ModesFit

\* What a page that hears keeps of the join: another page's part of it, and what is in
\* flight for it.
LEMMA HeardJoinFits ==
    ASSUME TypeOK, PagesFit, NEW w \in Rooms, Room(w), NEW p \in Panels, panel[p].link,
           NEW m \in net, m.to = p, m.frame.kind # "ask",
           NEW sent, net' = (net \ {m}) \union Fanout(p, sent),
           panel'[p].link, \A q \in Panels \ {p} : panel'[q] = panel[q], now' = now,
           ~panel'[p].offer,
           \A f \in sent : f.kind = "selection",
           p = w.joiner =>
             \/ Shows(panel'[p].board.lane, w.c)
             \/ /\ panel'[p].live = panel[p].live /\ panel'[p].board.lane = panel[p].board.lane
                /\ m.frame.kind # "snapshot"
    PROVE  JoinFits(w)'
<1>1. JoinFits(w)
  BY DEF Room
<1>2. \A n \in net' : n.frame.kind \in {"ask", "snapshot"} => n \in net
  BY FanoutIs
<1>3. Asking(w.joiner) => Asking(w.joiner)'
  BY DEF Asking
<1>4. ASSUME w.joiner # 0
      PROVE  /\ panel'[w.joiner].link
             /\ \E x \in Panels : x # w.joiner /\ panel'[x].link /\ ~panel'[x].offer
             /\ \/ Shows(panel'[w.joiner].board.lane, w.c)
                \/ /\ ~panel'[w.joiner].live
                   /\ \A l \in Lanes : panel'[w.joiner].board.lane[l].phase = "idle"
                   /\ Asking(w.joiner)' \/ \E n \in net' : n.to = w.joiner /\ n.frame.kind = "snapshot"
  <2>1. w.joiner \in Panels
    BY <1>4 DEF Rooms
  <2>2. /\ panel[w.joiner].link
        /\ \E x \in Panels : x # w.joiner /\ panel[x].link /\ ~panel[x].offer
        /\ \/ Shows(panel[w.joiner].board.lane, w.c)
           \/ /\ ~panel[w.joiner].live
              /\ \A l \in Lanes : panel[w.joiner].board.lane[l].phase = "idle"
              /\ Asking(w.joiner) \/ \E n \in net : n.to = w.joiner /\ n.frame.kind = "snapshot"
    BY <1>1, <1>4 DEF JoinFits
  <2>3. panel'[w.joiner].link
    BY <2>1, <2>2
  <2>4. \E x \in Panels : x # w.joiner /\ panel'[x].link /\ ~panel'[x].offer
    BY <2>2
  <2>5. CASE w.joiner = p
    <3>1. CASE Shows(panel'[p].board.lane, w.c)
      BY <2>3, <2>4, <2>5, <3>1
    <3>2. CASE /\ panel'[p].live = panel[p].live /\ panel'[p].board.lane = panel[p].board.lane
               /\ m.frame.kind # "snapshot"
      <4>1. (\E n \in net : n.to = w.joiner /\ n.frame.kind = "snapshot") =>
              \E n \in net' : n.to = w.joiner /\ n.frame.kind = "snapshot"
        BY <3>2
      <4> QED  BY <1>3, <2>2, <2>3, <2>4, <2>5, <3>2, <4>1
    <3> QED  BY <2>5, <3>1, <3>2
  <2>6. CASE w.joiner # p
    <3>1. panel'[w.joiner] = panel[w.joiner]
      BY <2>1, <2>6
    <3>2. (\E n \in net : n.to = w.joiner /\ n.frame.kind = "snapshot") =>
            \E n \in net' : n.to = w.joiner /\ n.frame.kind = "snapshot"
      BY <2>6
    <3> QED  BY <1>3, <2>2, <2>4, <3>1, <3>2
  <2> QED  BY <2>5, <2>6
<1>5. w.joiner # 0 => (\/ Shows(panel[w.joiner].board.lane, w.c)'
                       \/ /\ ~panel'[w.joiner].live
                          /\ \A l \in Lanes : panel'[w.joiner].board.lane[l].phase = "idle"
                          /\ Asking(w.joiner)' \/ \E n \in net' : n.to = w.joiner /\ n.frame.kind = "snapshot")
  BY <1>4 DEF Shows
<1>6. \A n \in net' : /\ n.frame.kind = "ask" => n.frame.by = w.joiner
                      /\ n.frame.kind = "snapshot" =>
                           /\ w.joiner # 0
                           /\ Shows([l \in Lanes |-> LaneFromSnapshot(n.frame.rows[l])], w.c)
  BY <1>1, <1>2 DEF JoinFits
<1>7. \A n \in net' : n.frame.kind = "snapshot" =>
        w.joiner # 0 /\ Shows([l \in Lanes |-> LaneFromSnapshot(n.frame.rows[l])], w.c)'
  BY <1>6 DEF Shows
<1> QED  BY <1>1, <1>4, <1>5, <1>6, <1>7 DEF JoinFits

\* What every frame that comes in leaves alone.
LEMMA DeliversGives ==
    ASSUME TypeOK, PagesFit, NEW p \in Panels, NEW m \in net, NEW sent \in SUBSET Frames,
           Delivers(p, m, sent)
    PROVE  /\ m.to = p /\ panel[p].link /\ panel'[p].link /\ m.frame \in Frames
           /\ \A q \in Panels \ {p} : panel'[q] = panel[q]
           /\ net' = (net \ {m}) \union Fanout(p, sent) /\ now' = now
           /\ ~panel'[p].offer
           /\ m.frame.kind # "ask" =>
                /\ sent = Retold(p, panel'[p])
                /\ \A f \in sent : f.kind = "selection" /\ f.kind \notin Countdowns
<1>1. /\ m.to = p /\ panel[p].link /\ panel'[p].link /\ m.frame \in Frames
      /\ \A q \in Panels \ {p} : panel'[q] = panel[q]
      /\ net' = (net \ {m}) \union Fanout(p, sent) /\ now' = now
  BY DEF Delivers, PagesFit
<1>2. ~panel'[p].offer
  BY <1>1 DEF Delivers, AnswersIt, MirrorsIt, FollowsIt, HydratesIt, PagesFit
<1>3. m.frame.kind # "ask" => sent = Retold(p, panel'[p])
  BY DEF Delivers, MirrorsIt, FollowsIt, HydratesIt
<1>4. m.frame.kind # "ask" => \A f \in sent : f.kind = "selection" /\ f.kind \notin Countdowns
  BY <1>3, RetoldIs DEF Countdowns
<1> QED  BY <1>1, <1>2, <1>3, <1>4

LEMMA RoomParts ==
    ASSUME TypeOK, NEW w \in Rooms, Room(w), NEW m \in net
    PROVE  /\ FramesFit(w) /\ LanesFit(w) /\ JoinFits(w) /\ ZerosFit(w) /\ LeaderFits(w)
           /\ ClocksFit(w) /\ ModesFit(w)
           /\ m.frame.kind # "ask" => w.seq # 0
           /\ m.frame.kind \in {"ask", "snapshot"} => w.joiner # 0 /\ w.d = w.c
           /\ m.frame.kind \in Countdowns => w.joiner = 0
<1>1. /\ FramesFit(w) /\ LanesFit(w) /\ JoinFits(w) /\ ZerosFit(w) /\ LeaderFits(w)
      /\ ClocksFit(w) /\ ModesFit(w)
  BY DEF Room
<1>2. m.frame.kind # "ask" => w.seq # 0
  BY <1>1 DEF ModesFit
<1>3. m.frame.kind = "ask" => w.joiner # 0
  <2>1. m.frame.kind = "ask" => m.frame.by \in Panels
    BY FrameKinds DEF TypeOK, AskFrames
  <2> QED  BY <1>1, <2>1, PanelsAssumption DEF JoinFits
<1>4. m.frame.kind = "snapshot" => w.joiner # 0
  BY <1>1 DEF JoinFits
<1>5. w.joiner # 0 => w.d = w.c
  BY <1>1 DEF JoinFits
<1>6. m.frame.kind \in Countdowns => w.joiner = 0
  BY <1>1 DEF FramesFit
<1> QED  BY <1>1, <1>2, <1>3, <1>4, <1>5, <1>6

\* What a listening page owes the room, when there is no join under way.
LEMMA PageModeFits ==
    ASSUME TypeOK, NEW w \in Rooms, Room(w), NEW m \in net, m.frame.kind # "ask",
           NEW p \in Panels, panel[p].link
    PROVE  /\ panel[p].stamp.seq <= w.seq
           /\ panel[p].stamp.seq = w.seq => panel[p].mode = w.mode
           /\ panel[p].stamp.seq < w.seq => Told(p, w.seq) \/ (p = w.joiner /\ Asking(p))
           /\ w.joiner # 0 /\ p # w.joiner => panel[p].stamp.seq = w.seq
           /\ panel[p].mode # w.mode => p = w.joiner \/ AllIdle(w)
<1>1. ModesFit(w) /\ w.seq # 0
  BY RoomParts
<1> QED  BY <1>1 DEF ModesFit

\* A countdown frame that lands leaves the room's lane.
LEMMA MirroredLane ==
    ASSUME TypeOK, PagesFit, NEW w \in Rooms, Room(w), NEW p \in Panels, NEW m \in net,
           NEW sent \in SUBSET Frames, Delivers(p, m, sent), m.frame.kind \in Countdowns
    PROVE  /\ m.frame \in CountFrames /\ m.frame.lane \in Lanes
           /\ panel'[p].board = Mirrored(panel[p].board, m.frame)
           /\ panel'[p].stamp = panel[p].stamp /\ panel'[p].mode = panel[p].mode
           /\ panel'[p].board.lane = [panel[p].board.lane EXCEPT ![m.frame.lane] =
                                       Lands(m.frame, panel[p].board.lane[m.frame.lane])]
           /\ Alike(Lands(m.frame, panel[p].board.lane[m.frame.lane]), w.c[m.frame.lane], now)
<1> DEFINE f == m.frame
<1>1. /\ m.to = p /\ panel[p].link
  BY DeliversGives DEF Countdowns
<1>2. /\ f \in CountFrames
      /\ panel'[p].stamp = panel[p].stamp /\ panel'[p].mode = panel[p].mode
      /\ panel'[p].board = Mirrored(panel[p].board, f)
  BY DEF Delivers, MirrorsIt, Countdowns
<1>3. /\ now \in Nat /\ panel[p].board \in Boards /\ f.lane \in Lanes
      /\ \A l \in Lanes : w.c[l] \in LaneStates /\ w.d[l] \in LaneStates
                          /\ panel[p].board.lane[l] \in LaneStates
  BY <1>2, PageParts, BoardParts, CountFrameParts DEF TypeOK, Rooms, RowSet
<1>4. panel'[p].board.lane = [panel[p].board.lane EXCEPT ![f.lane] = Lands(f, panel[p].board.lane[f.lane])]
  <2> DEFINE old == panel[p].board
  <2>1. old \in Boards /\ f \in CountFrames /\ now \in Nat
    BY <1>2, <1>3
  <2> HIDE DEF old, f
  <2>2. Mirrored(old, f).lane = [old.lane EXCEPT ![f.lane] = Lands(f, old.lane[f.lane])]
    BY <2>1, MirroredGives
  <2> QED  BY <1>2, <2>2 DEF old
<1>5. w.joiner = 0 /\ FramesFit(w) /\ LanesFit(w)
  BY RoomParts
<1>6. p # w.joiner
  BY <1>5, PanelsAssumption
<1>7. Alike(Lands(f, panel[p].board.lane[f.lane]), w.c[f.lane], now)
  <2>1. /\ Alike(Lands(f, w.c[f.lane]), w.c[f.lane], now)
        /\ Alike(Lands(f, w.d[f.lane]), w.c[f.lane], now)
    BY <1>5 DEF FramesFit
  <2>2. \/ Alike(panel[p].board.lane[f.lane], w.c[f.lane], now)
        \/ Alike(panel[p].board.lane[f.lane], w.d[f.lane], now)
    BY <1>1, <1>3, <1>5, <1>6 DEF LanesFit
  <2>3. \/ Alike(Lands(f, panel[p].board.lane[f.lane]), Lands(f, w.c[f.lane]), now)
        \/ Alike(Lands(f, panel[p].board.lane[f.lane]), Lands(f, w.d[f.lane]), now)
    BY <1>2, <1>3, <2>2, LandsAlike
  <2> QED  BY <2>1, <2>3, AlikeIsEqual
<1> QED  BY <1>2, <1>3, <1>4, <1>7

LEMMA MirroredRoomFits ==
    ASSUME TypeOK, PagesFit, NEW w \in Rooms, Room(w), NEW p \in Panels, NEW m \in net,
           NEW sent \in SUBSET Frames, Delivers(p, m, sent), m.frame.kind \in Countdowns
    PROVE  Room(w)'
<1> DEFINE f == m.frame
<1>1. /\ m.to = p /\ panel[p].link /\ panel'[p].link /\ f \in Frames /\ f.kind # "ask"
      /\ \A q \in Panels \ {p} : panel'[q] = panel[q]
      /\ net' = (net \ {m}) \union Fanout(p, sent) /\ now' = now
      /\ ~panel'[p].offer
      /\ sent = Retold(p, panel'[p])
      /\ \A g \in sent : g.kind = "selection" /\ g.kind \notin Countdowns
  BY DeliversGives DEF Countdowns
<1>2. /\ panel'[p].stamp = panel[p].stamp /\ panel'[p].mode = panel[p].mode
      /\ panel'[p].board.lane = [panel[p].board.lane EXCEPT ![f.lane] = Lands(f, panel[p].board.lane[f.lane])]
  BY MirroredLane
<1>3. panel[p].board \in Boards /\ f.lane \in Lanes
  BY MirroredLane, PageParts DEF TypeOK
<1>5. w.joiner = 0 /\ FramesFit(w) /\ LanesFit(w)
  BY RoomParts
<1>6. p # w.joiner
  BY <1>5, PanelsAssumption
<1>7. Alike(Lands(f, panel[p].board.lane[f.lane]), w.c[f.lane], now)
  BY MirroredLane
<1>8. ASSUME NEW l \in Lanes
      PROVE  \/ Alike(panel'[p].board.lane[l], w.c[l], now)
             \/ panel'[p].board.lane[l] = panel[p].board.lane[l] /\ f.lane # l
  <2>1. panel[p].board.lane \in [Lanes -> LaneStates]
    BY <1>3, BoardParts
  <2>2. CASE l = f.lane
    BY <1>2, <1>7, <2>1, <2>2
  <2>3. CASE l # f.lane
    BY <1>2, <2>1, <2>3
  <2> QED  BY <2>2, <2>3
<1>9. ModesFit(w)'
  <2>1. /\ panel[p].stamp.seq <= w.seq
        /\ panel[p].stamp.seq = w.seq => panel[p].mode = w.mode
        /\ panel[p].stamp.seq < w.seq => Told(p, w.seq)
        /\ panel[p].mode # w.mode => AllIdle(w)
    BY <1>1, <1>6, PageModeFits
  <2>2. Told(p, w.seq) => Told(p, w.seq)'
    BY <1>1 DEF Told, Countdowns
  <2> QED  BY <1>1, <1>2, <1>5, <2>1, <2>2, RetoldModesFit
<1>10. JoinFits(w)'
  BY <1>1, <1>6, HeardJoinFits
<1> QED  BY <1>1, <1>8, <1>9, <1>10, HeardRoomFits

LEMMA FollowedRoomFits ==
    ASSUME TypeOK, PagesFit, NEW w \in Rooms, Room(w), NEW p \in Panels, NEW m \in net,
           NEW sent \in SUBSET Frames, Delivers(p, m, sent), m.frame.kind = "selection"
    PROVE  Room(w)'
<1> DEFINE f == m.frame
<1>1. /\ m.to = p /\ panel[p].link /\ panel'[p].link /\ f \in Frames /\ f.kind # "ask"
      /\ \A q \in Panels \ {p} : panel'[q] = panel[q]
      /\ net' = (net \ {m}) \union Fanout(p, sent) /\ now' = now
      /\ ~panel'[p].offer
      /\ sent = Retold(p, panel'[p])
      /\ \A g \in sent : g.kind = "selection" /\ g.kind \notin Countdowns
  BY DeliversGives DEF Countdowns
<1>2. /\ f \in SelectionFrames
      /\ panel'[p].live = panel[p].live
      /\ IF Outranks(f.stamp, panel[p].stamp)
         THEN /\ panel'[p].stamp = f.stamp /\ panel'[p].mode = f.view.mode
              /\ panel'[p].board = PeerHint(panel[p].board, f.view.nextUp, f.view.mode)
         ELSE /\ panel'[p].stamp = panel[p].stamp /\ panel'[p].mode = panel[p].mode
              /\ panel'[p].board = panel[p].board
  BY DEF Delivers, FollowsIt, Countdowns
<1>3. /\ panel[p].board \in Boards /\ f.view.nextUp \in Lanes \union {0}
      /\ f.stamp.seq \in Nat /\ panel[p].stamp.seq \in Nat /\ w.seq \in Nat
  BY <1>2, PageParts DEF TypeOK, SelectionFrames, Views, Stamp, Rooms
<1>4. panel'[p].board.lane = panel[p].board.lane
  BY <1>2, <1>3, PeerHintGives
<1>5. /\ f.stamp.seq <= w.seq
      /\ f.stamp.seq = w.seq => f.view.mode = w.mode
      /\ f.view.mode # w.mode => w.joiner # 0 \/ AllIdle(w)
  <2>1. ModesFit(w)
    BY RoomParts
  <2> QED  BY <2>1 DEF ModesFit
<1>6. /\ panel[p].stamp.seq <= w.seq
      /\ panel[p].stamp.seq = w.seq => panel[p].mode = w.mode
      /\ panel[p].stamp.seq < w.seq => Told(p, w.seq) \/ (p = w.joiner /\ Asking(p))
      /\ w.joiner # 0 /\ p # w.joiner => panel[p].stamp.seq = w.seq
      /\ panel[p].mode # w.mode => p = w.joiner \/ AllIdle(w)
  BY <1>1, PageModeFits
<1>7. ASSUME f.stamp.seq < w.seq, Told(p, w.seq)
      PROVE  Told(p, w.seq)'
  <2>1. PICK n \in net : n.to = p /\ n.frame.kind = "selection" /\ n.frame.stamp.seq = w.seq
    BY <1>7 DEF Told
  <2>2. n # m
    BY <1>3, <1>7, <2>1
  <2> QED  BY <1>1, <2>1, <2>2 DEF Told
<1>8. ModesFit(w)'
  <2>1. CASE Outranks(f.stamp, panel[p].stamp)
    <3>1. panel'[p].stamp = f.stamp /\ panel'[p].mode = f.view.mode
      BY <1>2, <2>1
    <3>2. f.stamp.seq >= panel[p].stamp.seq
      BY <1>3, <2>1 DEF Outranks
    <3>3. /\ panel'[p].stamp.seq <= w.seq
          /\ panel'[p].stamp.seq = w.seq => panel'[p].mode = w.mode
          /\ panel'[p].stamp.seq < w.seq => Told(p, w.seq)' \/ (p = w.joiner /\ Asking(p))
          /\ w.joiner # 0 /\ p # w.joiner => panel'[p].stamp.seq = w.seq
      BY <1>3, <1>5, <1>6, <1>7, <3>1, <3>2
    <3>4. panel'[p].mode # w.mode => p = w.joiner \/ AllIdle(w)
      BY <1>3, <1>5, <1>6, <3>1, <3>3
    <3> QED  BY <1>1, <3>3, <3>4, RetoldModesFit
  <2>2. CASE ~Outranks(f.stamp, panel[p].stamp)
    <3>1. panel'[p].stamp = panel[p].stamp /\ panel'[p].mode = panel[p].mode
      BY <1>2, <2>2
    <3>2. f.stamp.seq <= panel[p].stamp.seq
      BY <1>3, <2>2 DEF Outranks
    <3>3. panel'[p].stamp.seq < w.seq => Told(p, w.seq)' \/ (p = w.joiner /\ Asking(p))
      BY <1>3, <1>6, <1>7, <3>1, <3>2
    <3> QED  BY <1>1, <1>6, <3>1, <3>3, RetoldModesFit
  <2> QED  BY <2>1, <2>2
<1>9. JoinFits(w)'
  BY <1>1, <1>2, <1>4, HeardJoinFits
<1> QED  BY <1>1, <1>4, <1>8, <1>9, HeardRoomFits DEF Countdowns

LEMMA HydratedRoomFits ==
    ASSUME TypeOK, PagesFit, NEW w \in Rooms, Room(w), NEW p \in Panels, NEW m \in net,
           NEW sent \in SUBSET Frames, Delivers(p, m, sent), m.frame.kind = "snapshot"
    PROVE  Room(w)'
<1> DEFINE f == m.frame
           rows == [l \in Lanes |-> LaneFromSnapshot(f.rows[l])]
<1>1. /\ m.to = p /\ panel[p].link /\ panel'[p].link /\ f \in Frames /\ f.kind # "ask"
      /\ \A q \in Panels \ {p} : panel'[q] = panel[q]
      /\ net' = (net \ {m}) \union Fanout(p, sent) /\ now' = now
      /\ ~panel'[p].offer
      /\ sent = Retold(p, panel'[p])
      /\ \A g \in sent : g.kind = "selection" /\ g.kind \notin Countdowns
  BY DeliversGives DEF Countdowns
<1>2. /\ f \in SnapshotFrames
      /\ panel'[p].live = panel[p].live
      /\ panel'[p].stamp = panel[p].stamp /\ panel'[p].mode = panel[p].mode
      /\ panel'[p].board = IF panel[p].live THEN panel[p].board ELSE PeerSnapshot(panel[p].board, f.rows)
  BY DEF Delivers, HydratesIt, Countdowns
<1>3. panel[p].board \in Boards /\ f.rows \in RowSet
  BY <1>2, PageParts DEF TypeOK, SnapshotFrames
<1>4. panel'[p].board.lane = IF panel[p].live THEN panel[p].board.lane ELSE rows
  BY <1>2, <1>3, PeerSnapshotGives
<1> HIDE DEF rows
<1>5. JoinFits(w) /\ w.joiner # 0
  BY RoomParts
<1>6. Shows(rows, w.c)
  BY <1>5 DEF JoinFits, rows
<1>7. p = w.joiner => Shows(panel'[p].board.lane, w.c)
  BY <1>4, <1>5, <1>6 DEF JoinFits
<1>8. \A l \in Lanes : \/ Alike(panel'[p].board.lane[l], w.c[l], now)
                       \/ panel'[p].board.lane[l] = panel[p].board.lane[l]
  BY <1>4, <1>6 DEF Shows
<1>9. ModesFit(w)'
  <2>1. /\ panel[p].stamp.seq <= w.seq
        /\ panel[p].stamp.seq = w.seq => panel[p].mode = w.mode
        /\ panel[p].stamp.seq < w.seq => Told(p, w.seq) \/ (p = w.joiner /\ Asking(p))
        /\ w.joiner # 0 /\ p # w.joiner => panel[p].stamp.seq = w.seq
        /\ panel[p].mode # w.mode => p = w.joiner \/ AllIdle(w)
    BY <1>1, PageModeFits
  <2>2. Told(p, w.seq) => Told(p, w.seq)'
    BY <1>1 DEF Told
  <2> QED  BY <1>1, <1>2, <2>1, <2>2, RetoldModesFit
<1>10. JoinFits(w)'
  BY <1>1, <1>7, HeardJoinFits
<1> QED  BY <1>1, <1>8, <1>9, <1>10, HeardRoomFits DEF Countdowns

\* What a panel of the room tells of its lanes is what the room shows.
LEMMA RoomRows ==
    ASSUME TypeOK, NEW w \in Rooms, Room(w), NEW p \in Panels, panel[p].link, p # w.joiner, w.d = w.c
    PROVE  Shows([l \in Lanes |-> LaneFromSnapshot(Rows(panel[p])[l])], w.c)
<1>1. /\ now \in Nat /\ panel[p].board \in Boards
      /\ \A l \in Lanes : w.c[l] \in LaneStates /\ panel[p].board.lane[l] \in LaneStates
  BY PageParts, BoardParts DEF TypeOK, Rooms, RowSet
<1>2. LanesFit(w) /\ ClocksFit(w)
  BY DEF Room
<1> SUFFICES ASSUME NEW l \in Lanes
             PROVE  Alike(LaneFromSnapshot(Row(panel[p].board.lane[l], now)), w.c[l], now)
  BY DEF Shows, Rows
<1>3. Alike(panel[p].board.lane[l], w.c[l], now)
  BY <1>2 DEF LanesFit
<1>4. Proper(w.c[l])
  BY <1>2 DEF ClocksFit, Fitting
<1>5. Proper(panel[p].board.lane[l])
  BY <1>1, <1>3, <1>4, ProperAlike
<1>6. /\ LaneFromSnapshot(Row(panel[p].board.lane[l], now)) = Row(panel[p].board.lane[l], now)
      /\ Alike(Row(panel[p].board.lane[l], now), panel[p].board.lane[l], now)
  BY <1>1, <1>5, ProperRow
<1> QED  BY <1>3, <1>6, AlikeIsEqual

LEMMA AnsweredRoomFits ==
    ASSUME TypeOK, PagesFit, NEW w \in Rooms, Room(w), NEW p \in Panels, NEW m \in net,
           NEW sent \in SUBSET Frames, Delivers(p, m, sent), m.frame.kind = "ask",
           NEW v \in Rooms, v.c = w.c, v.d = w.d, v.mode = w.mode, v.joiner = w.joiner,
           v.seq = panel'[p].stamp.seq
    PROVE  Room(v)'
<1> DEFINE j == w.joiner
           old == panel[p]
           stamp == IF old.stamp.seq > 0 THEN Restated(p, old.stamp) ELSE Minted(p, old.stamp, FALSE, 0)
           told == SelectionFrame(stamp, old)
           shot == SnapshotFrame(old)
<1>1. /\ m.to = p /\ panel[p].link /\ panel'[p].link /\ m.frame \in Frames
      /\ \A q \in Panels \ {p} : panel'[q] = panel[q]
      /\ net' = (net \ {m}) \union Fanout(p, sent) /\ now' = now
      /\ ~panel'[p].offer
  BY DeliversGives
<1>2. /\ panel'[p].live = old.live /\ panel'[p].mode = old.mode /\ panel'[p].board = old.board
      /\ panel'[p].stamp = IF old.stamp.seq > 0 THEN old.stamp ELSE stamp
      /\ sent = {told, shot}
  BY DEF Delivers, AnswersIt, Countdowns
<1>3. old \in Pages /\ old.stamp \in Stamp /\ old.stamp.seq \in Nat /\ w.seq \in Nat
  BY PageParts DEF TypeOK, Stamp, Rooms
<1>4. stamp.seq = IF old.stamp.seq > 0 THEN old.stamp.seq ELSE old.stamp.seq + 1
  <2>1. old.stamp.seq > 0 => stamp = Restated(p, old.stamp)
    OBVIOUS
  <2>2. ~(old.stamp.seq > 0) => stamp = Minted(p, old.stamp, FALSE, 0)
    OBVIOUS
  <2> HIDE DEF stamp, old
  <2>3. Restated(p, old.stamp).seq = old.stamp.seq
    BY DEF Restated
  <2>4. Minted(p, old.stamp, FALSE, 0).seq = old.stamp.seq + 1
    <3> DEFINE claim == Minted(p, old.stamp, FALSE, 0)
    <3>1. claim = [seq |-> old.stamp.seq + 1, by |-> p, echo |-> FALSE]
      BY <1>3, StampsAreStamps
    <3> HIDE DEF claim
    <3>2. claim.seq = old.stamp.seq + 1
      BY <3>1
    <3> QED  BY <3>2 DEF claim
  <2> QED  BY <2>1, <2>2, <2>3, <2>4
<1> HIDE DEF stamp
<1>5. /\ told.kind = "selection" /\ told.stamp = stamp /\ told.view.mode = old.mode
      /\ shot.kind = "snapshot" /\ shot.rows = Rows(old)
  BY AnswerIs
<1> HIDE DEF told, shot
<1>6. /\ LanesFit(w) /\ JoinFits(w) /\ ModesFit(w) /\ w.joiner # 0 /\ w.d = w.c
  BY RoomParts
<1>7. /\ j \in Panels /\ m.frame.by = j /\ j # p /\ panel[j].link /\ panel'[j] = panel[j]
  <2>1. j \in Panels
    BY <1>6 DEF Rooms
  <2>2. m.frame.by = j /\ panel[j].link
    BY <1>6 DEF JoinFits
  <2>3. m.to # m.frame.by
    BY DEF PagesFit
  <2> QED  BY <1>1, <2>1, <2>2, <2>3
<1>8. /\ old.stamp.seq = w.seq /\ old.mode = w.mode
  BY <1>1, <1>6, <1>7 DEF ModesFit
<1>9. v.seq # 0 /\ stamp.seq = v.seq /\ (w.seq # 0 => v.seq = w.seq) /\ (w.seq = 0 => v.seq = 1)
  BY <1>2, <1>3, <1>4, <1>8
<1>10. \A n \in net' : n \in net \/ n.frame \in {told, shot}
  BY <1>1, <1>2, FanoutIs
<1>11. [to |-> j, frame |-> told] \in net' /\ [to |-> j, frame |-> shot] \in net'
  BY <1>1, <1>2, <1>7, FanoutIs
<1>12. Shows([l \in Lanes |-> LaneFromSnapshot(shot.rows[l])], w.c)
  BY <1>1, <1>5, <1>6, <1>7, RoomRows
<1>13. Told(j, v.seq)'
  <2>1. \E n \in net' : n.to = j /\ n.frame.kind = "selection" /\ n.frame.stamp.seq = v.seq
    BY <1>5, <1>9, <1>11
  <2> QED  BY <2>1 DEF Told
<1>14. \A x \in Panels : panel'[x].link => panel[x].link
  BY <1>1
<1>15. ASSUME NEW x \in Panels, panel'[x].link
       PROVE  /\ panel'[x].stamp.seq <= v.seq
              /\ panel'[x].stamp.seq = v.seq => panel'[x].mode = w.mode
              /\ panel'[x].stamp.seq < v.seq => Told(x, v.seq)'
              /\ x # j => panel'[x].stamp.seq = v.seq
              /\ panel'[x].mode # w.mode => x = j
  <2>1. CASE x = p
    BY <1>2, <1>3, <1>7, <1>8, <1>9, <2>1
  <2>2. CASE x = j
    <3>1. /\ panel[j].stamp.seq <= w.seq
          /\ panel[j].stamp.seq = w.seq => panel[j].mode = w.mode \/ w.seq = 0
      BY <1>6, <1>7 DEF ModesFit
    <3>2. panel[j].stamp.seq \in Nat
      BY <1>7, PageParts DEF TypeOK, Stamp
    <3> QED  BY <1>3, <1>7, <1>9, <1>13, <2>2, <3>1, <3>2
  <2>3. CASE x # p /\ x # j
    <3>1. panel'[x] = panel[x] /\ panel[x].link
      BY <1>1, <1>15, <2>3
    <3>2. w.seq # 0
      BY <1>1, <1>6, <1>7, <2>3, <3>1 DEF ModesFit
    <3>3. panel[x].stamp.seq = w.seq /\ panel[x].mode = w.mode
      BY <1>6, <2>3, <3>1, <3>2 DEF ModesFit
    <3> QED  BY <1>3, <1>9, <2>3, <3>1, <3>2, <3>3
  <2> QED  BY <2>1, <2>2, <2>3
<1>16. ASSUME NEW n \in net', n.frame.kind = "selection"
       PROVE  n.frame.stamp.seq <= v.seq /\ (n.frame.stamp.seq = v.seq => n.frame.view.mode = w.mode)
  <2>1. CASE n \in net
    BY <1>6, <1>9, <1>16, <2>1 DEF ModesFit
  <2>2. CASE n.frame = told
    BY <1>3, <1>5, <1>8, <1>9, <2>2
  <2>3. CASE n.frame = shot
    BY <1>5, <1>16, <2>3
  <2> QED  BY <1>10, <2>1, <2>2, <2>3
<1>17. ModesFit(v)'
  BY <1>6, <1>9, <1>15, <1>16 DEF ModesFit
<1>18. JoinFits(v)'
  <2>1. panel'[j].link
    BY <1>7
  <2>2. \E x \in Panels : x # j /\ panel'[x].link /\ ~panel'[x].offer
    BY <1>1, <1>7
  <2>3. \/ Shows(panel'[j].board.lane, w.c)
        \/ /\ ~panel'[j].live
           /\ \A l \in Lanes : panel'[j].board.lane[l].phase = "idle"
    BY <1>6, <1>7 DEF JoinFits
  <2>4. \E n \in net' : n.to = j /\ n.frame.kind = "snapshot"
    BY <1>5, <1>11
  <2>5. ASSUME NEW n \in net'
        PROVE  /\ n.frame.kind = "ask" => n.frame.by = j
               /\ n.frame.kind = "snapshot" => Shows([l \in Lanes |-> LaneFromSnapshot(n.frame.rows[l])], w.c)
    BY <1>5, <1>6, <1>10, <1>12 DEF JoinFits
  <2> QED  BY <1>1, <1>6, <2>1, <2>2, <2>3, <2>4, <2>5, ZenonT(40) DEF JoinFits, Shows
<1>19. \A f \in sent : f.kind \notin Countdowns
  BY <1>2, <1>5 DEF Countdowns
<1>20. \A l \in Lanes : /\ panel'[p].board.lane[l] = panel[p].board.lane[l]
                        /\ ~(m.frame.kind \in Countdowns /\ m.frame.lane = l)
  BY <1>2 DEF Countdowns
<1> QED  BY <1>1, <1>17, <1>18, <1>19, <1>20, HeardRoomFits

-----------------------------------------------------------------------------
(* Presses and crossings, in a room at rest.                               *)

\* Lanes that show what others do fit the modes that those do.
LEMMA FittingAlike ==
    ASSUME TypeOK, NEW lanes \in RowSet, NEW others \in RowSet, Shows(lanes, others), NEW mode,
           Fitting(mode, others)
    PROVE  Fitting(mode, lanes)
<1>1. now \in Nat
  BY DEF TypeOK
<1>2. ASSUME NEW l \in Lanes
      PROVE  lanes[l].phase = others[l].phase /\ Proper(lanes[l])
  <2>1. lanes[l] \in LaneStates /\ others[l] \in LaneStates /\ Alike(lanes[l], others[l], now)
    BY DEF RowSet, Shows
  <2>2. Proper(others[l])
    BY DEF Fitting
  <2>3. Proper(lanes[l])
    BY <1>1, <2>1, <2>2, ProperAlike
  <2>4. lanes[l].phase = others[l].phase
    BY <1>1, <2>1, AlikeMeans
  <2> QED  BY <2>3, <2>4
<1> QED  BY <1>2, LanesAre DEF Fitting

\* In a room at rest every panel that listens shows lanes that its mode allows.
LEMMA RestingPageFits ==
    ASSUME TypeOK, NEW w \in Rooms, Room(w), net = {}, NEW p \in Panels, panel[p].link
    PROVE  Fitting(panel[p].mode, panel[p].board.lane)
<1>1. Shows(panel[p].board.lane, w.c) /\ panel[p].mode = w.mode /\ Fitting(w.mode, w.c)
  BY RoomRests
<1>2. panel[p].board.lane \in RowSet /\ w.c \in RowSet
  BY PageParts, BoardParts DEF TypeOK, RowSet, Rooms
<1> QED  BY <1>1, <1>2, FittingAlike

Truths == [on : SUBSET Lanes, ran : [Lanes -> Nat], turn : Lanes \union {0}]

\* The event of page p keeps the account of the time that turns took.
Counts(p, b) == Spends(panel[p].board.lane, Ground(p)) => Spends(b.lane, truth')

LEMMA OneLaneCounts ==
    ASSUME TypeOK, NEW was \in RowSet, NEW is, NEW l \in Lanes, NEW lane \in LaneStates,
           is = [was EXCEPT ![l] = lane],
           NEW past \in Truths, Spends(was, past), NEW next,
           next.ran = past.ran, Remaining(lane, now) = Remaining(was[l], now),
           lane.armed = was[l].armed,
           \A k \in Lanes \ {l} : k \in next.on <=> k \in past.on,
           lane.phase = "running" <=> l \in next.on
    PROVE  Spends(is, next)
<1> SUFFICES ASSUME NEW k \in Lanes
             PROVE  /\ Remaining(is[k], now) = RemainingFrom(is[k].armed, 0, next.ran[k])
                    /\ is[k].phase = "running" <=> k \in next.on
  BY DEF Spends
<1>1. /\ Remaining(was[k], now) = RemainingFrom(was[k].armed, 0, past.ran[k])
      /\ was[k].phase = "running" <=> k \in past.on
  BY DEF Spends
<1>2. CASE k = l
  <2>1. is[k] = lane
    BY <1>2 DEF RowSet
  <2> QED  BY <1>1, <1>2, <2>1
<1>3. CASE k # l
  <2>1. is[k] = was[k]
    BY <1>3 DEF RowSet
  <2> QED  BY <1>1, <1>3, <2>1
<1> QED  BY <1>2, <1>3

\* A page with a copy on offer runs nothing.
LEMMA OfferedRests ==
    ASSUME TypeOK, PagesFit, NEW p \in Panels, panel[p].offer
    PROVE  /\ \A l \in Lanes : /\ panel[p].board.lane[l] =
                                    Idle(Preset[panel[p].mode], Preset[panel[p].mode], MaxBreaks)
                               /\ panel[p].board.lane[l].phase = "idle"
           /\ panel[p].board.pause = NoPause /\ panel[p].board.lastRan = 0
<1>1. panel[p].board = InitialBoard(Preset[panel[p].mode])
  BY DEF PagesFit
<1> QED  BY <1>1 DEF InitialBoard, Idle, Lane

LEMMA GroundIs ==
    ASSUME TypeOK, NEW p \in Panels
    PROVE  /\ Ground(p) \in Truths /\ truth \in Truths
           /\ ~panel[p].offer => Ground(p) = truth
<1>1. truth \in Truths
  BY DEF Truths, TypeOK
<1>2. NoTurns \in Truths
  BY DEF Truths, NoTurns
<1> QED  BY <1>1, <1>2 DEF Ground

LEMMA StartCounts ==
    ASSUME TypeOK, PagesFit, NEW p \in Panels, NEW l \in Lanes, StartLane(p, l)
    PROVE  Counts(p, Start(panel[p].board, l, now))
<1> DEFINE old == panel[p].board
           was == old.lane
           b == Start(old, l, now)
           lane == Lane("running", was[l].budget, was[l].armed, now, 0, was[l].left)
           past == Ground(p)
<1> SUFFICES ASSUME Spends(was, past)  PROVE Spends(b.lane, truth')
  BY DEF Counts
<1>1. old \in Boards /\ now \in Nat /\ was \in RowSet /\ was[l] \in LaneStates /\ past \in Truths
  BY PageParts, BoardParts, GroundIs DEF TypeOK, RowSet
<1>2. was[l].budget \in Nat /\ was[l].armed \in Nat /\ was[l].left \in Nat
  BY <1>1, LaneParts
<1>3. lane \in LaneStates
  BY <1>1, <1>2, LaneIsALaneState DEF Phases
<1>4. b.lane = [was EXCEPT ![l] = lane]
  BY <1>1, <1>2, BeginTurnGives DEF Start
<1>5. was[l].phase # "running"
  BY DEF StartLane, CanStart
<1>6. /\ lane.phase = "running" /\ lane.armed = was[l].armed
      /\ Remaining(lane, now) = Remaining(was[l], now)
  BY <1>1, <1>2, <1>5 DEF Lane, Remaining, RemainingFrom
<1>7. truth' = [past EXCEPT !.on = @ \union {l}, !.turn = l]
  BY DEF StartLane
<1>8. truth'.ran = past.ran /\ truth'.on = past.on \union {l}
  BY <1>1, <1>7 DEF Truths
<1> HIDE DEF b, lane, past
<1> QED  BY <1>1, <1>3, <1>4, <1>6, <1>8, OneLaneCounts

\* A lane that goes off turn keeps what it has left.
LEMMA OffTurnCounts ==
    ASSUME TypeOK, PagesFit, NEW p \in Panels, NEW l \in Lanes, NEW b, NEW lane \in LaneStates,
           panel[p].board.lane[l].phase \in {"running", "onBreak"},
           b.lane = [panel[p].board.lane EXCEPT ![l] = lane],
           lane.phase # "running", lane.armed = panel[p].board.lane[l].armed,
           lane.budget = Remaining(panel[p].board.lane[l], now),
           truth' = OffTurn(l) \/ (truth' = truth /\ panel[p].board.lane[l].phase = "onBreak")
    PROVE  Counts(p, b)
<1> DEFINE was == panel[p].board.lane
<1> SUFFICES ASSUME Spends(was, Ground(p))  PROVE Spends(b.lane, truth')
  BY DEF Counts
<1>1. was \in RowSet
  BY PageParts, BoardParts DEF TypeOK, RowSet
<1>2. Ground(p) = truth /\ truth \in Truths
  BY OfferedRests, GroundIs
<1>3. /\ truth'.ran = truth.ran
      /\ \A k \in Lanes \ {l} : k \in truth'.on <=> k \in truth.on
      /\ l \notin truth'.on
  <2>1. CASE truth' = OffTurn(l)
    BY <1>2, <2>1 DEF OffTurn, Truths
  <2>2. CASE truth' = truth /\ was[l].phase = "onBreak"
    BY <1>2, <2>2 DEF Spends
  <2> QED  BY <2>1, <2>2
<1>4. Remaining(lane, now) = Remaining(was[l], now)
  BY DEF Remaining
<1> HIDE DEF was
<1>5. Remaining(lane, now) = Remaining(was[l], now) /\ lane.armed = was[l].armed
      /\ b.lane = [was EXCEPT ![l] = lane]
  BY <1>4 DEF was
<1> QED  BY <1>1, <1>2, <1>3, <1>5, OneLaneCounts

LEMMA StopCounts ==
    ASSUME TypeOK, PagesFit, NEW p \in Panels, NEW l \in Lanes, StopLane(p, l),
           ~AtZero(panel[p].board.lane[l], now)
    PROVE  Counts(p, Stop(panel[p].board, l, now))
<1> DEFINE old == panel[p].board
           was == old.lane[l]
           b == Stop(old, l, now)
           lane == StoppedLane(Remaining(was, now), was)
<1>1. old \in Boards /\ now \in Nat /\ was \in LaneStates
  BY PageParts, BoardParts DEF TypeOK
<1>2. Remaining(was, now) \in Nat
  BY <1>1, RemainingIsNat
<1>3. b.lane = [old.lane EXCEPT ![l] = lane]
  BY <1>1, <1>2, EndTurnGives DEF Stop
<1>4. lane \in LaneStates
  BY <1>1, <1>2, StoppedLaneIsALaneState
<1>5. lane.phase # "running" /\ lane.armed = was.armed /\ lane.budget = Remaining(was, now)
  BY DEF StoppedLane, Idle, Finished, Lane
<1>6. was.phase = "running" /\ truth' = OffTurn(l)
  BY DEF StopLane, Underway, Runs
<1> HIDE DEF b, lane
<1>7. Counts(p, b)
  BY <1>3, <1>4, <1>5, <1>6, OffTurnCounts
<1> QED  BY <1>7 DEF b

LEMMA BreakCounts ==
    ASSUME TypeOK, PagesFit, NEW p \in Panels, NEW l \in Lanes, TakeABreak(p, l)
    PROVE  Counts(p, TakeBreak(panel[p].board, l, now))
<1> DEFINE old == panel[p].board
           was == old.lane[l]
           b == TakeBreak(old, l, now)
           lane == Lane("onBreak", Remaining(was, now), was.armed, now, BreakMs, was.left - 1)
<1>1. old \in Boards /\ now \in Nat /\ was \in LaneStates
  BY PageParts, BoardParts DEF TypeOK
<1>2. Remaining(was, now) \in Nat /\ was.armed \in Nat /\ was.left \in Nat
  BY <1>1, RemainingIsNat, LaneParts
<1>3. was.phase = "running" /\ was.left > 0 /\ truth' = OffTurn(l)
  BY DEF TakeABreak, CanTakeBreak, Runs
<1>4. b.lane = [old.lane EXCEPT ![l] = lane]
  BY <1>1, <1>3, TakeBreakGives
<1>5. lane \in LaneStates
  <2>1. was.left - 1 \in Nat
    BY <1>2, <1>3
  <2> QED  BY <1>1, <1>2, <2>1, BreakMsAssumption, LaneIsALaneState DEF Phases
<1>6. lane.phase # "running" /\ lane.armed = was.armed /\ lane.budget = Remaining(was, now)
  BY DEF Lane
<1> HIDE DEF b, lane
<1>7. Counts(p, b)
  BY <1>3, <1>4, <1>5, <1>6, OffTurnCounts
<1> QED  BY <1>7 DEF b

\* Lanes that are re-armed have all their time.
LEMMA ReArmCounts ==
    ASSUME TypeOK, NEW p \in Panels, NEW b \in Boards, NEW lanes \in SUBSET Lanes,
           NEW budget \in [Lanes -> Nat \ {0}],
           b.lane = [l \in Lanes |-> IF l \in lanes THEN Idle(budget[l], budget[l], MaxBreaks)
                                     ELSE panel[p].board.lane[l]],
           truth' = ReArm(Ground(p), lanes)
    PROVE  Counts(p, b)
<1> DEFINE was == panel[p].board.lane
           past == Ground(p)
<1> SUFFICES ASSUME Spends(was, past)  PROVE Spends(b.lane, truth')
  BY DEF Counts
<1>1. past \in Truths
  BY GroundIs
<1>2. /\ truth'.on = past.on \ lanes
      /\ truth'.ran = [l \in Lanes |-> IF l \in lanes THEN 0 ELSE past.ran[l]]
  BY DEF ReArm
<1> SUFFICES ASSUME NEW l \in Lanes
             PROVE  /\ Remaining(b.lane[l], now) = RemainingFrom(b.lane[l].armed, 0, truth'.ran[l])
                    /\ b.lane[l].phase = "running" <=> l \in truth'.on
  BY DEF Spends
<1>3. CASE l \in lanes
  <2>1. b.lane[l] = Idle(budget[l], budget[l], MaxBreaks) /\ budget[l] \in Nat \ {0}
    BY <1>3
  <2>2. /\ b.lane[l].phase = "idle" /\ b.lane[l].budget = budget[l] /\ b.lane[l].armed = budget[l]
    BY <2>1 DEF Idle, Lane
  <2> QED  BY <1>2, <1>3, <2>1, <2>2 DEF Remaining, RemainingFrom
<1>4. CASE l \notin lanes
  <2>1. b.lane[l] = was[l]
    BY <1>4
  <2> QED  BY <1>2, <1>4, <2>1 DEF Spends
<1> QED  BY <1>3, <1>4

LEMMA ClearCounts ==
    ASSUME TypeOK, NEW p \in Panels, ResetRecorded(p),
           Fitting(panel[p].mode, panel[p].board.lane)
    PROVE  Counts(p, Cleared(panel[p].board, Recorded(panel[p].mode)))
<1> DEFINE lanes == Recorded(panel[p].mode)
           b == Cleared(panel[p].board, lanes)
           budget == [l \in Lanes |-> panel[p].board.lane[l].armed]
<1>1. /\ panel[p].board \in Boards
      /\ \A l \in Lanes : panel[p].board.lane[l] \in LaneStates
  BY PageParts, BoardParts DEF TypeOK
<1>2. budget \in [Lanes -> Nat \ {0}]
  BY <1>1, LaneParts DEF Fitting, Proper
<1>3. lanes \in SUBSET Lanes
  BY DEF Recorded, Lanes
<1>4. b \in Boards
  BY <1>1, ClearedGives
<1>5. b.lane = [l \in Lanes |-> IF l \in lanes THEN Idle(budget[l], budget[l], MaxBreaks)
                                ELSE panel[p].board.lane[l]]
  BY <1>1, ClearedGives
<1>6. truth' = ReArm(Ground(p), lanes)
  BY DEF ResetRecorded
<1> HIDE DEF b, budget, lanes
<1>7. Counts(p, b)
  BY <1>2, <1>3, <1>4, <1>5, <1>6, ReArmCounts
<1> QED  BY <1>7 DEF b, lanes

LEMMA ResetCounts ==
    ASSUME TypeOK, NEW p \in Panels, NEW l \in Lanes, Reset(p, l),
           Fitting(panel[p].mode, panel[p].board.lane)
    PROVE  Counts(p, ResetLane(panel[p].board, l, panel[p].board.lane[l].armed))
<1> DEFINE armed == panel[p].board.lane[l].armed
           b == ResetLane(panel[p].board, l, armed)
           budget == [k \in Lanes |-> armed]
<1>1. /\ panel[p].board \in Boards
      /\ panel[p].board.lane \in [Lanes -> LaneStates]
  BY PageParts, BoardParts DEF TypeOK
<1>2. armed \in Nat \ {0}
  BY <1>1, LaneParts DEF Fitting, Proper
<1>3. budget \in [Lanes -> Nat \ {0}] /\ {l} \in SUBSET Lanes
  BY <1>2
<1>4. b \in Boards /\ b.lane = [panel[p].board.lane EXCEPT ![l] = Idle(armed, armed, MaxBreaks)]
  BY <1>1, <1>2, ResetLaneGives
<1>5. b.lane = [k \in Lanes |-> IF k \in {l} THEN Idle(budget[k], budget[k], MaxBreaks)
                                ELSE panel[p].board.lane[k]]
  BY <1>1, <1>4
<1>6. truth' = ReArm(Ground(p), {l})
  BY DEF Reset
<1> HIDE DEF b, budget
<1>7. Counts(p, b)
  BY <1>3, <1>4, <1>5, <1>6, ReArmCounts
<1> QED  BY <1>7 DEF b

LEMMA FormatCounts ==
    ASSUME TypeOK, NEW p \in Panels, NEW mode \in Modes, NEW budget \in Nat \ {0}, Format(p, mode, budget)
    PROVE  Counts(p, SetBudgets(panel[p].board, budget))
<1> DEFINE lanes == ReArmed(panel[p].board)
           b == SetBudgets(panel[p].board, budget)
           budgets == [l \in Lanes |-> budget]
<1>1. panel[p].board \in Boards
  BY PageParts DEF TypeOK
<1>2. budgets \in [Lanes -> Nat \ {0}] /\ lanes \in SUBSET Lanes
  BY DEF ReArmed
<1>3. b \in Boards
  BY <1>1, SetBudgetsGives
<1>4. b.lane = [l \in Lanes |-> IF l \in lanes THEN Idle(budgets[l], budgets[l], MaxBreaks)
                                ELSE panel[p].board.lane[l]]
  BY <1>1, SetBudgetsGives
<1>5. truth' = ReArm(Ground(p), lanes)
  BY DEF Format
<1> HIDE DEF b, budgets, lanes
<1>6. Counts(p, b)
  BY <1>2, <1>3, <1>4, <1>5, ReArmCounts
<1> QED  BY <1>6 DEF b

LEMMA CrossingCounts ==
    ASSUME TypeOK, PagesFit, NEW p \in Panels, NEW l \in Lanes, NEW b \in Boards, NEW f \in CountFrames,
           Crossing(p, l, b, f)
    PROVE  Counts(p, b)
<1> DEFINE was == panel[p].board.lane[l]
           lane == Spent(was)
<1>1. was \in LaneStates /\ now \in Nat
  BY PageParts, BoardParts DEF TypeOK
<1>2. /\ was.phase \in {"running", "onBreak"} /\ AtZero(was, now)
      /\ b.lane = [panel[p].board.lane EXCEPT ![l] = lane]
      /\ truth' = OffTurn(l) \/ (truth' = truth /\ was.phase = "onBreak")
  BY DEF Crossing
<1>3. lane \in LaneStates
  BY <1>1, SpentIsALaneState
<1>4. lane.phase # "running" /\ lane.armed = was.armed /\ lane.budget = Remaining(was, now)
  <2>1. CASE was.phase = "running"
    <3>1. Remaining(was, now) = 0
      BY <1>1, <1>2, <2>1, ZeroMeans
    <3> QED  BY <2>1, <3>1 DEF Spent, Finished, Lane
  <2>2. CASE was.phase = "onBreak"
    BY <2>2 DEF Spent, Idle, Lane, Remaining
  <2> QED  BY <1>2, <2>1, <2>2
<1> HIDE DEF lane
<1> QED  BY <1>2, <1>3, <1>4, OffTurnCounts

\* Whose turn it is once page p acted: nobody's after a re-arm, the one's that alone runs
\* after a start; a stop, a timeout and a break leave it with the lane that ran, whose turn
\* has counted, and the end of a break moves no clock.
Steers(p, mode, b, frames) ==
    LET was == panel[p].board
    IN  \/ truth'.turn = 0 /\ ~LaneLive(b)
        \/ \E l \in Lanes :
             /\ truth'.turn = l /\ l \in truth'.on /\ Runs(b, l)
             /\ \A k \in Lanes : Runs(b, k) => k = l /\ b.lane[k].at = now
        \/ /\ mode = panel[p].mode /\ ~LaneLive(b) /\ b.lastRan = was.lastRan
           /\ \E l \in Lanes :
                /\ truth' = OffTurn(l) /\ Runs(was, l)
                /\ now > was.lane[l].at \/ AtZero(was.lane[l], now)
                /\ mode = "quali" \/ \A f \in frames : f.kind = "stop" /\ f.lane = l
        \/ /\ mode = panel[p].mode /\ mode = "quali" /\ truth' = truth
           /\ \A k \in Lanes : Runs(b, k) => Runs(was, k) /\ b.lane[k] = was.lane[k]

\* A re-arm leaves no clock running.
LEMMA ResetRests ==
    ASSUME TypeOK, NEW p \in Panels, NEW l \in Lanes, Reset(p, l)
    PROVE  ~LaneLive(ResetLane(panel[p].board, l, panel[p].board.lane[l].armed))
<1> DEFINE was == panel[p].board
           b == ResetLane(was, l, was.lane[l].armed)
<1>1. was \in Boards /\ was.lane \in [Lanes -> LaneStates]
  BY PageParts, BoardParts DEF TypeOK
<1>2. was.lane[l].armed \in Nat
  BY <1>1, LaneParts
<1>3. b.lane = [was.lane EXCEPT ![l] = Idle(was.lane[l].armed, was.lane[l].armed, MaxBreaks)]
  BY <1>1, <1>2, ResetLaneGives
<1>4. ~Runs(was, Other(l))
  BY DEF Reset
<1> HIDE DEF b, was
<1>5. ~LaneLive(b)
  BY <1>1, <1>3, <1>4, LanesAre DEF Runs, LaneLive, Idle, Lane
<1> QED  BY <1>5 DEF b, was

LEMMA ClearRests ==
    ASSUME TypeOK, NEW p \in Panels, ResetRecorded(p)
    PROVE  ~LaneLive(Cleared(panel[p].board, Recorded(panel[p].mode)))
<1> DEFINE was == panel[p].board
           lanes == Recorded(panel[p].mode)
           b == Cleared(was, lanes)
<1>1. was \in Boards
  BY PageParts DEF TypeOK
<1>2. b.lane = [l \in Lanes |-> IF l \in lanes THEN Idle(was.lane[l].armed, was.lane[l].armed, MaxBreaks)
                                ELSE was.lane[l]]
  <2> HIDE DEF was, lanes
  <2> QED  BY <1>1, ClearedGives
<1>3. \A l \in lanes : ~Runs(was, Other(l))
  BY DEF ResetRecorded
<1>4. lanes = {1} \/ lanes = Lanes
  BY DEF Recorded
<1> HIDE DEF b, was, lanes
<1>5. \A l \in Lanes : b.lane[l].phase = "running" => l \notin lanes /\ Runs(was, l)
  BY <1>2 DEF Idle, Lane, Runs
<1>6. ~LaneLive(b)
  BY <1>3, <1>4, <1>5, LanesAre DEF Runs, LaneLive, Other
<1> QED  BY <1>6 DEF b, was, lanes

LEMMA FormatRests ==
    ASSUME TypeOK, NEW p \in Panels, NEW mode \in Modes, NEW budget \in Nat, Format(p, mode, budget)
    PROVE  ~LaneLive(SetBudgets(panel[p].board, budget)) /\ ReArmed(panel[p].board) # {}
<1> DEFINE was == panel[p].board
           b == SetBudgets(was, budget)
<1>1. was \in Boards
  BY PageParts DEF TypeOK
<1>2. \A l \in Lanes : Pristine(was.lane[l])
  BY DEF Format, Holds
<1>3. ReArmed(was) = Lanes /\ Lanes # {}
  BY <1>2, LanesAre DEF ReArmed
<1>4. b.lane = [l \in Lanes |-> IF l \in ReArmed(was) THEN Idle(budget, budget, MaxBreaks) ELSE was.lane[l]]
  BY <1>1, SetBudgetsGives
<1> HIDE DEF b, was
<1>5. ~LaneLive(b)
  BY <1>3, <1>4 DEF Runs, LaneLive, Idle, Lane
<1> QED  BY <1>3, <1>5 DEF b, was

LEMMA ReArmSteers ==
    ASSUME NEW p \in Panels, NEW mode, NEW b, NEW frames, ~LaneLive(b),
           NEW lanes, truth' = ReArm(Ground(p), lanes)
    PROVE  Steers(p, mode, b, frames)
<1>1. truth'.turn = 0
  BY DEF ReArm
<1> QED  BY <1>1 DEF Steers

LEMMA StartSteers ==
    ASSUME TypeOK, NEW p \in Panels, NEW l \in Lanes, StartLane(p, l), NEW mode, NEW frames
    PROVE  Steers(p, mode, Start(panel[p].board, l, now), frames)
<1> DEFINE was == panel[p].board
           b == Start(was, l, now)
<1>1. was \in Boards /\ was.lane \in [Lanes -> LaneStates] /\ now \in Nat
  BY PageParts, BoardParts DEF TypeOK
<1>2. was.lane[l].budget \in Nat
  BY <1>1, LaneParts
<1>3. b.lane = [was.lane EXCEPT ![l] = Lane("running", was.lane[l].budget, was.lane[l].armed, now, 0,
                                            was.lane[l].left)]
  <2>1. b = BeginTurn(was, l, was.lane[l].budget, now)
    BY DEF Start
  <2> HIDE DEF was, b
  <2> QED  BY <1>1, <1>2, <2>1, BeginTurnGives
<1>4. ~Runs(was, Other(l))
  BY DEF StartLane, CanStart
<1>5. truth'.turn = l /\ l \in truth'.on
  <2>1. truth' = [Ground(p) EXCEPT !.on = @ \union {l}, !.turn = l] /\ Ground(p) \in Truths
    BY GroundIs DEF StartLane
  <2> QED  BY <2>1 DEF Truths
<1> HIDE DEF b, was
<1>6. Runs(b, l) /\ \A k \in Lanes : Runs(b, k) => k = l /\ b.lane[k].at = now
  BY <1>1, <1>3, <1>4, LanesAre DEF Runs, Lane
<1> QED  BY <1>5, <1>6 DEF Steers, b, was

\* A lane is put to rest on a board of which the other does not run.
LEMMA RestedSteers ==
    ASSUME TypeOK, NEW p \in Panels, NEW l \in Lanes, NEW b, NEW lane, lane.phase # "running",
           b.lane = [panel[p].board.lane EXCEPT ![l] = lane], b.lastRan = panel[p].board.lastRan,
           ~Runs(panel[p].board, Other(l)), Runs(panel[p].board, l), truth' = OffTurn(l),
           now > panel[p].board.lane[l].at \/ AtZero(panel[p].board.lane[l], now),
           NEW frames, panel[p].mode = "quali" \/ \A f \in frames : f.kind = "stop" /\ f.lane = l
    PROVE  Steers(p, panel[p].mode, b, frames)
<1> DEFINE was == panel[p].board
<1>1. was.lane \in [Lanes -> LaneStates]
  BY PageParts, BoardParts DEF TypeOK
<1>2. b.lane = [was.lane EXCEPT ![l] = lane] /\ ~Runs(was, Other(l))
  OBVIOUS
<1> HIDE DEF was
<1>3. ~LaneLive(b)
  BY <1>1, <1>2, LanesAre DEF Runs, LaneLive
<1> QED  BY <1>3 DEF Steers

LEMMA StopSteers ==
    ASSUME TypeOK, NEW p \in Panels, NEW l \in Lanes, StopLane(p, l)
    PROVE  LET b == Stop(panel[p].board, l, now)
           IN  Steers(p, panel[p].mode, b, {StopFrame(l, b)})
<1> DEFINE was == panel[p].board
           b == Stop(was, l, now)
           lane == StoppedLane(Remaining(was.lane[l], now), was.lane[l])
           frames == {StopFrame(l, b)}
<1>1. was \in Boards /\ was.lane \in [Lanes -> LaneStates] /\ now \in Nat
  BY PageParts, BoardParts DEF TypeOK
<1>2. Remaining(was.lane[l], now) \in Nat
  BY <1>1, RemainingIsNat
<1>3. b.lane = [was.lane EXCEPT ![l] = lane] /\ b.lastRan = was.lastRan
  BY <1>1, <1>2, EndTurnGives DEF Stop
<1>4. Runs(was, l) /\ now > was.lane[l].at /\ ~Runs(was, Other(l)) /\ truth' = OffTurn(l)
  BY DEF StopLane, Underway
<1>5. lane.phase # "running"
  BY DEF StoppedLane, Finished, Idle, Lane
<1>6. \A f \in frames : f.kind = "stop" /\ f.lane = l
  BY DEF StopFrame
<1> HIDE DEF b, lane, frames
<1>7. Steers(p, panel[p].mode, b, frames)
  BY <1>3, <1>4, <1>5, <1>6, RestedSteers
<1> QED  BY <1>7 DEF b, frames

LEMMA BreakSteers ==
    ASSUME TypeOK, NEW p \in Panels, NEW l \in Lanes, TakeABreak(p, l), NEW frames
    PROVE  Steers(p, panel[p].mode, TakeBreak(panel[p].board, l, now), frames)
<1> DEFINE was == panel[p].board
           b == TakeBreak(was, l, now)
           lane == Lane("onBreak", Remaining(was.lane[l], now), was.lane[l].armed, now, BreakMs,
                        was.lane[l].left - 1)
<1>1. was \in Boards /\ was.lane \in [Lanes -> LaneStates] /\ now \in Nat
  BY PageParts, BoardParts DEF TypeOK
<1>2. /\ Runs(was, l) /\ now > was.lane[l].at /\ ~Runs(was, Other(l)) /\ truth' = OffTurn(l)
      /\ was.lane[l].left > 0 /\ panel[p].mode = "quali"
  BY DEF TakeABreak, CanTakeBreak, Underway
<1>3. lane.phase # "running"
  BY DEF Lane
<1>4. b.lane = [was.lane EXCEPT ![l] = lane] /\ b.lastRan = was.lastRan
  <2> HIDE DEF was
  <2> QED  BY <1>1, <1>2, TakeBreakGives, ZenonT(40)
<1> HIDE DEF b, lane
<1>5. Steers(p, panel[p].mode, b, frames)
  BY <1>2, <1>3, <1>4, RestedSteers
<1> QED  BY <1>5 DEF b

LEMMA CrossingSteers ==
    ASSUME TypeOK, NEW p \in Panels, NEW l \in Lanes, NEW b \in Boards, NEW f \in CountFrames,
           Crossing(p, l, b, f), Fitting(panel[p].mode, panel[p].board.lane)
    PROVE  Steers(p, panel[p].mode, b, {f})
<1> DEFINE was == panel[p].board
           lane == Spent(was.lane[l])
<1>1. was.lane \in [Lanes -> LaneStates] /\ panel[p].mode \in Modes
  BY PageParts, BoardParts DEF TypeOK
<1>2. /\ was.lane[l].phase \in {"running", "onBreak"} /\ AtZero(was.lane[l], now)
      /\ b.lane = [was.lane EXCEPT ![l] = lane]
      /\ b.lastRan = was.lastRan
      /\ f.lane = l /\ f.kind \in {"stop", "breakEnd"}
      /\ Lands(f, was.lane[l]) = lane
      /\ was.lane[l].phase = "running" => truth' = OffTurn(l)
      /\ was.lane[l].phase = "onBreak" => truth' = truth
  BY DEF Crossing
<1>3. lane.phase # "running"
  BY SpentRests
<1>4. CASE was.lane[l].phase = "running"
  <2>1. f.kind = "stop"
    BY <1>2, <1>3, <1>4 DEF Lands
  <2>2. Runs(was, l) /\ ~Runs(was, Other(l))
    BY <1>4 DEF Fitting, Runs
  <2> HIDE DEF lane
  <2> QED  BY <1>2, <1>3, <1>4, <2>1, <2>2, RestedSteers
<1>5. CASE was.lane[l].phase = "onBreak"
  <2>1. panel[p].mode = "quali"
    BY <1>1, <1>5 DEF Fitting, Modes
  <2> HIDE DEF lane, was
  <2>2. \A k \in Lanes : Runs(b, k) => Runs(was, k) /\ b.lane[k] = was.lane[k]
    BY <1>1, <1>2, <1>3 DEF Runs
  <2> QED  BY <1>2, <1>5, <2>1, <2>2 DEF Steers, was
<1> QED  BY <1>2, <1>4, <1>5

\* An event of page p in a room at rest, and what it counts.
Acts(p, mode, b, frames) ==
    net = {} /\ panel[p].link /\ Stirs(p, mode, b, frames) /\ Counts(p, b) /\ Steers(p, mode, b, frames)

LEMMA PressStirs ==
    ASSUME TypeOK, PagesFit, Patient, 0 \notin Drafts, NEW w \in Rooms, Room(w), NEW p \in Panels, Presses(p)
    PROVE  \E mode \in Modes : \E b \in Boards : \E frames \in SUBSET CountFrames : Acts(p, mode, b, frames)
<1> DEFINE Fits(mode, b, frames) == Acts(p, mode, b, frames)
           mode0 == panel[p].mode
           old == panel[p].board
<1>1. /\ panel[p].link /\ net = {}
      /\ \A k \in Lanes : ~AtZero(panel[p].board.lane[k], now)
  BY PressesArePaced
<1>2. Fitting(panel[p].mode, panel[p].board.lane)
  BY <1>1, RestingPageFits
<1>3. mode0 \in Modes /\ old \in Boards
  BY PageParts DEF TypeOK
<1>4. ASSUME NEW mode, NEW b, NEW frames, Event(p, mode, b, frames), Moves(p, mode, b, frames), Counts(p, b),
             Steers(p, mode, b, frames)
      PROVE  \E m \in Modes : \E c \in Boards : \E fs \in SUBSET CountFrames : Fits(m, c, fs)
  <2>1. mode \in Modes /\ b \in Boards /\ frames \in SUBSET CountFrames
    BY <1>4 DEF Event
  <2>2. Fits(mode, b, frames)
    BY <1>1, <1>4 DEF Acts, Stirs
  <2> HIDE DEF Fits
  <2> QED  BY <2>1, <2>2
<1> HIDE DEF Fits
<1>5. ASSUME NEW l \in Lanes, StartLane(p, l)
      PROVE  \E m \in Modes : \E c \in Boards : \E fs \in SUBSET CountFrames : Fits(m, c, fs)
  <2> DEFINE b == Start(old, l, now)
  <2>1. Event(p, mode0, b, {StartFrame(l, b)})
    BY <1>5, StartIsAnEvent
  <2>2. Moves(p, mode0, b, {StartFrame(l, b)})
    BY <1>1, <1>2, <1>5, StartMoves
  <2>3. Counts(p, b) /\ Steers(p, mode0, b, {StartFrame(l, b)})
    BY <1>5, StartCounts, StartSteers
  <2> HIDE DEF b
  <2> QED  BY <1>4, <2>1, <2>2, <2>3
<1>6. ASSUME NEW l \in Lanes, StopLane(p, l)
      PROVE  \E m \in Modes : \E c \in Boards : \E fs \in SUBSET CountFrames : Fits(m, c, fs)
  <2> DEFINE b == Stop(old, l, now)
  <2>1. Event(p, mode0, b, {StopFrame(l, b)})
    BY <1>6, StopIsAnEvent
  <2>2. Moves(p, mode0, b, {StopFrame(l, b)})
    BY <1>1, <1>2, <1>6, StopMoves
  <2>3. Counts(p, b) /\ Steers(p, mode0, b, {StopFrame(l, b)})
    BY <1>1, <1>6, StopCounts, StopSteers
  <2> HIDE DEF b
  <2> QED  BY <1>4, <2>1, <2>2, <2>3
<1>7. ASSUME NEW l \in Lanes, TakeABreak(p, l)
      PROVE  \E m \in Modes : \E c \in Boards : \E fs \in SUBSET CountFrames : Fits(m, c, fs)
  <2> DEFINE b == TakeBreak(old, l, now)
  <2>1. Event(p, mode0, b, {BreakFrame(l, b)})
    BY <1>7, BreakIsAnEvent
  <2>2. Moves(p, mode0, b, {BreakFrame(l, b)})
    BY <1>1, <1>2, <1>7, BreakMoves
  <2>3. Counts(p, b) /\ Steers(p, mode0, b, {BreakFrame(l, b)})
    BY <1>7, BreakCounts, BreakSteers
  <2> HIDE DEF b
  <2> QED  BY <1>4, <2>1, <2>2, <2>3
<1>8. ASSUME NEW l \in Lanes, Reset(p, l)
      PROVE  \E m \in Modes : \E c \in Boards : \E fs \in SUBSET CountFrames : Fits(m, c, fs)
  <2> DEFINE b == ResetLane(old, l, old.lane[l].armed)
  <2>1. Event(p, mode0, b, {ResetFrame(l, b)})
    BY <1>8, ResetIsAnEvent
  <2>2. Moves(p, mode0, b, {ResetFrame(l, b)})
    BY <1>1, <1>2, <1>8, ResetMoves
  <2>3. Counts(p, b)
    BY <1>2, <1>8, ResetCounts
  <2>4. ~LaneLive(b) /\ truth' = ReArm(Ground(p), {l})
    BY <1>8, ResetRests DEF Reset
  <2> HIDE DEF b
  <2>5. Steers(p, mode0, b, {ResetFrame(l, b)})
    BY <2>4, ReArmSteers
  <2> QED  BY <1>4, <2>1, <2>2, <2>3, <2>5
<1>9. ASSUME ResetRecorded(p)
      PROVE  \E m \in Modes : \E c \in Boards : \E fs \in SUBSET CountFrames : Fits(m, c, fs)
  <2> DEFINE lanes == Recorded(mode0)
             b == Cleared(old, lanes)
             frames == {ResetFrame(l, b) : l \in lanes}
  <2>1. Event(p, mode0, b, frames)
    BY <1>9, ClearIsAnEvent
  <2>2. Moves(p, mode0, b, frames)
    BY <1>1, <1>2, <1>9, ClearMoves
  <2>3. Counts(p, b)
    BY <1>2, <1>9, ClearCounts
  <2>4. ~LaneLive(b) /\ truth' = ReArm(Ground(p), lanes)
    <3>1. ~LaneLive(b)
      BY <1>9, ClearRests
    <3>2. truth' = ReArm(Ground(p), lanes)
      BY <1>9, Zenon DEF ResetRecorded
    <3> QED  BY <3>1, <3>2
  <2> HIDE DEF b, frames, lanes
  <2>5. Steers(p, mode0, b, frames)
    BY <2>4, ReArmSteers
  <2> QED  BY <1>4, <2>1, <2>2, <2>3, <2>5
<1>10. ASSUME ApplyRunBudget(p) \/ ApplyMode(p)
       PROVE  \E m \in Modes : \E c \in Boards : \E fs \in SUBSET CountFrames : Fits(m, c, fs)
  <2>1. PICK mode \in Modes : \E budget \in Nat \ {0} : Format(p, mode, budget)
    BY <1>10, FormatsAre
  <2>2. PICK budget \in Nat \ {0} : Format(p, mode, budget)
    BY <2>1
  <2> DEFINE b == SetBudgets(old, budget)
             frames == {ResetFrame(l, b) : l \in ReArmed(old)}
  <2>3. Event(p, mode, b, frames)
    BY <2>2, FormatIsAnEvent
  <2>4. Moves(p, mode, b, frames)
    BY <1>1, <1>2, <2>2, FormatMoves
  <2>5. Counts(p, b)
    BY <2>2, FormatCounts
  <2>6. ~LaneLive(b) /\ truth' = ReArm(Ground(p), ReArmed(old))
    <3>1. ~LaneLive(b)
      BY <2>2, FormatRests
    <3>2. truth' = ReArm(Ground(p), ReArmed(old))
      BY <2>2, Zenon DEF Format
    <3> QED  BY <3>1, <3>2
  <2> HIDE DEF b, frames
  <2>7. Steers(p, mode, b, frames)
    BY <2>6, ReArmSteers
  <2> QED  BY <1>4, <2>3, <2>4, <2>5, <2>7
<1> QED  BY <1>5, <1>6, <1>7, <1>8, <1>9, <1>10 DEF Presses, Fits

LEMMA CrossingStirs ==
    ASSUME TypeOK, PagesFit, NEW w \in Rooms, Room(w), net = {}, NEW p \in Panels, NEW l \in Lanes,
           NEW b \in Boards, NEW f \in CountFrames, Crossing(p, l, b, f)
    PROVE  Acts(p, panel[p].mode, b, {f})
<1>1. panel[p].link /\ Event(p, panel[p].mode, b, {f})
  BY DEF Crossing
<1>2. Fitting(panel[p].mode, panel[p].board.lane)
  BY <1>1, RestingPageFits
<1>3. Moves(p, panel[p].mode, b, {f})
  BY <1>2, CrossingMoves
<1>4. Counts(p, b) /\ Steers(p, panel[p].mode, b, {f})
  BY <1>2, CrossingCounts, CrossingSteers
<1> QED  BY <1>1, <1>3, <1>4 DEF Acts, Stirs

-----------------------------------------------------------------------------
(* Pages alone.                                                            *)

\* Lanes that show the same spent the same.
LEMMA SpendsAlike ==
    ASSUME TypeOK, NEW lanes \in RowSet, NEW others \in RowSet, Shows(lanes, others),
           NEW past \in Truths, Spends(others, past)
    PROVE  Spends(lanes, past)
<1> SUFFICES ASSUME NEW l \in Lanes
             PROVE  /\ Remaining(lanes[l], now) = RemainingFrom(lanes[l].armed, 0, past.ran[l])
                    /\ lanes[l].phase = "running" <=> l \in past.on
  BY DEF Spends
<1>1. /\ Remaining(others[l], now) = RemainingFrom(others[l].armed, 0, past.ran[l])
      /\ others[l].phase = "running" <=> l \in past.on
  BY DEF Spends
<1>2. now \in Nat /\ lanes[l] \in LaneStates /\ others[l] \in LaneStates /\ Alike(lanes[l], others[l], now)
  BY DEF TypeOK, RowSet, Shows
<1>3. /\ lanes[l].phase = others[l].phase /\ lanes[l].armed = others[l].armed
      /\ lanes[l].phase = "running" => Remaining(lanes[l], now) = Remaining(others[l], now)
      /\ lanes[l].phase = "onBreak" => lanes[l].budget = others[l].budget
      /\ lanes[l].phase \notin {"running", "onBreak"} => lanes[l] = others[l]
  BY <1>2, AlikeMeans
<1>4. Remaining(lanes[l], now) = Remaining(others[l], now)
  BY <1>3 DEF Remaining
<1> QED  BY <1>1, <1>3, <1>4

\* The copy of a page shows its lanes; a page that has none has spent nothing.
LEMMA CopyFits ==
    ASSUME TypeOK, NEW s, s.board.lane \in RowSet, Fitting(s.mode, s.board.lane), NEW past \in Truths
    PROVE  /\ \A copy \in Copy(s) :
                /\ Fitting(copy.view.mode, CopyLanes(copy))
                /\ Spends(s.board.lane, past) => Spends(CopyLanes(copy), past)
           /\ Copy(s) = {} /\ Spends(s.board.lane, past) =>
                past.on = {} /\ \A l \in Lanes : past.ran[l] = 0
<1> DEFINE lanes == s.board.lane
<1>1. now \in Nat /\ \A l \in Lanes : lanes[l] \in LaneStates /\ Proper(lanes[l])
  BY DEF TypeOK, RowSet, Fitting
<1>2. ASSUME NEW copy \in Copy(s)
      PROVE  /\ Fitting(copy.view.mode, CopyLanes(copy))
             /\ Spends(lanes, past) => Spends(CopyLanes(copy), past)
  <2>1. copy.rows = Rows(s) /\ copy.view = View(s) /\ copy.view.mode = s.mode
    BY DEF Copy, View
  <2>2. CopyLanes(copy) = [l \in Lanes |-> Row(lanes[l], now)]
    <3>1. \A l \in Lanes : LaneFromSnapshot(Row(lanes[l], now)) = Row(lanes[l], now)
      BY <1>1, ProperRow
    <3>2. \A l \in Lanes : copy.rows[l] = Row(lanes[l], now)
      BY <2>1 DEF Rows
    <3> QED  BY <3>1, <3>2 DEF CopyLanes
  <2>3. CopyLanes(copy) \in RowSet
    BY <1>1, <2>2, RowIsALaneState DEF RowSet
  <2>4. Shows(CopyLanes(copy), lanes)
    <3>1. \A l \in Lanes : Alike(Row(lanes[l], now), lanes[l], now)
      BY <1>1, ProperRow
    <3> QED  BY <2>2, <3>1 DEF Shows
  <2>5. Fitting(copy.view.mode, CopyLanes(copy))
    BY <2>1, <2>3, <2>4, FittingAlike
  <2>6. Spends(lanes, past) => Spends(CopyLanes(copy), past)
    BY <2>3, <2>4, SpendsAlike
  <2> QED  BY <2>5, <2>6
<1>3. ASSUME Copy(s) = {}, Spends(lanes, past)
      PROVE  past.on = {} /\ \A l \in Lanes : past.ran[l] = 0
  <2>1. ~HasRun(Rows(s))
    BY <1>3 DEF Copy
  <2>2. ASSUME NEW l \in Lanes
        PROVE  l \notin past.on /\ past.ran[l] = 0
    <3>1. Rows(s)[l] = Row(lanes[l], now)
      BY DEF Rows
    <3>2. Row(lanes[l], now).phase \notin {"running", "onBreak"}
          /\ ~(Row(lanes[l], now).budget < Row(lanes[l], now).armed)
      BY <2>1, <3>1 DEF HasRun
    <3>3. Row(lanes[l], now) = lanes[l]
      <4>1. lanes[l] \in LaneStates
        BY <1>1
      <4> QED  BY <3>2, <4>1 DEF Row, LaneStates
    <3>4. lanes[l].phase \notin {"running", "onBreak"} /\ ~(lanes[l].budget < lanes[l].armed)
      BY <3>2, <3>3
    <3>5. /\ Remaining(lanes[l], now) = RemainingFrom(lanes[l].armed, 0, past.ran[l])
          /\ lanes[l].phase = "running" <=> l \in past.on
      BY <1>3 DEF Spends
    <3>6. lanes[l].armed \in Nat /\ lanes[l].armed > 0 /\ lanes[l].budget \in Nat /\ past.ran[l] \in Nat
      BY <1>1, LaneParts DEF Proper, Truths
    <3> QED  BY <3>4, <3>5, <3>6 DEF Remaining, RemainingFrom
  <2> QED  BY <2>2 DEF Truths
<1> QED  BY <1>2, <1>3

\* A page with a copy on offer has spent nothing.
LEMMA OfferedCounts ==
    ASSUME TypeOK, PagesFit, NEW p \in Panels, panel[p].offer
    PROVE  /\ Fitting(panel[p].mode, panel[p].board.lane)
           /\ \A past \in Truths : past.on = {} /\ (\A l \in Lanes : past.ran[l] = 0) =>
                Spends(panel[p].board.lane, past)
<1> DEFINE n == Preset[panel[p].mode]
<1>1. n \in Nat \ {0}
  BY PageParts, PresetAssumption DEF TypeOK
<1>2. ASSUME NEW l \in Lanes
      PROVE  /\ panel[p].board.lane[l].phase = "idle" /\ Proper(panel[p].board.lane[l])
             /\ panel[p].board.lane[l].budget = n /\ panel[p].board.lane[l].armed = n
  <2>1. panel[p].board.lane[l] = Idle(n, n, MaxBreaks)
    BY OfferedRests
  <2> HIDE DEF n
  <2> QED  BY <1>1, <2>1, ReArmedIs
<1> HIDE DEF n
<1>3. Fitting(panel[p].mode, panel[p].board.lane)
  BY <1>2 DEF Fitting, Lanes
<1>4. ASSUME NEW past \in Truths, past.on = {}, \A l \in Lanes : past.ran[l] = 0
      PROVE  Spends(panel[p].board.lane, past)
  BY <1>1, <1>2, <1>4 DEF Spends, Remaining, RemainingFrom
<1> QED  BY <1>3, <1>4

LEMMA OfferedFit ==
    TypeOK /\ PagesFit =>
      \A p \in Panels : panel[p].offer => Fitting(panel[p].mode, panel[p].board.lane)
  BY OfferedCounts

LEMMA OfferedFitNext ==
    (TypeOK /\ PagesFit =>
       \A p \in Panels : panel[p].offer => Fitting(panel[p].mode, panel[p].board.lane))'
  BY OfferedFit, PTL

LEMMA GroundCounts ==
    ASSUME TypeOK, PagesFit, NEW p \in Panels,
           ~panel[p].offer => Spends(panel[p].board.lane, truth)
    PROVE  Spends(panel[p].board.lane, Ground(p))
<1>1. CASE panel[p].offer
  <2>1. Ground(p) = NoTurns /\ Ground(p) \in Truths
    BY <1>1, GroundIs DEF Ground
  <2> QED  BY <1>1, <2>1, OfferedCounts DEF NoTurns
<1>2. CASE ~panel[p].offer
  BY <1>2, GroundIs
<1> QED  BY <1>1, <1>2

\* While a frame is in flight no page is alone.
LEMMA BusySoloFits ==
    ASSUME TypeOK, PagesFit, net # {},
           \A x \in Panels : panel'[x].link = panel[x].link /\ panel'[x].away = panel[x].away
    PROVE  SoloFits' /\ SoloCounts'
<1>1. PICK m \in net : TRUE
  OBVIOUS
<1>2. m.to \in Panels /\ panel[m.to].link /\ \E y \in Panels : y # m.to /\ panel[y].link
  BY <1>1 DEF TypeOK, PagesFit
<1>3. \A x \in Panels : ~Solo(x)'
  BY <1>2 DEF Solo
<1> QED  BY <1>2, <1>3 DEF SoloFits, SoloCounts

LEMMA EventSoloFits ==
    ASSUME TypeOK, TypeOK', PagesFit, SoloFits, SoloCounts, NEW p \in Panels, NEW mode, NEW b, NEW frames,
           Acts(p, mode, b, frames)
    PROVE  SoloFits' /\ SoloCounts'
<1> DEFINE s == [panel[p] EXCEPT !.mode = mode, !.board = b]
<1>1. /\ panel[p].link /\ Event(p, mode, b, frames) /\ Moves(p, mode, b, frames) /\ Counts(p, b)
  BY DEF Acts, Stirs
<1>2. /\ panel'[p].link = panel[p].link /\ panel'[p].away = panel[p].away
      /\ panel'[p].mode = mode /\ panel'[p].board = b /\ now' = now
      /\ \A q \in Panels \ {p} : panel'[q] = panel[q]
  BY <1>1, EventPage
<1>3. stored'[p] = Copy(s) /\ s.mode = mode /\ s.board = b /\ b \in Boards
  <2>1. b \in Boards /\ mode \in Modes /\ panel[p] \in Pages
    BY <1>1 DEF Event, TypeOK
  <2>2. stored'[p] = Copy(s)
    <3> DEFINE claim == Minted(p, panel[p].stamp, TRUE, 0)
    <3>1. /\ s \in Pages
          /\ panel'[p].link = panel[p].link /\ panel'[p].away = panel[p].away
          /\ panel'[p].live /\ ~panel'[p].offer
          /\ panel'[p].mode = mode /\ panel'[p].board = b
          /\ \A q \in Panels \ {p} : panel'[q] = panel[q] /\ stored'[q] = stored[q]
          /\ stored'[p] = Copy(s)
          /\ now' = now
          /\ \/ /\ panel'[p].stamp = claim
                /\ net' = net \union Fanout(p, frames \union {SelectionFrame(claim, s)})
             \/ /\ panel'[p].stamp = panel[p].stamp /\ mode = panel[p].mode
                /\ View(s) = View(panel[p])
                /\ net' = net \union Fanout(p, frames)
      BY <1>1, EventGives
    <3> HIDE DEF s, claim
    <3> QED  BY <3>1
  <2> QED  BY <2>1, <2>2 DEF Pages
<1> HIDE DEF s
<1>4. Fitting(mode, b.lane) /\ b.lane \in RowSet /\ truth' \in Truths
  BY <1>1, <1>3, BoardParts DEF Moves, RowSet, TypeOK, Truths
<1>5. \A q \in Panels : Solo(q)' => q = p /\ Solo(p)
  BY <1>1, <1>2 DEF Solo
<1>6. Solo(p) => Spends(b.lane, truth')
  BY <1>1, GroundCounts DEF SoloCounts, Counts
<1>7. /\ \A copy \in Copy(s) :
           /\ Fitting(copy.view.mode, CopyLanes(copy))
           /\ Spends(s.board.lane, truth') => Spends(CopyLanes(copy), truth')
      /\ Copy(s) = {} /\ Spends(s.board.lane, truth') =>
           truth'.on = {} /\ \A l \in Lanes : truth'.ran[l] = 0
  BY <1>3, <1>4, CopyFits
<1>8. SoloFits'
  BY <1>2, <1>3, <1>4, <1>5, <1>7 DEF SoloFits, CopyLanes
<1>9. ASSUME NEW q \in Panels, Solo(q)'
      PROVE  /\ stored'[q] = {} => truth'.on = {} /\ \A l \in Lanes : truth'.ran[l] = 0
             /\ \A copy \in stored'[q] : Spends(CopyLanes(copy), truth)'
             /\ Spends(panel[q].board.lane, truth)'
  BY <1>2, <1>3, <1>5, <1>6, <1>7, <1>9, ZenonT(40) DEF Spends, CopyLanes
<1> QED  BY <1>1, <1>2, <1>8, <1>9 DEF SoloCounts

LEMMA OpenSoloFits ==
    ASSUME TypeOK, TypeOK', PagesFit, SoloFits, SoloCounts, NEW p \in Panels, Open(p)
    PROVE  SoloFits' /\ SoloCounts'
<1> DEFINE s == [panel[p] EXCEPT !.link = TRUE, !.away = FALSE]
           restored == ~s.offer /\ stored[p] # {}
           claim == Minted(p, s.stamp, FALSE, 0)
<1>1. /\ ~panel[p].link
      /\ s \in Pages
      /\ \A q \in Panels \ {p} : panel'[q] = panel[q] /\ stored'[q] = stored[q]
      /\ panel'[p] = IF restored THEN [s EXCEPT !.stamp = claim] ELSE s
      /\ stored'[p] = IF restored THEN Copy(s) ELSE stored[p]
      /\ UNCHANGED <<now, truth, count>>
  BY OpenGives
<1>2. /\ s.link /\ ~s.away /\ s.offer = panel[p].offer /\ s.mode = panel[p].mode /\ s.board = panel[p].board
  BY DEF TypeOK, Pages
<1>3. claim \in Stamp
  BY <1>1, PageParts, StampsAreStamps
<1> HIDE DEF s, claim
<1>4. /\ panel'[p].link /\ ~panel'[p].away /\ panel'[p].offer = panel[p].offer
      /\ panel'[p].mode = panel[p].mode /\ panel'[p].board = panel[p].board
  BY <1>1, <1>2, <1>3 DEF Pages
<1>5. panel[p].board.lane \in RowSet /\ truth \in Truths
  BY PageParts, BoardParts, GroundIs DEF TypeOK, RowSet
<1>6. \A q \in Panels : Solo(q)' => q = p
  BY <1>4 DEF Solo
<1>7. ASSUME Solo(p)'
      PROVE  /\ Fitting(panel[p].mode, panel[p].board.lane)
             /\ \A copy \in stored'[p] : /\ Fitting(copy.view.mode, CopyLanes(copy))
                                         /\ Spends(CopyLanes(copy), truth)
             /\ stored'[p] = {} => truth.on = {} /\ \A l \in Lanes : truth.ran[l] = 0
             /\ ~panel[p].offer => Spends(panel[p].board.lane, truth)
  <2>1. \A q \in Panels \ {p} : ~panel[q].link /\ ~panel[q].away
    BY <1>1, <1>7 DEF Solo
  <2>2. CASE panel[p].away
    <3>1. Solo(p)
      BY <2>1, <2>2 DEF Solo
    <3>2. /\ Fitting(panel[p].mode, panel[p].board.lane)
          /\ \A copy \in stored[p] : /\ Fitting(copy.view.mode, CopyLanes(copy))
                                     /\ Spends(CopyLanes(copy), truth)
          /\ stored[p] = {} => truth.on = {} /\ \A l \in Lanes : truth.ran[l] = 0
          /\ ~panel[p].offer => Spends(panel[p].board.lane, truth)
      BY <3>1 DEF SoloFits, SoloCounts
    <3>3. CASE restored
      <4>1. /\ \A copy \in Copy(s) :
                 /\ Fitting(copy.view.mode, CopyLanes(copy))
                 /\ Spends(s.board.lane, truth) => Spends(CopyLanes(copy), truth)
            /\ Copy(s) = {} /\ Spends(s.board.lane, truth) =>
                 truth.on = {} /\ \A l \in Lanes : truth.ran[l] = 0
        BY <1>2, <1>5, <3>2, CopyFits
      <4>2. stored'[p] = Copy(s) /\ ~panel[p].offer
        BY <1>1, <1>2, <3>3
      <4> QED  BY <1>2, <3>2, <4>1, <4>2
    <3>4. CASE ~restored
      BY <1>1, <3>2, <3>4
    <3> QED  BY <3>3, <3>4
  <2>3. CASE ~panel[p].away
    <3>1. panel[p].offer /\ stored[p] = {}
      BY <1>1, <2>3 DEF PagesFit
    <3>2. stored'[p] = {}
      BY <1>1, <1>2, <3>1
    <3>3. truth = NoTurns
      BY <1>1, <2>1, <2>3 DEF SoloCounts
    <3> QED  BY <3>1, <3>2, <3>3, OfferedCounts DEF NoTurns
  <2> QED  BY <2>2, <2>3
<1>8. SoloFits'
  BY <1>4, <1>6, <1>7 DEF SoloFits, CopyLanes
<1>9. ASSUME NEW q \in Panels, Solo(q)'
      PROVE  /\ stored'[q] = {} => truth'.on = {} /\ \A l \in Lanes : truth'.ran[l] = 0
             /\ \A copy \in stored'[q] : Spends(CopyLanes(copy), truth)'
             /\ ~panel'[q].offer => Spends(panel[q].board.lane, truth)'
  <2>1. q = p /\ now' = now /\ truth' = truth
    BY <1>1, <1>6, <1>9
  <2>2. \A copy \in stored'[p] : Spends(CopyLanes(copy), truth)'
    BY <1>7, <1>9, <2>1 DEF Spends, CopyLanes
  <2>3. ~panel'[p].offer => Spends(panel[p].board.lane, truth)'
    BY <1>4, <1>7, <1>9, <2>1 DEF Spends
  <2> QED  BY <1>7, <1>9, <2>1, <2>2, <2>3
<1> QED  BY <1>4, <1>8, <1>9 DEF SoloCounts

LEMMA ReloadSoloFits ==
    ASSUME TypeOK, TypeOK', PagesFit, PagesFit', SoloFits, SoloCounts, NEW p \in Panels, Reload(p)
    PROVE  SoloFits' /\ SoloCounts'
<1>1. /\ panel[p].link
      /\ \A q \in Panels \ {p} : panel'[q] = panel[q]
      /\ panel'[p] = [Page(panel[p].mode) EXCEPT !.away = TRUE]
      /\ UNCHANGED <<stored, net, now, truth>>
  BY ReloadGives
<1>2. ~panel'[p].link /\ panel'[p].away /\ panel'[p].offer
  BY <1>1 DEF Page
<1>3. \A q \in Panels : Solo(q)' => q = p /\ Solo(p)
  BY <1>1, <1>2 DEF Solo
<1>4. Fitting(panel[p].mode, panel[p].board.lane)'
  BY <1>2, OfferedFitNext
<1>5. SoloFits'
  BY <1>1, <1>3, <1>4 DEF SoloFits, CopyLanes
<1>6. ASSUME NEW q \in Panels, Solo(q)'
      PROVE  /\ stored'[q] = {} => truth'.on = {} /\ \A l \in Lanes : truth'.ran[l] = 0
             /\ \A copy \in stored'[q] : Spends(CopyLanes(copy), truth)'
             /\ ~panel'[q].offer => Spends(panel[q].board.lane, truth)'
  <2>1. q = p /\ Solo(p) /\ now' = now /\ truth' = truth /\ stored' = stored /\ panel'[p].offer
    BY <1>1, <1>2, <1>3, <1>6
  <2>2. /\ stored[p] = {} => truth.on = {} /\ \A l \in Lanes : truth.ran[l] = 0
        /\ \A copy \in stored[p] : Spends(CopyLanes(copy), truth)
    BY <2>1 DEF SoloCounts
  <2>3. \A copy \in stored'[p] : Spends(CopyLanes(copy), truth)'
    BY <2>1, <2>2 DEF Spends, CopyLanes
  <2> QED  BY <2>1, <2>2, <2>3
<1> QED  BY <1>2, <1>5, <1>6 DEF SoloCounts

LEMMA RestoreSoloFits ==
    ASSUME TypeOK, TypeOK', PagesFit, SoloFits, SoloCounts, NEW p \in Panels, Restores(p)
    PROVE  SoloFits' /\ SoloCounts'
<1>1. /\ Solo(p) /\ panel[p].offer
      /\ \A q \in Panels \ {p} : panel'[q] = panel[q] /\ stored'[q] = stored[q]
      /\ now' = now /\ truth' = truth
      /\ panel'[p].link = panel[p].link /\ panel'[p].away = panel[p].away
      /\ stored'[p] \in {stored[p], Copy(panel'[p])}
  BY DEF Restores
<1>2. \A q \in Panels : Solo(q)' => q = p
  BY <1>1 DEF Solo
<1>3. truth \in Truths /\ panel'[p].board.lane \in RowSet
  BY PageParts, BoardParts, GroundIs DEF Restores, RowSet
<1>4. /\ Fitting(panel[p].mode, panel[p].board.lane)
      /\ \A copy \in stored[p] : /\ Fitting(copy.view.mode, CopyLanes(copy))
                                 /\ Spends(CopyLanes(copy), truth)
      /\ stored[p] = {} => truth.on = {} /\ \A l \in Lanes : truth.ran[l] = 0
  BY <1>1 DEF SoloFits, SoloCounts
<1>5. Fitting(panel'[p].mode, panel'[p].board.lane) /\ Spends(panel'[p].board.lane, truth)
  <2>1. CASE /\ stored[p] = {}
             /\ panel'[p].mode = panel[p].mode /\ panel'[p].board = panel[p].board
    BY <1>1, <1>3, <1>4, <2>1, OfferedCounts
  <2>2. ASSUME NEW copy \in stored[p], copy \in Copies,
               panel'[p].mode = copy.view.mode,
               panel'[p].board = Recalled(Heard(panel[p]), copy).board
        PROVE  Fitting(panel'[p].mode, panel'[p].board.lane) /\ Spends(panel'[p].board.lane, truth)
    <3>1. Heard(panel[p]) \in Pages
      <4>1. panel[p] \in Pages
        BY DEF TypeOK
      <4> QED  BY <4>1 DEF Heard, Pages
    <3>2. Recalled(Heard(panel[p]), copy).board.lane = CopyLanes(copy)
      BY <2>2, <3>1, RecalledGives DEF CopyLanes
    <3> QED  BY <1>4, <2>2, <3>2
  <2> QED  BY <2>1, <2>2 DEF Restores
<1>6. /\ \A copy \in Copy(panel'[p]) :
           /\ Fitting(copy.view.mode, CopyLanes(copy))
           /\ Spends(panel'[p].board.lane, truth) => Spends(CopyLanes(copy), truth)
      /\ Copy(panel'[p]) = {} /\ Spends(panel'[p].board.lane, truth) =>
           truth.on = {} /\ \A l \in Lanes : truth.ran[l] = 0
  BY <1>3, <1>5, CopyFits
<1>7. /\ \A copy \in stored'[p] : /\ Fitting(copy.view.mode, CopyLanes(copy))
                                  /\ Spends(CopyLanes(copy), truth)
      /\ stored'[p] = {} => truth.on = {} /\ \A l \in Lanes : truth.ran[l] = 0
  BY <1>1, <1>4, <1>5, <1>6
<1>8. SoloFits'
  BY <1>2, <1>5, <1>7 DEF SoloFits, CopyLanes
<1>9. \A copy \in stored'[p] : Spends(CopyLanes(copy), truth)'
  BY <1>1, <1>7 DEF Spends, CopyLanes
<1>10. Spends(panel[p].board.lane, truth)'
  BY <1>1, <1>5 DEF Spends
<1>11. panel'[p].link \/ panel'[p].away
  BY <1>1 DEF Solo
<1> QED  BY <1>1, <1>2, <1>7, <1>8, <1>9, <1>10, <1>11 DEF SoloCounts

\* A turn spends its time as it goes by.
LEMMA SpendsTick ==
    ASSUME TypeOK, NEW lanes \in RowSet, NEW past \in Truths, Spends(lanes, past), NEW next,
           next.on = past.on, next.ran = [l \in Lanes |-> IF l \in past.on THEN past.ran[l] + 1 ELSE past.ran[l]],
           now' = now + 1
    PROVE  \A l \in Lanes :
             /\ Remaining(lanes[l], now') = RemainingFrom(lanes[l].armed, 0, next.ran[l])
             /\ lanes[l].phase = "running" <=> l \in next.on
<1> SUFFICES ASSUME NEW l \in Lanes
             PROVE  /\ Remaining(lanes[l], now') = RemainingFrom(lanes[l].armed, 0, next.ran[l])
                    /\ lanes[l].phase = "running" <=> l \in next.on
  OBVIOUS
<1>1. /\ Remaining(lanes[l], now) = RemainingFrom(lanes[l].armed, 0, past.ran[l])
      /\ lanes[l].phase = "running" <=> l \in past.on
  BY DEF Spends
<1>2. /\ now \in Nat /\ past.ran[l] \in Nat /\ lanes[l].budget \in Nat /\ lanes[l].at \in Nat
      /\ lanes[l].armed \in Nat
  BY LaneParts DEF TypeOK, RowSet, Truths
<1>3. CASE lanes[l].phase = "running"
  <2>1. RemainingFrom(lanes[l].budget, lanes[l].at, now) = RemainingFrom(lanes[l].armed, 0, past.ran[l])
    BY <1>1, <1>3 DEF Remaining
  <2>2. RemainingFrom(lanes[l].budget, lanes[l].at, now + 1) = RemainingFrom(lanes[l].armed, 0, past.ran[l] + 1)
    BY <1>2, <2>1 DEF RemainingFrom
  <2>3. next.ran[l] = past.ran[l] + 1
    BY <1>1, <1>3
  <2> QED  BY <1>1, <1>3, <2>2, <2>3 DEF Remaining
<1>4. CASE lanes[l].phase # "running"
  BY <1>1, <1>4 DEF Remaining
<1> QED  BY <1>3, <1>4

LEMMA TickSoloFits ==
    ASSUME TypeOK, SoloFits, SoloCounts, Tick
    PROVE  SoloFits' /\ SoloCounts'
<1>1. /\ UNCHANGED <<panel, stored, net>> /\ now' = now + 1
      /\ truth' = [truth EXCEPT !.ran = [l \in Lanes |-> IF l \in truth.on THEN @[l] + 1 ELSE @[l]]]
  BY DEF Tick
<1>2. /\ truth \in Truths /\ truth'.on = truth.on
      /\ truth'.ran = [l \in Lanes |-> IF l \in truth.on THEN truth.ran[l] + 1 ELSE truth.ran[l]]
  <2>1. truth \in Truths
    BY DEF TypeOK, Truths
  <2> QED  BY <1>1, <2>1 DEF Truths
<1>3. \A q \in Panels : Solo(q)' => Solo(q)
  BY <1>1 DEF Solo
<1>4. SoloFits'
  BY <1>1, <1>3 DEF SoloFits, CopyLanes
<1>5. truth = NoTurns => truth' = NoTurns
  BY <1>1, <1>2 DEF NoTurns
<1>6. truth.on = {} /\ (\A l \in Lanes : truth.ran[l] = 0) =>
        truth'.on = {} /\ (\A l \in Lanes : truth'.ran[l] = 0)
  BY <1>2
<1>7. ASSUME NEW lanes \in RowSet, Spends(lanes, truth)
      PROVE  \A l \in Lanes : /\ Remaining(lanes[l], now') = RemainingFrom(lanes[l].armed, 0, truth'.ran[l])
                              /\ lanes[l].phase = "running" <=> l \in truth'.on
  <2> DEFINE next == truth'
  <2>1. /\ next.on = truth.on /\ now' = now + 1
        /\ next.ran = [l \in Lanes |-> IF l \in truth.on THEN truth.ran[l] + 1 ELSE truth.ran[l]]
    BY <1>1, <1>2
  <2>2. truth' = next
    OBVIOUS
  <2> HIDE DEF next
  <2>3. \A l \in Lanes :
          /\ Remaining(lanes[l], now') = RemainingFrom(lanes[l].armed, 0, next.ran[l])
          /\ lanes[l].phase = "running" <=> l \in next.on
    BY <1>2, <1>7, <2>1, SpendsTick
  <2> QED  BY <2>2, <2>3
<1>8. ASSUME NEW q \in Panels, Solo(q)'
      PROVE  /\ stored'[q] = {} => truth'.on = {} /\ \A l \in Lanes : truth'.ran[l] = 0
             /\ \A copy \in stored'[q] : Spends(CopyLanes(copy), truth)'
             /\ ~panel'[q].offer => Spends(panel[q].board.lane, truth)'
  <2>1. Solo(q)
    BY <1>3, <1>8
  <2>2. \A copy \in stored[q] : CopyLanes(copy) \in RowSet
    BY HydratedLaneIsALaneState DEF TypeOK, Copies, CopyLanes, RowSet
  <2>3. panel[q].board.lane \in RowSet
    BY PageParts, BoardParts DEF TypeOK, RowSet
  <2>4. \A copy \in stored'[q] : Spends(CopyLanes(copy), truth)'
    <3> SUFFICES ASSUME NEW copy \in stored[q]
                 PROVE  Spends(CopyLanes(copy), truth)'
      BY <1>1
    <3>1. CopyLanes(copy) \in RowSet /\ Spends(CopyLanes(copy), truth)
      BY <2>1, <2>2 DEF SoloCounts
    <3> QED  BY <1>7, <3>1 DEF Spends, CopyLanes
  <2>5. ~panel'[q].offer => Spends(panel[q].board.lane, truth)'
    <3> SUFFICES ASSUME ~panel[q].offer
                 PROVE  Spends(panel[q].board.lane, truth)'
      BY <1>1
    <3>1. Spends(panel[q].board.lane, truth)
      BY <2>1 DEF SoloCounts
    <3> QED  BY <1>1, <1>7, <2>3, <3>1 DEF Spends
  <2> QED  BY <1>1, <1>6, <2>1, <2>4, <2>5 DEF SoloCounts
<1> QED  BY <1>1, <1>4, <1>5, <1>8 DEF SoloCounts

-----------------------------------------------------------------------------
(* The room, step by step.                                                 *)

RoomHolds == \E v \in Rooms : Room(v) /\ TruthFits(v)

\* Rooms that a step leaves: the one that was but for the top sequence number; it at rest,
\* where page j joins if any; that of a page alone; that of an event.
Kept(v, w) == v.c = w.c /\ v.d = w.d /\ v.mode = w.mode /\ v.joiner = w.joiner
Rested(v, w, j) == v.c = w.c /\ v.d = w.c /\ v.mode = w.mode /\ v.seq = w.seq /\ v.joiner = j
Alone(v, p) == v.c = panel[p].board.lane /\ v.mode = panel[p].mode /\ v.joiner = 0
Acted(v, p, mode, b) == v.c = b.lane /\ v.d = panel[p].board.lane /\ v.mode = mode /\ v.joiner = 0

\* At rest whoever listens and has no copy on offer has spent the turns taken.
LEMMA RestCounts ==
    ASSUME TypeOK, NEW w \in Rooms, Room(w), TruthFits(w), net = {},
           NEW p \in Panels, panel[p].link, ~panel[p].offer
    PROVE  Spends(w.c, truth) /\ Spends(panel[p].board.lane, truth)
<1>1. Spends(w.c, truth)
  <2>1. CASE p # w.joiner
    BY <2>1 DEF TruthFits
  <2>2. CASE p = w.joiner
    <3>1. w.joiner # 0
      BY <2>2, PanelsAssumption
    <3>2. PICK x \in Panels : x # w.joiner /\ panel[x].link /\ ~panel[x].offer
      BY <3>1 DEF Room, JoinFits
    <3> QED  BY <3>2 DEF TruthFits
  <2> QED  BY <2>1, <2>2
<1>2. Shows(panel[p].board.lane, w.c)
  BY RoomRests
<1>3. panel[p].board.lane \in RowSet /\ w.c \in RowSet /\ truth \in Truths
  BY PageParts, BoardParts, GroundIs DEF TypeOK, RowSet, Rooms
<1>4. Spends(panel[p].board.lane, truth)
  BY <1>1, <1>2, <1>3, SpendsAlike
<1> QED  BY <1>1, <1>4

\* With a frame in flight somebody listens that has no copy on offer.
LEMMA BusyCounts ==
    ASSUME TypeOK, PagesFit, NEW w \in Rooms, Room(w), TruthFits(w), net # {}
    PROVE  Spends(w.c, truth)
<1>1. PICK m \in net : TRUE
  OBVIOUS
<1>2. m.to \in Panels /\ panel[m.to].link /\ \E y \in Panels : y # m.to /\ panel[y].link
  BY <1>1 DEF TypeOK, PagesFit
<1>3. CASE w.joiner # 0
  <2>1. PICK x \in Panels : x # w.joiner /\ panel[x].link /\ ~panel[x].offer
    BY <1>3 DEF Room, JoinFits
  <2> QED  BY <2>1 DEF TruthFits
<1>4. CASE w.joiner = 0
  <2>1. PICK y \in Panels : y # m.to /\ panel[y].link
    BY <1>2
  <2>2. panel[m.to].offer => ~panel[y].offer
    BY <1>2, <2>1 DEF PagesFit
  <2>3. m.to # w.joiner /\ y # w.joiner
    BY <1>2, <1>4, PanelsAssumption
  <2> QED  BY <1>2, <2>1, <2>2, <2>3 DEF TruthFits
<1> QED  BY <1>3, <1>4

\* A page alone is a room.
LEMMA SoloRoom ==
    TypeOK /\ SoloFits /\ SoloCounts /\ net = {} =>
      \A p \in Panels : Solo(p) => \E v \in Rooms : Alone(v, p) /\ Room(v) /\ TruthFits(v)
<1> SUFFICES ASSUME TypeOK, SoloFits, SoloCounts, net = {}, NEW p \in Panels, Solo(p)
             PROVE  \E v \in Rooms : Alone(v, p) /\ Room(v) /\ TruthFits(v)
  OBVIOUS
<1> DEFINE v == [c |-> panel[p].board.lane, d |-> panel[p].board.lane, mode |-> panel[p].mode,
                 seq |-> panel[p].stamp.seq, joiner |-> 0]
<1>1. v \in Rooms
  BY PageParts, BoardParts DEF TypeOK, Rooms, RowSet, Stamp
<1>2. /\ v.c = panel[p].board.lane /\ v.d = v.c /\ v.mode = panel[p].mode
      /\ v.seq = panel[p].stamp.seq /\ v.joiner = 0
  OBVIOUS
<1> HIDE DEF v
<1>3. Fitting(panel[p].mode, panel[p].board.lane) /\ (~panel[p].offer => Spends(panel[p].board.lane, truth))
  BY DEF SoloFits, SoloCounts
<1>4. \A x \in Panels : panel[x].link => x = p
  BY DEF Solo
<1>5. Quiet(v)
  BY <1>2, <1>3, <1>4, AlikeIsEqual DEF Quiet, Shows
<1>6. Room(v)
  BY <1>1, <1>5, QuietRoomsFit
<1>7. TruthFits(v)
  BY <1>2, <1>3, <1>4 DEF TruthFits
<1> QED  BY <1>1, <1>2, <1>6, <1>7 DEF Alone

LEMMA SoloRoomNext ==
    (TypeOK /\ SoloFits /\ SoloCounts /\ net = {} =>
       \A p \in Panels : Solo(p) => \E v \in Rooms : Alone(v, p) /\ Room(v) /\ TruthFits(v))'
  BY SoloRoom, PTL

LEMMA OtherSeq ==
    ASSUME NEW w \in Rooms, NEW n \in Nat
    PROVE  \E v \in Rooms : Kept(v, w) /\ v.seq = n
<1> DEFINE r == [w EXCEPT !.seq = n]
<1>1. /\ r \in Rooms /\ r.c = w.c /\ r.d = w.d /\ r.mode = w.mode /\ r.joiner = w.joiner
      /\ r.seq = n
  BY DEF Rooms
<1> HIDE DEF r
<1> QED  BY <1>1 DEF Kept

LEMMA ActsRoom ==
    ASSUME TypeOK, TypeOK', PagesFit, NEW w \in Rooms, Room(w), TruthFits(w), NEW p \in Panels,
           NEW mode, NEW b, NEW frames, Acts(p, mode, b, frames)
    PROVE  \E v \in Rooms : Acted(v, p, mode, b) /\ Room(v)' /\ TruthFits(v)'
<1>1. /\ net = {} /\ panel[p].link /\ Stirs(p, mode, b, frames) /\ Event(p, mode, b, frames) /\ Counts(p, b)
  BY DEF Acts, Stirs
<1>2. b \in Boards /\ mode \in Modes
  BY <1>1 DEF Event
<1>3. PICK v \in Rooms :
        /\ v.c = b.lane /\ v.d = panel[p].board.lane /\ v.mode = mode
        /\ v.seq = panel'[p].stamp.seq /\ v.joiner = 0
  <2> DEFINE r == [c |-> b.lane, d |-> panel[p].board.lane, mode |-> mode,
                   seq |-> panel'[p].stamp.seq, joiner |-> 0]
  <2>1. b.lane \in RowSet /\ panel[p].board.lane \in RowSet
    BY <1>2, PageParts, BoardParts DEF TypeOK, RowSet
  <2>2. panel'[p].stamp.seq \in Nat
    BY PageParts DEF TypeOK, Stamp
  <2>3. r \in Rooms
    BY <1>2, <2>1, <2>2 DEF Rooms
  <2>4. /\ r.c = b.lane /\ r.d = panel[p].board.lane /\ r.mode = mode
        /\ r.seq = panel'[p].stamp.seq /\ r.joiner = 0
    OBVIOUS
  <2> HIDE DEF r
  <2> QED  BY <2>3, <2>4
<1>4. Room(v)'
  BY <1>1, <1>3, StirredRoomFits
<1>5. Spends(b.lane, truth')
  <2>1. ~panel[p].offer => Spends(panel[p].board.lane, truth)
    BY <1>1, RestCounts
  <2> QED  BY <1>1, <2>1, GroundCounts DEF Counts
<1>6. now' = now
  BY <1>1, EventPage
<1>7. Spends(v.c, truth)'
  BY <1>3, <1>5, <1>6 DEF Spends
<1>8. TruthFits(v)'
  BY <1>7 DEF TruthFits
<1> QED  BY <1>3, <1>4, <1>8 DEF Acted

LEMMA TwinRoom ==
    ASSUME TypeOK, TypeOK', PagesFit, NEW w \in Rooms, Room(w), TruthFits(w), net # {},
           NEW p \in Panels, NEW l \in Lanes, NEW b \in Boards, NEW f \in CountFrames, Crossing(p, l, b, f)
    PROVE  \E v \in Rooms : Kept(v, w) /\ Room(v)' /\ TruthFits(v)'
<1> DEFINE n == panel'[p].stamp.seq
           lane == panel[p].board.lane[l]
<1>1. n \in Nat /\ w.seq \in Nat
  BY PageParts DEF TypeOK, Stamp, Rooms
<1>2. PICK v \in Rooms : Kept(v, w) /\ v.seq = IF n > w.seq THEN n ELSE w.seq
  BY <1>1, OtherSeq
<1>3. Room(v)'
  BY <1>2, TwinRoomFits DEF Kept
<1>4. /\ panel[p].link /\ lane.phase \in {"running", "onBreak"} /\ AtZero(lane, now)
      /\ lane.phase = "running" => truth' = OffTurn(l)
      /\ lane.phase = "onBreak" => truth' = truth
      /\ Event(p, panel[p].mode, b, {f})
  BY DEF Crossing
<1>5. now' = now
  BY <1>4, EventPage
<1>6. /\ lane \in LaneStates /\ w.c[l] \in LaneStates /\ now \in Nat
  BY PageParts, BoardParts DEF TypeOK, Rooms, RowSet
<1>7. Spends(w.c, truth) /\ truth \in Truths
  BY BusyCounts, GroundIs
<1>8. w.c[l].phase # "running"
  <2>1. ~AtZero(w.c[l], now)
    BY DEF Room, ZerosFit
  <2>2. ~Alike(lane, w.c[l], now)
    BY <1>4, <1>6, <2>1, ZeroAlike
  <2>3. CASE p = w.joiner
    <3>1. w.joiner # 0
      BY <2>3, PanelsAssumption
    <3>2. JoinFits(w)
      BY DEF Room
    <3> QED  BY <1>4, <2>2, <2>3, <3>1, <3>2 DEF JoinFits, Shows
  <2>4. CASE p # w.joiner
    <3>1. Alike(Spent(lane), w.c[l], now)
      BY <1>4, <2>2, <2>4 DEF Room, ZerosFit
    <3>2. Spent(lane) \in LaneStates /\ Spent(lane).phase # "running"
      BY <1>6, SpentIsALaneState, SpentRests
    <3> QED  BY <1>6, <3>1, <3>2, AlikeMeans
  <2> QED  BY <2>3, <2>4
<1>9. Spends(w.c, truth')
  <2>1. CASE truth' = truth
    BY <1>7, <2>1
  <2>2. CASE truth' = OffTurn(l)
    <3>1. l \notin truth.on
      BY <1>7, <1>8 DEF Spends
    <3>2. truth'.on = truth.on /\ truth'.ran = truth.ran
      BY <1>7, <2>2, <3>1 DEF OffTurn, Truths
    <3> QED  BY <1>7, <3>2 DEF Spends
  <2> QED  BY <1>4, <2>1, <2>2
<1>10. Spends(v.c, truth)'
  BY <1>2, <1>5, <1>9 DEF Kept, Spends
<1>11. TruthFits(v)'
  BY <1>10 DEF TruthFits
<1> QED  BY <1>2, <1>3, <1>11

LEMMA DeliverRoom ==
    ASSUME TypeOK, TypeOK', PagesFit, NEW w \in Rooms, Room(w), TruthFits(w), NEW p \in Panels,
           NEW m \in net, NEW sent \in SUBSET Frames, Delivers(p, m, sent)
    PROVE  \E v \in Rooms :
             /\ Kept(v, w) /\ v.seq = (IF m.frame.kind = "ask" THEN panel'[p].stamp.seq ELSE w.seq)
             /\ Room(v)' /\ TruthFits(v)'
<1>1. now' = now /\ truth' = truth
  BY DEF Delivers
<1>2. Spends(w.c, truth)
  BY BusyCounts
<1>3. ASSUME NEW v \in Rooms, v.c = w.c  PROVE TruthFits(v)'
  <2>1. Spends(v.c, truth)'
    BY <1>1, <1>2, <1>3 DEF Spends
  <2> QED  BY <2>1 DEF TruthFits
<1>4. CASE m.frame.kind = "ask"
  <2> DEFINE n == panel'[p].stamp.seq
  <2>1. n \in Nat
    BY PageParts DEF TypeOK, Stamp
  <2>2. PICK v \in Rooms : Kept(v, w) /\ v.seq = n
    BY <2>1, OtherSeq
  <2>3. Room(v)'
    BY <1>4, <2>2, AnsweredRoomFits DEF Kept
  <2>4. TruthFits(v)'
    BY <1>3, <2>2 DEF Kept
  <2> QED  BY <1>4, <2>2, <2>3, <2>4
<1>5. CASE m.frame.kind # "ask"
  <2>1. m.frame.kind \in Countdowns \/ m.frame.kind = "selection" \/ m.frame.kind = "snapshot"
    BY <1>5 DEF Delivers
  <2>2. Room(w)'
    BY <2>1, MirroredRoomFits, FollowedRoomFits, HydratedRoomFits
  <2>3. TruthFits(w)'
    BY <1>3
  <2> QED  BY <1>5, <2>2, <2>3 DEF Kept
<1> QED  BY <1>4, <1>5

LEMMA RestedRoom ==
    ASSUME NEW w \in Rooms, NEW j \in Panels \union {0}
    PROVE  \E v \in Rooms : Rested(v, w, j)
<1> DEFINE r == [w EXCEPT !.d = w.c, !.joiner = j]
<1>1. /\ r \in Rooms /\ r.c = w.c /\ r.d = w.c /\ r.mode = w.mode /\ r.seq = w.seq /\ r.joiner = j
  BY DEF Rooms
<1> HIDE DEF r
<1> QED  BY <1>1 DEF Rested

\* A page that reloads leaves a quiet room.
LEMMA ReloadRoom ==
    ASSUME TypeOK, Patient, NEW w \in Rooms, Room(w), TruthFits(w), NEW p \in Panels, Reload(p)
    PROVE  \E v \in Rooms : Rested(v, w, 0) /\ Room(v)' /\ TruthFits(v)'
<1>1. /\ Calm(p)
      /\ \A q \in Panels \ {p} : panel'[q] = panel[q]
      /\ panel'[p] = [Page(panel[p].mode) EXCEPT !.away = TRUE]
      /\ UNCHANGED <<stored, net, now, truth>>
  BY ReloadGives
<1>2. net = {} /\ net' = {} /\ now' = now /\ truth' = truth /\ ~panel'[p].link
  BY <1>1 DEF Calm, Page
<1>3. PICK v \in Rooms : Rested(v, w, 0)
  BY RestedRoom
<1>4. \A x \in Panels : panel'[x].link => panel[x].link /\ panel'[x] = panel[x]
  BY <1>1, <1>2
<1>5. /\ \A x \in Panels : panel[x].link =>
           Shows(panel[x].board.lane, w.c) /\ panel[x].stamp.seq = w.seq /\ panel[x].mode = w.mode
      /\ w.seq = 0 => \A x \in Panels : \A y \in Panels : panel[x].link /\ panel[y].link => x = y
      /\ Fitting(w.mode, w.c)
  BY <1>2, RoomRests
<1>6. Quiet(v)'
  BY <1>2, <1>3, <1>4, <1>5 DEF Rested, Quiet, Shows
<1>7. Room(v)'
  BY <1>6, QuietRoomsFitNext
<1>8. \A x \in Panels : panel[x].link /\ ~panel[x].offer => Spends(w.c, truth)
  BY <1>2, RestCounts
<1>9. TruthFits(v)'
  BY <1>2, <1>3, <1>4, <1>8 DEF Rested, TruthFits, Spends
<1> QED  BY <1>3, <1>7, <1>9

\* A page that opens on a quiet room joins it.
LEMMA JoinedRoom ==
    ASSUME TypeOK, PagesFit, Patient, NEW w \in Rooms, Room(w), TruthFits(w), NEW p \in Panels, Open(p),
           NEW y \in Panels, y # p, panel[y].link
    PROVE  \E v \in Rooms : Rested(v, w, p) /\ Room(v)' /\ TruthFits(v)'
<1> DEFINE s == [panel[p] EXCEPT !.link = TRUE, !.away = FALSE]
           restored == ~s.offer /\ stored[p] # {}
           claim == Minted(p, s.stamp, FALSE, 0)
<1>1. /\ ~panel[p].link /\ Calm(p)
      /\ \A q \in Panels \ {p} : panel'[q] = panel[q]
      /\ panel'[p] = IF restored THEN [s EXCEPT !.stamp = claim] ELSE s
      /\ net' = net \union Fanout(p, {AskFrame(p)} \union
                                     IF restored THEN {SelectionFrame(claim, s)} ELSE {})
      /\ UNCHANGED <<now, truth, count>>
  BY OpenGives
<1>2. /\ net = {} /\ ~DueBy(now) /\ now' = now /\ truth' = truth
      /\ \A q \in Panels \ {p} : ~panel[q].away /\ (panel[q].link => ~panel[q].offer)
  BY <1>1 DEF Calm
<1>3. panel[p].offer
  <2>1. panel[p].away => panel[p].offer
    BY DEF PagesFit
  <2>2. ~panel[p].away => panel[p].offer
    BY <1>1 DEF PagesFit
  <2> QED  BY <2>1, <2>2
<1>4. panel[p].stamp = InitialStamp /\ ~panel[p].live
  BY <1>1 DEF PagesFit
<1>5. /\ s.link /\ s.offer = panel[p].offer /\ s.mode = panel[p].mode /\ s.board = panel[p].board
      /\ s.live = panel[p].live /\ s.stamp = panel[p].stamp
  BY DEF TypeOK, Pages
<1>6. panel'[p] = s /\ net' = net \union Fanout(p, {AskFrame(p)} \union {})
  BY <1>1, <1>3, <1>5
<1> HIDE DEF s, restored, claim
<1>7. /\ panel'[p].link /\ panel'[p].stamp.seq = 0 /\ ~panel'[p].live
      /\ \A l \in Lanes : panel'[p].board.lane[l].phase = "idle"
  <2>1. \A l \in Lanes : panel[p].board.lane[l].phase = "idle"
    BY <1>3, OfferedRests
  <2> QED  BY <1>4, <1>5, <1>6, <2>1 DEF InitialStamp
<1>8. \A m \in net' : m.to \in Panels /\ m.to # p /\ m.frame.kind = "ask" /\ m.frame.by = p
  <2>1. \A m \in net' : m.to \in Panels /\ m.to # p /\ m.frame = AskFrame(p)
    BY <1>2, <1>6, FanoutIs
  <2> QED  BY <2>1 DEF AskFrame
<1>9. Asking(p)'
  <2>1. [to |-> y, frame |-> AskFrame(p)] \in net'
    BY <1>6, FanoutIs
  <2> QED  BY <2>1 DEF Asking, AskFrame
<1>10. PICK v \in Rooms : Rested(v, w, p)
  BY RestedRoom
<1> USE DEF Rested
<1>11. /\ \A x \in Panels : panel[x].link =>
           Shows(panel[x].board.lane, w.c) /\ panel[x].stamp.seq = w.seq /\ panel[x].mode = w.mode
       /\ w.seq = 0 => \A x \in Panels : \A z \in Panels : panel[x].link /\ panel[z].link => x = z
       /\ Fitting(w.mode, w.c)
  BY <1>2, RoomRests
<1>12. \A x \in Panels : panel'[x].link /\ x # p => panel[x].link /\ panel'[x] = panel[x]
  BY <1>1
<1>13. FramesFit(v)' /\ LanesFit(v)'
  BY <1>2, <1>8, <1>10, <1>11, <1>12 DEF FramesFit, LanesFit, Shows, Countdowns
<1>14. JoinFits(v)'
  <2>1. panel'[y].link /\ ~panel'[y].offer
    BY <1>1, <1>2
  <2> QED  BY <1>7, <1>8, <1>9, <1>10, <2>1 DEF JoinFits, Asking
<1>15. \A l \in Lanes : ~AtZero(w.c[l], now)
  <2>1. ASSUME NEW l \in Lanes  PROVE ~AtZero(w.c[l], now)
    <3>1. panel[y].board.lane[l] \in LaneStates /\ w.c[l] \in LaneStates /\ now \in Nat
      BY PageParts, BoardParts DEF TypeOK, Rooms, RowSet
    <3>2. Alike(panel[y].board.lane[l], w.c[l], now)
      BY <1>11 DEF Shows
    <3>3. ~AtZero(panel[y].board.lane[l], now)
      BY <1>2, <3>1, ZerosAreDue
    <3> QED  BY <3>1, <3>2, <3>3, ZeroAlike
  <2> QED  BY <2>1
<1>16. ZerosFit(v)'
  <2>1. \A l \in Lanes : AtZero(v.c[l], now)' => net' = {}
    BY <1>2, <1>10, <1>15
  <2>2. \A x \in Panels : panel'[x].link /\ x # v.joiner => \A l \in Lanes :
          Alike(panel'[x].board.lane[l], v.c[l], now')
    BY <1>2, <1>10, <1>11, <1>12 DEF Shows
  <2> QED  BY <2>1, <2>2 DEF ZerosFit
<1>17. LeaderFits(v)'
  BY <1>1, <1>2, <1>10, <1>11 DEF LeaderFits, Shows
<1>18. ClocksFit(v)'
  BY <1>10, <1>11 DEF ClocksFit, Fitting
<1>19. ModesFit(v)'
  <2>1. v.seq \in Nat
    BY DEF Rooms
  <2>2. ASSUME NEW x \in Panels, panel'[x].link
        PROVE  /\ panel'[x].stamp.seq <= v.seq
               /\ panel'[x].stamp.seq = v.seq =>
                    panel'[x].mode = v.mode \/ (x = v.joiner /\ v.seq = 0 /\ Asking(x)')
               /\ panel'[x].stamp.seq < v.seq => x = v.joiner /\ Asking(x)'
               /\ v.joiner # 0 /\ x # v.joiner => panel'[x].stamp.seq = v.seq
               /\ panel'[x].mode # v.mode => x = v.joiner
    <3>1. CASE x = p
      BY <1>7, <1>9, <1>10, <2>1, <3>1
    <3>2. CASE x # p
      <4>1. panel'[x].stamp.seq = v.seq /\ panel'[x].mode = v.mode
        BY <1>10, <1>11, <1>12, <2>2, <3>2
      <4> QED  BY <2>1, <4>1
    <3> QED  BY <3>1, <3>2
  <2>3. v.seq = 0 => \A x \in Panels : \A z \in Panels : panel'[x].link /\ panel'[z].link /\ x # z =>
          v.joiner \in {x, z} /\ Asking(v.joiner)'
    BY <1>9, <1>10, <1>11, <1>12
  <2> QED  BY <1>8, <2>2, <2>3 DEF ModesFit, Asking
<1>20. Room(v)'
  BY <1>13, <1>14, <1>16, <1>17, <1>18, <1>19 DEF Room
<1>21. \A x \in Panels : panel[x].link /\ ~panel[x].offer => Spends(w.c, truth)
  BY <1>2, RestCounts
<1>22. TruthFits(v)'
  BY <1>2, <1>10, <1>12, <1>21 DEF TruthFits, Spends
<1> QED  BY <1>10, <1>20, <1>22

\* A page that opens where none listens is alone.
LEMMA OpenAlone ==
    ASSUME TypeOK, Patient, NEW p \in Panels, Open(p), \A y \in Panels \ {p} : ~panel[y].link
    PROVE  net' = {} /\ Solo(p)'
<1> DEFINE s == [panel[p] EXCEPT !.link = TRUE, !.away = FALSE]
           restored == ~s.offer /\ stored[p] # {}
           claim == Minted(p, s.stamp, FALSE, 0)
           sent == {AskFrame(p)} \union IF restored THEN {SelectionFrame(claim, s)} ELSE {}
<1>1. /\ Calm(p) /\ s \in Pages
      /\ \A q \in Panels \ {p} : panel'[q] = panel[q]
      /\ panel'[p] = IF restored THEN [s EXCEPT !.stamp = claim] ELSE s
      /\ net' = net \union Fanout(p, sent)
  BY OpenGives
<1>2. net = {} /\ \A q \in Panels \ {p} : ~panel[q].away
  BY <1>1 DEF Calm
<1>3. s.link
  BY DEF TypeOK, Pages
<1>4. panel'[p].link
  BY <1>1, <1>3 DEF Pages
<1> HIDE DEF s, sent
<1>5. Fanout(p, sent) = {}
  BY FanoutIs
<1>6. net' = {} /\ Solo(p)'
  BY <1>1, <1>2, <1>4, <1>5 DEF Solo
<1> QED  BY <1>6

LEMMA TickRoom ==
    ASSUME TypeOK, NEW w \in Rooms, Room(w), TruthFits(w), Tick
    PROVE  \E v \in Rooms : ((Rested(v, w, 0) /\ net = {}) \/ v = w) /\ Room(v)' /\ TruthFits(v)'
<1>1. /\ net = {} \/ ~DueBy(now + 1)
      /\ now' = now + 1 /\ panel' = panel /\ net' = net
      /\ truth'.on = truth.on
      /\ truth'.ran = [l \in Lanes |-> IF l \in truth.on THEN truth.ran[l] + 1 ELSE truth.ran[l]]
  BY GroundIs DEF Tick, Truths, TypeOK
<1>2. /\ now \in Nat /\ w.c \in RowSet /\ w.d \in RowSet /\ truth \in Truths
      /\ \A l \in Lanes : w.c[l] \in LaneStates /\ w.d[l] \in LaneStates
      /\ \A x \in Panels : panel[x].board.lane \in RowSet
      /\ \A x \in Panels : \A l \in Lanes : panel[x].board.lane[l] \in LaneStates
  BY PageParts, BoardParts DEF TypeOK, Rooms, RowSet, Truths
<1>3. \A a \in LaneStates : \A b \in LaneStates : Alike(a, b, now) => Alike(a, b, now + 1)
  BY <1>2, AlikeTicks
<1>4. ASSUME NEW x \in Panels, Shows(panel[x].board.lane, w.c)  PROVE Shows(panel[x].board.lane, w.c)'
  BY <1>1, <1>2, <1>3, <1>4 DEF Shows
<1>5. ASSUME Spends(w.c, truth)  PROVE Spends(w.c, truth)'
  BY <1>1, <1>2, <1>5, SpendsTick DEF Spends
<1>6. CASE net = {}
  <2>1. PICK v \in Rooms : Rested(v, w, 0)
    BY RestedRoom
  <2>2. /\ \A x \in Panels : panel[x].link =>
             Shows(panel[x].board.lane, w.c) /\ panel[x].stamp.seq = w.seq /\ panel[x].mode = w.mode
        /\ w.seq = 0 => \A x \in Panels : \A y \in Panels : panel[x].link /\ panel[y].link => x = y
        /\ Fitting(w.mode, w.c)
    BY <1>6, RoomRests
  <2>3. \A x \in Panels : panel[x].link => Shows(panel[x].board.lane, w.c)'
    BY <1>4, <2>2
  <2>4. Quiet(v)'
    BY <1>1, <1>6, <2>1, <2>2, <2>3 DEF Rested, Quiet, Shows
  <2>5. Room(v)'
    BY <2>4, QuietRoomsFitNext
  <2>6. \A x \in Panels : panel[x].link /\ ~panel[x].offer => Spends(w.c, truth)
    BY <1>6, RestCounts
  <2>7. TruthFits(v)'
    BY <1>1, <1>5, <2>1, <2>6 DEF Rested, TruthFits, Spends
  <2> QED  BY <1>6, <2>1, <2>5, <2>7
<1>7. CASE net # {}
  <2>1. FramesFit(w)'
    <3>1. ASSUME NEW m \in net, m.frame.kind \in Countdowns
          PROVE  /\ w.joiner = 0
                 /\ Alike(Lands(m.frame, w.c[m.frame.lane]), w.c[m.frame.lane], now + 1)
                 /\ Alike(Lands(m.frame, w.d[m.frame.lane]), w.c[m.frame.lane], now + 1)
                 /\ m.frame.kind \in {"start", "reset"} =>
                      /\ w.c[Other(m.frame.lane)].phase # "running"
                      /\ w.d[Other(m.frame.lane)].phase # "running"
      <4>1. m.frame \in CountFrames
        BY <3>1, FrameKinds DEF TypeOK
      <4>2. m.frame.lane \in Lanes
        BY <4>1, CountFrameParts
      <4>3. Lands(m.frame, w.c[m.frame.lane]) \in LaneStates /\ Lands(m.frame, w.d[m.frame.lane]) \in LaneStates
        BY <1>2, <4>1, <4>2, LandsIsALaneState
      <4>4. FramesFit(w)
        BY DEF Room
      <4>5. /\ w.joiner = 0
            /\ Alike(Lands(m.frame, w.c[m.frame.lane]), w.c[m.frame.lane], now)
            /\ Alike(Lands(m.frame, w.d[m.frame.lane]), w.c[m.frame.lane], now)
            /\ m.frame.kind \in {"start", "reset"} =>
                 /\ w.c[Other(m.frame.lane)].phase # "running"
                 /\ w.d[Other(m.frame.lane)].phase # "running"
        BY <3>1, <4>4 DEF FramesFit
      <4> QED  BY <1>2, <1>3, <4>2, <4>3, <4>5
    <3> QED  BY <1>1, <3>1 DEF FramesFit
  <2>2. LanesFit(w)'
    <3>1. LanesFit(w)
      BY DEF Room
    <3>2. ASSUME NEW x \in Panels, panel[x].link, x # w.joiner, NEW l \in Lanes
          PROVE  \/ Alike(panel[x].board.lane[l], w.c[l], now + 1)
                 \/ Alike(panel[x].board.lane[l], w.d[l], now + 1) /\ Awaits(x, l)
      BY <1>2, <1>3, <3>1, <3>2 DEF LanesFit
    <3> QED  BY <1>1, <3>2 DEF LanesFit, Awaits
  <2>3. JoinFits(w)'
    <3>1. JoinFits(w)
      BY DEF Room
    <3>2. w.joiner # 0 /\ Shows(panel[w.joiner].board.lane, w.c) => Shows(panel[w.joiner].board.lane, w.c)'
      BY <1>4 DEF Rooms
    <3>3. ASSUME NEW m \in net, m.frame.kind = "snapshot"
          PROVE  w.joiner # 0 /\ Shows([l \in Lanes |-> LaneFromSnapshot(m.frame.rows[l])], w.c)'
      <4>1. m.frame \in SnapshotFrames
        BY <3>3, FrameKinds DEF TypeOK
      <4>2. \A l \in Lanes : LaneFromSnapshot(m.frame.rows[l]) \in LaneStates
        BY <4>1, HydratedLaneIsALaneState DEF SnapshotFrames, RowSet
      <4>3. w.joiner # 0 /\ \A l \in Lanes : Alike(LaneFromSnapshot(m.frame.rows[l]), w.c[l], now)
        BY <3>1, <3>3 DEF JoinFits, Shows
      <4>4. \A l \in Lanes : Alike(LaneFromSnapshot(m.frame.rows[l]), w.c[l], now + 1)
        BY <1>2, <1>3, <4>2, <4>3
      <4> QED  BY <1>1, <4>3, <4>4 DEF Shows
    <3> QED  BY <1>1, <3>1, <3>2, <3>3 DEF JoinFits, Asking
  <2>4. ASSUME NEW x \in Panels, panel[x].link, NEW l \in Lanes
        PROVE  ~AtZero(panel[x].board.lane[l], now + 1)
    BY <1>1, <1>2, <1>7, <2>4, ZerosAreDue
  <2>5. PICK x \in Panels : panel[x].link /\ x # w.joiner /\ Shows(panel[x].board.lane, w.c)
    BY <1>7 DEF Room, LeaderFits
  <2>6. LeaderFits(w)'
    BY <1>1, <1>4, <2>5 DEF LeaderFits
  <2>7. ZerosFit(w)'
    <3>1. ASSUME NEW l \in Lanes  PROVE ~AtZero(w.c[l], now + 1)
      <4>1. Alike(panel[x].board.lane[l], w.c[l], now + 1)
        BY <1>2, <1>3, <2>5 DEF Shows
      <4> QED  BY <1>2, <2>4, <2>5, <4>1, ZeroAlike
    <3> QED  BY <1>1, <2>4, <3>1 DEF ZerosFit
  <2>8. ClocksFit(w)'
    BY DEF Room, ClocksFit
  <2>9. ModesFit(w)'
    <3>1. ModesFit(w)
      BY DEF Room
    <3> QED  BY <1>1, <3>1 DEF ModesFit, Asking, Told
  <2>10. Room(w)'
    BY <2>1, <2>2, <2>3, <2>6, <2>7, <2>8, <2>9 DEF Room
  <2>11. TruthFits(w)'
    BY <1>1, <1>5 DEF TruthFits
  <2> QED  BY <2>10, <2>11
<1> QED  BY <1>6, <1>7

-----------------------------------------------------------------------------
(* The invariant.                                                          *)

\* What patient operators keep: the room, and the page that is alone in it.
RoomInv == TypeOK /\ PagesFit /\ SoloFits /\ SoloCounts /\ RoomHolds

LEMMA PagesOpenFit ==
    ASSUME Init
    PROVE  TypeOK /\ PagesFit /\ SoloFits /\ SoloCounts
<1>1. TypeOK
  <2>1. panel \in [Panels -> Pages]
    BY PageIsAPage, ZenonT(40) DEF Init
  <2> QED  BY <2>1 DEF Init, TypeOK, NoTurns
<1>2. \A x \in Panels :
        /\ ~panel[x].link /\ ~panel[x].live /\ ~panel[x].away /\ panel[x].offer
        /\ panel[x].stamp = InitialStamp
        /\ panel[x].board = InitialBoard(Preset[panel[x].mode])
        /\ stored[x] = {}
  BY DEF Init, Page
<1>3. PagesFit
  BY <1>2 DEF Init, PagesFit
<1>4. \A p \in Panels : ~Solo(p)
  BY <1>2 DEF Solo
<1> QED  BY <1>1, <1>3, <1>4 DEF Init, SoloFits, SoloCounts

LEMMA RoomOpens ==
    ASSUME Init, TypeOK
    PROVE  \E v \in Rooms : Room(v) /\ TruthFits(v) /\ \A l \in Lanes : v.c[l].phase = "idle"
<1> DEFINE lane == Idle(Preset["quali"], Preset["quali"], MaxBreaks)
           lanes == [l \in Lanes |-> lane]
           v == [c |-> lanes, d |-> lanes, mode |-> "quali", seq |-> 0, joiner |-> 0]
<1>1. "quali" \in Modes /\ Preset["quali"] \in Nat \ {0} /\ now \in Nat
  BY PresetAssumption DEF Modes, TypeOK
<1>2. Proper(lane) /\ lane.phase = "idle" /\ lane \in LaneStates
  BY <1>1, ReArmedIs, IdleIsALaneState DEF MaxBreaks
<1> HIDE DEF lane
<1>3. v \in Rooms /\ v.c = lanes /\ v.d = lanes /\ v.mode = "quali" /\ v.seq = 0 /\ v.joiner = 0
  BY <1>1, <1>2 DEF Rooms, RowSet
<1> HIDE DEF v
<1>4. Fitting("quali", lanes)
  BY <1>2, LanesAre DEF Fitting
<1>5. \A x \in Panels : ~panel[x].link
  BY DEF Init, Page
<1>6. Quiet(v)
  BY <1>3, <1>4, <1>5 DEF Quiet, Init
<1>7. Room(v)
  BY <1>3, <1>6, QuietRoomsFit
<1> QED  BY <1>2, <1>3, <1>5, <1>7 DEF TruthFits

LEMMA RoomIsKept ==
    ASSUME Patient, 0 \notin Drafts, RoomInv, [Next]_vars
    PROVE  RoomInv'
<1>1. TypeOK /\ PagesFit /\ SoloFits /\ SoloCounts
  BY DEF RoomInv
<1>2. TypeOK' /\ PagesFit'
  BY <1>1, TypesAreKept, PagesFitAreKept
<1>3. PICK w \in Rooms : Room(w) /\ TruthFits(w)
  BY DEF RoomInv, RoomHolds
<1>4. ASSUME NEW p \in Panels, NEW mode, NEW b, NEW frames, Acts(p, mode, b, frames)
      PROVE  SoloFits' /\ SoloCounts' /\ RoomHolds'
  <2>1. \E v \in Rooms : Acted(v, p, mode, b) /\ Room(v)' /\ TruthFits(v)'
    BY <1>1, <1>2, <1>3, <1>4, ActsRoom
  <2>2. RoomHolds'
    BY <2>1 DEF RoomHolds
  <2> QED  BY <1>1, <1>2, <1>3, <1>4, <2>2, EventSoloFits
<1>5. ASSUME NEW p \in Panels, Presses(p)
      PROVE  SoloFits' /\ SoloCounts' /\ RoomHolds'
  <2>1. PICK mode \in Modes : \E b \in Boards : \E frames \in SUBSET CountFrames : Acts(p, mode, b, frames)
    BY <1>1, <1>3, <1>5, PressStirs
  <2>2. PICK b \in Boards : \E frames \in SUBSET CountFrames : Acts(p, mode, b, frames)
    BY <2>1
  <2> QED  BY <1>4, <2>2
<1>6. ASSUME NEW p \in Panels, NEW l \in Lanes, Expire(p, l)
      PROVE  SoloFits' /\ SoloCounts' /\ RoomHolds'
  <2>1. PICK b \in Boards : \E f \in CountFrames : Crossing(p, l, b, f)
    BY <1>1, <1>6, ExpiryCrosses
  <2>2. PICK f \in CountFrames : Crossing(p, l, b, f)
    BY <2>1
  <2>3. CASE net = {}
    <3>1. Acts(p, panel[p].mode, b, {f})
      BY <1>1, <1>3, <2>2, <2>3, CrossingStirs
    <3> QED  BY <1>4, <3>1
  <2>4. CASE net # {}
    <3>1. RoomHolds'
      <4>1. \E v \in Rooms : Kept(v, w) /\ Room(v)' /\ TruthFits(v)'
        BY <1>1, <1>2, <1>3, <2>2, <2>4, TwinRoom
      <4> QED  BY <4>1 DEF RoomHolds
    <3>2. Event(p, panel[p].mode, b, {f})
      BY <2>2 DEF Crossing
    <3>3. \A x \in Panels : panel'[x].link = panel[x].link /\ panel'[x].away = panel[x].away
      BY <1>1, <3>2, EventPage
    <3> QED  BY <1>1, <2>4, <3>1, <3>3, BusySoloFits
  <2> QED  BY <2>3, <2>4
<1>7. ASSUME NEW p \in Panels, Deliver(p)
      PROVE  SoloFits' /\ SoloCounts' /\ RoomHolds'
  <2>2. PICK m \in net : \E sent \in SUBSET Frames : Delivers(p, m, sent)
    BY <1>1, <1>7, DeliverIs
  <2>3. PICK sent \in SUBSET Frames : Delivers(p, m, sent)
    BY <2>2
  <2>4. \A x \in Panels : panel'[x].link = panel[x].link /\ panel'[x].away = panel[x].away
    BY <2>3 DEF Delivers
  <2>5. PICK v \in Rooms :
          /\ Kept(v, w) /\ v.seq = (IF m.frame.kind = "ask" THEN panel'[p].stamp.seq ELSE w.seq)
          /\ Room(v)' /\ TruthFits(v)'
    BY <1>1, <1>2, <1>3, <2>3, DeliverRoom
  <2>6. RoomHolds'
    BY <2>5 DEF RoomHolds
  <2> QED  BY <1>1, <2>2, <2>4, <2>6, BusySoloFits
<1>8. ASSUME NEW p \in Panels, Open(p)
      PROVE  SoloFits' /\ SoloCounts' /\ RoomHolds'
  <2>1. SoloFits' /\ SoloCounts'
    BY <1>1, <1>2, <1>8, OpenSoloFits
  <2>2. CASE \E y \in Panels \ {p} : panel[y].link
    <3>1. PICK y \in Panels \ {p} : panel[y].link
      BY <2>2
    <3>2. \E v \in Rooms : Rested(v, w, p) /\ Room(v)' /\ TruthFits(v)'
      BY <1>1, <1>3, <1>8, <3>1, JoinedRoom
    <3> QED  BY <2>1, <3>2 DEF RoomHolds
  <2>3. CASE \A y \in Panels \ {p} : ~panel[y].link
    <3>1. net' = {} /\ Solo(p)'
      BY <1>1, <1>8, <2>3, OpenAlone
    <3>2. \E v \in Rooms : Alone(v, p)' /\ Room(v)' /\ TruthFits(v)'
      BY <1>2, <2>1, <3>1, SoloRoomNext
    <3> QED  BY <2>1, <3>2 DEF RoomHolds
  <2> QED  BY <2>2, <2>3
<1>9. ASSUME NEW p \in Panels, Reload(p)
      PROVE  SoloFits' /\ SoloCounts' /\ RoomHolds'
  <2>1. SoloFits' /\ SoloCounts'
    BY <1>1, <1>2, <1>9, ReloadSoloFits
  <2>2. \E v \in Rooms : Rested(v, w, 0) /\ Room(v)' /\ TruthFits(v)'
    BY <1>1, <1>3, <1>9, ReloadRoom
  <2> QED  BY <2>1, <2>2 DEF RoomHolds
<1>10. ASSUME NEW p \in Panels, Restore(p)
       PROVE  SoloFits' /\ SoloCounts' /\ RoomHolds'
  <2>1. Restores(p)
    BY <1>1, <1>10, RestoreIs
  <2>2. SoloFits' /\ SoloCounts'
    BY <1>1, <1>2, <2>1, RestoreSoloFits
  <2>3. net' = {} /\ Solo(p)'
    BY <2>1 DEF Restores, Solo
  <2>4. \E v \in Rooms : Alone(v, p)' /\ Room(v)' /\ TruthFits(v)'
    BY <1>2, <2>2, <2>3, SoloRoomNext
  <2> QED  BY <2>2, <2>4 DEF RoomHolds
<1>11. ASSUME Tick  PROVE SoloFits' /\ SoloCounts' /\ RoomHolds'
  <2>1. SoloFits' /\ SoloCounts'
    BY <1>1, <1>11, TickSoloFits
  <2>2. \E v \in Rooms : ((Rested(v, w, 0) /\ net = {}) \/ v = w) /\ Room(v)' /\ TruthFits(v)'
    BY <1>1, <1>3, <1>11, TickRoom
  <2> QED  BY <2>1, <2>2 DEF RoomHolds
<1>12. ASSUME UNCHANGED vars  PROVE SoloFits' /\ SoloCounts' /\ RoomHolds'
  <2>1. panel' = panel /\ stored' = stored /\ net' = net /\ now' = now /\ truth' = truth
    BY <1>12 DEF vars
  <2>2. SoloFits' /\ SoloCounts'
    BY <1>1, <2>1 DEF SoloFits, SoloCounts, Solo, Spends
  <2>3. Room(w)'
    BY <1>3, <2>1 DEF Room, FramesFit, LanesFit, JoinFits, ZerosFit, LeaderFits, ClocksFit, ModesFit,
                      Asking, Awaits, Told, Shows
  <2>4. TruthFits(w)'
    BY <1>3, <2>1 DEF TruthFits, Spends
  <2> QED  BY <1>3, <2>2, <2>3, <2>4 DEF RoomHolds
<1>13. SoloFits' /\ SoloCounts' /\ RoomHolds'
  BY <1>5, <1>6, <1>7, <1>8, <1>9, <1>10, <1>11, <1>12 DEF Next, Presses
<1> QED  BY <1>2, <1>13 DEF RoomInv

\* With patient operators the room is one at all times: whatever expiries, hints, snapshots
\* and copies are under way, the lanes are known that every page shows or is about to.
THEOREM BattleRoomIsOne == ASSUME Patient, 0 \notin Drafts PROVE Spec => []RoomInv
<1>1. Init => RoomInv
  BY PagesOpenFit, RoomOpens DEF RoomInv, RoomHolds
<1>2. RoomInv /\ [Next]_vars => RoomInv'
  BY RoomIsKept
<1> QED  BY <1>1, <1>2, PTL DEF Spec

LEMMA QuietLanesAgree ==
    ASSUME RoomInv
    PROVE  LanesAgree
<1> SUFFICES ASSUME net = {}, NEW p \in Joined, NEW q \in Joined, NEW l \in Lanes
             PROVE  Row(panel[p].board.lane[l], now) = Row(panel[q].board.lane[l], now)
  BY DEF LanesAgree, Landed
<1>1. PICK w \in Rooms : Room(w)
  BY DEF RoomInv, RoomHolds
<1>2. \A x \in Panels : panel[x].link => Shows(panel[x].board.lane, w.c)
  BY <1>1, RoomRests DEF RoomInv
<1> QED  BY <1>2 DEF Joined, Shows, Alike

\* LanesAgree: in a quiet room all joined boards show the same lanes.
THEOREM RoomLanesAgree == ASSUME Patient, 0 \notin Drafts PROVE Spec => []LanesAgree
<1>1. RoomInv => LanesAgree
  BY QuietLanesAgree
<1> QED  BY <1>1, BattleRoomIsOne, PTL

LEMMA QuietBudgetIsSpentOnce ==
    ASSUME RoomInv
    PROVE  BudgetIsSpentOnce
<1> SUFFICES ASSUME net = {}, NEW p \in Joined, NEW l \in Lanes
             PROVE  Remaining(panel[p].board.lane[l], now)
                      = RemainingFrom(panel[p].board.lane[l].armed, 0, truth.ran[l])
  BY DEF BudgetIsSpentOnce, Landed
<1>1. PICK w \in Rooms : Room(w) /\ TruthFits(w)
  BY DEF RoomInv, RoomHolds
<1>2. Spends(panel[p].board.lane, truth)
  BY <1>1, RestCounts DEF RoomInv, Joined
<1> QED  BY <1>2 DEF Spends

\* BudgetIsSpentOnce: in a quiet room what a lane has left, on every joined board, is the
\* budget it was armed to less the time it was on turn since.
THEOREM RoomBudgetIsSpentOnce == ASSUME Patient, 0 \notin Drafts PROVE Spec => []BudgetIsSpentOnce
<1>1. RoomInv => BudgetIsSpentOnce
  BY QuietBudgetIsSpentOnce
<1> QED  BY <1>1, BattleRoomIsOne, PTL

-----------------------------------------------------------------------------
(* Turns and pauses.                                                       *)

\* Board b comes after the board was: one turn at a time and the last one that began,
\* no pause during it, and no pause that was anchored is anchored anew.
Goes(was, b) ==
    /\ OneTurn(b)
    /\ LaneLive(b) => b.pause = NoPause
    /\ was.pause # NoPause /\ b.pause # NoPause => b.pause = was.pause

\* So stands every board, also while frames are in flight; a page that heard and did
\* nothing has no pause.
PagesSound ==
    \A x \in Panels :
        /\ OneTurn(panel[x].board)
        /\ LaneLive(panel[x].board) \/ ~panel[x].live => panel[x].board.pause = NoPause

LEMMA RestingGoes ==
    ASSUME NEW was, NEW b, ~LaneLive(b), b.pause \in {NoPause, was.pause} \/ was.pause = NoPause
    PROVE  Goes(was, b)
  BY DEF Goes, OneTurn, LaneLive

\* A lane that does not run is put on a board.
LEMMA HeldGoes ==
    ASSUME NEW was \in Boards, OneTurn(was), LaneLive(was) => was.pause = NoPause,
           NEW b \in Boards, NEW l \in Lanes, NEW lane \in LaneStates, lane.phase # "running",
           b.lane = [was.lane EXCEPT ![l] = lane], b.lastRan = was.lastRan,
           Runs(was, l) \/ b.pause = was.pause
    PROVE  Goes(was, b)
<1>1. \A k \in Lanes : Runs(b, k) => k # l /\ Runs(was, k)
  BY BoardParts DEF Runs
<1>2. OneTurn(b)
  BY <1>1, LanesAre DEF OneTurn
<1>3. LaneLive(b) => LaneLive(was) /\ ~Runs(was, l)
  BY <1>1, LanesAre DEF OneTurn, LaneLive
<1>4. Runs(was, l) => was.pause = NoPause
  BY DEF LaneLive
<1> QED  BY <1>2, <1>3, <1>4 DEF Goes

LEMMA PressGoes ==
    ASSUME TypeOK, PagesSound, NEW p \in Panels, Presses(p)
    PROVE  \E mode \in Modes : \E b \in Boards : \E frames \in SUBSET CountFrames :
             Event(p, mode, b, frames) /\ Goes(panel[p].board, b)
<1> DEFINE was == panel[p].board
<1>1. was \in Boards /\ panel[p].mode \in Modes /\ now \in Nat /\ was.lane \in [Lanes -> LaneStates]
  BY PageParts, BoardParts DEF TypeOK
<1>2. OneTurn(was) /\ (LaneLive(was) => was.pause = NoPause)
  BY DEF PagesSound
<1> DEFINE E(mode, b, frames) == Event(p, mode, b, frames)
<1>3. \A mode, b, frames : E(mode, b, frames) =>
         b \in Boards /\ mode \in Modes /\ frames \in SUBSET CountFrames
  BY DEF Event
<1>4. ASSUME NEW mode, NEW b, NEW frames, E(mode, b, frames), Goes(was, b)
      PROVE  \E m \in Modes : \E c \in Boards : \E fs \in SUBSET CountFrames :
               E(m, c, fs) /\ Goes(was, c)
  BY <1>3, <1>4
<1> SUFFICES \E m \in Modes : \E c \in Boards : \E fs \in SUBSET CountFrames :
               E(m, c, fs) /\ Goes(was, c)
  OBVIOUS
<1>5. ASSUME NEW l \in Lanes, StartLane(p, l)
      PROVE  \E m \in Modes : \E c \in Boards : \E fs \in SUBSET CountFrames :
               E(m, c, fs) /\ Goes(was, c)
  <2> DEFINE b == Start(was, l, now)
  <2>1. E(panel[p].mode, b, {StartFrame(l, b)})
    BY <1>5, StartIsAnEvent
  <2>2. was.lane[l].budget \in Nat
    BY <1>1, LaneParts
  <2>3. ~Runs(was, Other(l))
    BY <1>5 DEF StartLane, CanStart
  <2>4. b = BeginTurn(was, l, was.lane[l].budget, now)
    BY DEF Start
  <2> HIDE DEF b, was
  <2>5. /\ b.lane = [was.lane EXCEPT ![l] = Lane("running", was.lane[l].budget, was.lane[l].armed, now, 0,
                                                 was.lane[l].left)]
        /\ b.pause = NoPause /\ b.lastRan = l
    BY <1>1, <2>2, <2>4, BeginTurnGives
  <2>6. \A k \in Lanes : Runs(b, k) => k = l
    BY <1>1, <2>5, <2>3, LanesAre DEF Runs
  <2>7. Goes(was, b)
    BY <2>5, <2>6, LanesAre DEF Goes, OneTurn
  <2> QED  BY <1>4, <2>1, <2>7
<1>6. ASSUME NEW l \in Lanes, StopLane(p, l)
      PROVE  \E m \in Modes : \E c \in Boards : \E fs \in SUBSET CountFrames :
               E(m, c, fs) /\ Goes(was, c)
  <2> DEFINE b == Stop(was, l, now)
             lane == StoppedLane(Remaining(was.lane[l], now), was.lane[l])
  <2>1. E(panel[p].mode, b, {StopFrame(l, b)})
    BY <1>6, StopIsAnEvent
  <2>2. Remaining(was.lane[l], now) \in Nat
    BY <1>1, RemainingIsNat
  <2>3. b \in Boards /\ b.lane = [was.lane EXCEPT ![l] = lane] /\ b.lastRan = was.lastRan
    BY <1>1, <2>2, EndTurnGives DEF Stop
  <2>4. Runs(was, l)
    BY <1>6 DEF StopLane, Underway
  <2>5. lane \in LaneStates /\ lane.phase # "running"
    BY <1>1, <2>2, StoppedLaneIsALaneState DEF StoppedLane, Finished, Idle, Lane
  <2> HIDE DEF b, was, lane
  <2> QED  BY <1>1, <1>2, <1>4, <2>1, <2>3, <2>4, <2>5, HeldGoes
<1>7. ASSUME NEW l \in Lanes, TakeABreak(p, l)
      PROVE  \E m \in Modes : \E c \in Boards : \E fs \in SUBSET CountFrames :
               E(m, c, fs) /\ Goes(was, c)
  <2> DEFINE b == TakeBreak(was, l, now)
             lane == Lane("onBreak", Remaining(was.lane[l], now), was.lane[l].armed, now, BreakMs,
                          was.lane[l].left - 1)
  <2>1. E(panel[p].mode, b, {BreakFrame(l, b)})
    BY <1>7, BreakIsAnEvent
  <2>2. was.lane[l].left > 0
    BY <1>7 DEF TakeABreak, CanTakeBreak
  <2> HIDE DEF was
  <2>3. b \in Boards /\ b.lane = [was.lane EXCEPT ![l] = lane] /\ b.lastRan = was.lastRan
        /\ b.pause = was.pause
    BY <1>1, <2>2, TakeBreakGives, ZenonT(40)
  <2>4. lane \in LaneStates /\ lane.phase # "running"
    <3>1. Remaining(was.lane[l], now) \in Nat /\ was.lane[l].armed \in Nat /\ was.lane[l].left - 1 \in Nat
      BY <1>1, <2>2, RemainingIsNat, LaneParts
    <3> QED  BY <1>1, <3>1, LaneIsALaneState, BreakMsAssumption DEF Lane, Phases
  <2> HIDE DEF b, was, lane
  <2> QED  BY <1>1, <1>2, <1>4, <2>1, <2>3, <2>4, HeldGoes
<1>8. ASSUME NEW l \in Lanes, Reset(p, l)
      PROVE  \E m \in Modes : \E c \in Boards : \E fs \in SUBSET CountFrames :
               E(m, c, fs) /\ Goes(was, c)
  <2> DEFINE b == ResetLane(was, l, was.lane[l].armed)
  <2>1. E(panel[p].mode, b, {ResetFrame(l, b)})
    BY <1>8, ResetIsAnEvent
  <2>2. was.lane[l].armed \in Nat
    BY <1>1, LaneParts
  <2>3. /\ b.lane = [was.lane EXCEPT ![l] = Idle(was.lane[l].armed, was.lane[l].armed, MaxBreaks)]
        /\ b.pause = NoPause
    BY <1>1, <2>2, ResetLaneGives
  <2>4. ~LaneLive(b)
    BY <1>8, ResetRests
  <2> HIDE DEF b, was
  <2> QED  BY <1>4, <2>1, <2>3, <2>4, RestingGoes
<1>9. ASSUME ResetRecorded(p)
      PROVE  \E m \in Modes : \E c \in Boards : \E fs \in SUBSET CountFrames :
               E(m, c, fs) /\ Goes(was, c)
  <2> DEFINE lanes == Recorded(panel[p].mode)
             b == Cleared(was, lanes)
  <2>1. E(panel[p].mode, b, {ResetFrame(l, b) : l \in lanes})
    BY <1>9, ClearIsAnEvent
  <2>2. b.pause = NoPause
    BY <1>1, ClearedGives
  <2>3. ~LaneLive(b)
    BY <1>9, ClearRests
  <2> DEFINE G == {ResetFrame(l, b) : l \in lanes}
  <2> HIDE DEF b, was, lanes
  <2>4. E(panel[p].mode, b, G)
    BY <2>1
  <2> HIDE DEF G, E
  <2> QED  BY <1>4, <2>2, <2>3, <2>4, RestingGoes
<1>10. ASSUME ApplyRunBudget(p) \/ ApplyMode(p)
       PROVE  \E m \in Modes : \E c \in Boards : \E fs \in SUBSET CountFrames :
                E(m, c, fs) /\ Goes(was, c)
  <2>1. PICK mode \in Modes : \E budget \in Nat : Format(p, mode, budget)
    BY <1>10, FormatsAre
  <2>2. PICK budget \in Nat : Format(p, mode, budget)
    BY <2>1
  <2> DEFINE b == SetBudgets(was, budget)
             G == {ResetFrame(l, b) : l \in ReArmed(was)}
  <2>3. E(mode, b, G)
    BY <2>2, FormatIsAnEvent
  <2>4. ~LaneLive(b) /\ ReArmed(was) # {}
    BY <2>2, FormatRests
  <2>5. b.pause = NoPause
    BY <1>1, <2>4, SetBudgetsGives
  <2> HIDE DEF b, was, G, E
  <2> QED  BY <1>4, <2>3, <2>4, <2>5, RestingGoes
<1> QED  BY <1>5, <1>6, <1>7, <1>8, <1>9, <1>10 DEF Presses

LEMMA CrossingGoes ==
    ASSUME TypeOK, PagesSound, NEW p \in Panels, NEW l \in Lanes, NEW b \in Boards, NEW f \in CountFrames,
           Crossing(p, l, b, f)
    PROVE  Goes(panel[p].board, b)
<1> DEFINE was == panel[p].board
<1>1. was \in Boards /\ was.lane[l] \in LaneStates
  BY PageParts, BoardParts DEF TypeOK
<1>2. OneTurn(was) /\ (LaneLive(was) => was.pause = NoPause)
  BY DEF PagesSound
<1>3. /\ was.lane[l].phase \in {"running", "onBreak"}
      /\ b.lane = [was.lane EXCEPT ![l] = Spent(was.lane[l])]
      /\ b.lastRan = was.lastRan
      /\ was.lane[l].phase = "onBreak" => b.pause = was.pause
  BY DEF Crossing
<1>4. Spent(was.lane[l]) \in LaneStates /\ Spent(was.lane[l]).phase # "running"
  BY <1>1, SpentIsALaneState, SpentRests
<1> HIDE DEF was
<1>5. Runs(was, l) \/ b.pause = was.pause
  BY <1>3 DEF Runs
<1>6. Goes(was, b)
  BY <1>1, <1>2, <1>3, <1>4, <1>5, HeldGoes
<1> QED  BY <1>6 DEF was

LEMMA MirrorGoes ==
    ASSUME TypeOK, PagesFit, PagesSound, NEW w \in Rooms, Room(w), NEW p \in Panels, NEW m \in net,
           NEW sent \in SUBSET Frames, Delivers(p, m, sent), m.frame.kind \in Countdowns
    PROVE  Goes(panel[p].board, panel'[p].board)
<1> DEFINE was == panel[p].board
           f == m.frame
           b == Mirrored(was, f)
           lane == Lands(f, was.lane[f.lane])
<1>1. /\ was \in Boards /\ now \in Nat /\ \A l \in Lanes : was.lane[l] \in LaneStates
      /\ \A l \in Lanes : w.c[l] \in LaneStates /\ w.d[l] \in LaneStates
  BY PageParts, BoardParts DEF TypeOK, Rooms, RowSet
<1>2. OneTurn(was) /\ (LaneLive(was) => was.pause = NoPause)
  BY DEF PagesSound
<1>3. f \in CountFrames /\ panel[p].link /\ m.to = p
  BY FrameKinds, DeliversGives
<1>4. panel'[p].board = b
  BY FrameKinds DEF Delivers, MirrorsIt, Countdowns
<1>5. f.kind \in Countdowns /\ f.lane \in Lanes
  BY <1>3, CountFrameParts
<1> HIDE DEF was, f
<1>6. /\ b \in Boards
      /\ b.lane = [was.lane EXCEPT ![f.lane] = Lands(f, was.lane[f.lane])]
      /\ b.lastRan = IF f.kind = "start" THEN f.lane ELSE IF f.kind = "reset" THEN 0 ELSE was.lastRan
      /\ f.kind \in {"start", "reset"} => b.pause = NoPause
      /\ f.kind \in {"break", "breakEnd"} => b.pause = was.pause
      /\ f.kind = "stop" /\ ~Runs(was, f.lane) => b.pause = was.pause
  BY <1>1, <1>3, MirroredGives
<1>7. lane \in LaneStates
  BY <1>1, <1>3, <1>5, LandsIsALaneState
<1>8. f.kind \in {"start", "reset"} => ~Runs(was, Other(f.lane))
  <2>1. FramesFit(w) /\ LanesFit(w)
    BY DEF Room
  <2>2. CASE f.kind \in {"start", "reset"}
    <3>1. /\ w.joiner = 0 /\ w.c[Other(f.lane)].phase # "running" /\ w.d[Other(f.lane)].phase # "running"
      BY <1>5, <2>1, <2>2 DEF FramesFit, f
    <3>2. p # w.joiner /\ Other(f.lane) \in Lanes
      BY <1>5, <3>1, LanesAre, PanelsAssumption
    <3>3. \/ Alike(was.lane[Other(f.lane)], w.c[Other(f.lane)], now)
          \/ Alike(was.lane[Other(f.lane)], w.d[Other(f.lane)], now)
      BY <1>3, <2>1, <3>2 DEF LanesFit, was
    <3> QED  BY <1>1, <3>1, <3>2, <3>3, AlikeMeans DEF Runs
  <2> QED  BY <2>2
<1>9. CASE f.kind \in {"start", "reset"}
  <2>1. \A k \in Lanes : Runs(b, k) => k = f.lane
    BY <1>1, <1>5, <1>6, <1>8, <1>9, LanesAre, BoardParts DEF Runs
  <2>2. f.kind = "reset" => ~Runs(b, f.lane)
    <3>1. f.kind = "reset" => lane.phase = "idle"
      BY DEF Lands, Idle, Lane
    <3> QED  BY <1>1, <1>5, <1>6, <3>1, BoardParts DEF Runs
  <2>3. OneTurn(b)
    BY <1>5, <1>6, <1>9, <2>1, <2>2, LanesAre DEF OneTurn
  <2> HIDE DEF b
  <2>4. Goes(was, b)
    BY <1>6, <1>9, <2>3 DEF Goes
  <2> QED  BY <1>4, <2>4 DEF was
<1>10. CASE f.kind \in {"stop", "break", "breakEnd"}
  <2>1. CASE lane.phase # "running"
    <3>1. Runs(was, f.lane) \/ b.pause = was.pause
      BY <1>6, <1>10
    <3>2. b.lastRan = was.lastRan
      BY <1>6, <1>10
    <3> HIDE DEF b, lane
    <3>3. b.lane = [was.lane EXCEPT ![f.lane] = lane]
      BY <1>6 DEF lane
    <3>4. Goes(was, b)
      BY <1>1, <1>2, <1>5, <1>6, <1>7, <2>1, <3>1, <3>2, <3>3, HeldGoes
    <3> QED  BY <1>4, <3>4 DEF was
  <2>2. CASE lane.phase = "running"
    <3>1. f.kind = "breakEnd" /\ lane = was.lane[f.lane]
      BY <1>10, <2>2 DEF Lands, StoppedLane, Finished, Idle, Lane
    <3>2. b.pause = was.pause /\ b.lastRan = was.lastRan
      BY <1>6, <3>1
    <3>3. \A k \in Lanes : b.lane[k] = was.lane[k]
      BY <1>1, <1>5, <1>6, <3>1, BoardParts
    <3> HIDE DEF b, lane
    <3>4. Goes(was, b)
      BY <1>2, <3>2, <3>3, LanesAre DEF Goes, OneTurn, LaneLive, Runs
    <3> QED  BY <1>4, <3>4 DEF was
  <2> QED  BY <2>1, <2>2
<1> QED  BY <1>5, <1>9, <1>10 DEF Countdowns

\* The hint moves no lane and no pause, and nothing at all during a turn.
LEMMA HintGoes ==
    ASSUME TypeOK, PagesSound, NEW p \in Panels, NEW m \in net,
           NEW sent \in SUBSET Frames, Delivers(p, m, sent), m.frame.kind = "selection"
    PROVE  Goes(panel[p].board, panel'[p].board) /\ panel'[p].board.pause = panel[p].board.pause
<1> DEFINE was == panel[p].board
           f == m.frame
           hinted == PeerHint(was, f.view.nextUp, f.view.mode)
<1>1. was \in Boards
  BY PageParts DEF TypeOK
<1>2. OneTurn(was) /\ (LaneLive(was) => was.pause = NoPause)
  BY DEF PagesSound
<1>3. f \in SelectionFrames /\ panel'[p].board \in {was, hinted}
  BY FrameKinds DEF Delivers, FollowsIt, Countdowns
<1>4. f.view.nextUp \in Lanes \union {0}
  BY <1>3 DEF SelectionFrames, Views
<1> HIDE DEF was, f
<1>5. /\ hinted.lane = was.lane /\ hinted.pause = was.pause
      /\ LaneLive(was) => hinted.lastRan = was.lastRan
  BY <1>1, <1>4, PeerHintGives
<1> HIDE DEF hinted
<1>6. Goes(was, was)
  BY <1>2 DEF Goes
<1>7. Goes(was, hinted)
  BY <1>2, <1>5 DEF Goes, OneTurn, LaneLive, Runs
<1> QED  BY <1>3, <1>5, <1>6, <1>7 DEF was

\* Lanes a mode allows leave the board they are put on sound.
LEMMA FittingGoes ==
    ASSUME NEW was, NEW b, NEW mode, Fitting(mode, b.lane), was.pause = NoPause, b.pause = NoPause,
           LaneLive(b) => b.lastRan = IF Runs(b, 1) THEN 1 ELSE 2
    PROVE  Goes(was, b)
<1>1. \A l \in Lanes : Runs(b, l) => ~Runs(b, Other(l))
  BY DEF Fitting, Runs
<1>2. OneTurn(b)
  BY <1>1, LanesAre DEF OneTurn, LaneLive, Other
<1> QED  BY <1>2 DEF Goes

LEMMA HydrationGoes ==
    ASSUME TypeOK, PagesSound, NEW w \in Rooms, Room(w), NEW p \in Panels, NEW m \in net,
           NEW sent \in SUBSET Frames, Delivers(p, m, sent), m.frame.kind = "snapshot"
    PROVE  /\ Goes(panel[p].board, panel'[p].board)
           /\ panel'[p].board.pause = panel[p].board.pause
<1> DEFINE was == panel[p].board
           rows == m.frame.rows
           lanes == [l \in Lanes |-> LaneFromSnapshot(rows[l])]
           b == PeerSnapshot(was, rows)
<1>1. was \in Boards /\ w.c \in RowSet
  BY PageParts DEF TypeOK, Rooms
<1>2. /\ OneTurn(was) /\ (LaneLive(was) => was.pause = NoPause)
      /\ ~panel[p].live => was.pause = NoPause
  BY DEF PagesSound
<1>3. rows \in RowSet /\ panel'[p].board = IF panel[p].live THEN was ELSE b
  BY FrameKinds DEF Delivers, HydratesIt, Countdowns, SnapshotFrames
<1>4. Shows(lanes, w.c)
  BY DEF Room, JoinFits
<1>5. lanes \in RowSet
  BY <1>3, HydratedLaneIsALaneState DEF RowSet
<1>6. Fitting(w.mode, w.c)
  BY DEF Room, ClocksFit
<1>7. Fitting(w.mode, lanes)
  BY <1>1, <1>4, <1>5, <1>6, FittingAlike
<1> HIDE DEF was, rows
<1>8. /\ b.lane = lanes /\ b.pause = was.pause
      /\ LaneLive(b) => b.lastRan = IF Runs(b, 1) THEN 1 ELSE 2
  <2>1. /\ b.lane = [l \in Lanes |-> LaneFromSnapshot(rows[l])] /\ b.pause = was.pause
        /\ b.lastRan = IF LaneLive(b) THEN IF Runs(b, 1) THEN 1 ELSE 2 ELSE was.lastRan
    BY <1>1, <1>3, PeerSnapshotGives
  <2> QED  BY <2>1
<1> HIDE DEF b
<1>9. Goes(was, was)
  BY <1>2 DEF Goes
<1>10. ~panel[p].live => Goes(was, b)
  BY <1>2, <1>7, <1>8, FittingGoes
<1> QED  BY <1>3, <1>8, <1>9, <1>10 DEF was

\* What a step does to a page's board.
PageGoes(p) ==
    /\ Goes(panel[p].board, panel'[p].board)
    /\ ~panel'[p].live => panel'[p].board.pause = NoPause

LEMMA PagesGo ==
    ASSUME Patient, RoomInv, PagesSound, [Next]_vars, NEW x \in Panels
    PROVE  PageGoes(x)
<1>1. TypeOK /\ PagesFit /\ SoloFits
  BY DEF RoomInv
<1>2. PICK w \in Rooms : Room(w)
  BY DEF RoomInv, RoomHolds
<1>3. OneTurn(panel[x].board) /\ (LaneLive(panel[x].board) \/ ~panel[x].live => panel[x].board.pause = NoPause)
  BY DEF PagesSound
<1>4. ASSUME panel'[x] = panel[x]  PROVE PageGoes(x)
  BY <1>3, <1>4 DEF PageGoes, Goes
<1>5. ASSUME NEW p \in Panels, NEW mode, NEW b, NEW frames, Event(p, mode, b, frames), Goes(panel[p].board, b)
      PROVE  PageGoes(x)
  <2>1. /\ panel'[p].live /\ panel'[p].board = b
        /\ \A q \in Panels \ {p} : panel'[q] = panel[q]
    BY <1>1, <1>5, EventPage
  <2>2. x = p => PageGoes(x)
    BY <1>5, <2>1 DEF PageGoes
  <2> QED  BY <1>4, <2>1, <2>2
<1>6. ASSUME NEW p \in Panels, Presses(p)  PROVE PageGoes(x)
  <2>1. PICK mode \in Modes : \E b \in Boards : \E frames \in SUBSET CountFrames :
          Event(p, mode, b, frames) /\ Goes(panel[p].board, b)
    BY <1>1, <1>6, PressGoes
  <2>2. PICK b \in Boards : \E frames \in SUBSET CountFrames : Event(p, mode, b, frames) /\ Goes(panel[p].board, b)
    BY <2>1
  <2> QED  BY <1>5, <2>2
<1>7. ASSUME NEW p \in Panels, NEW l \in Lanes, Expire(p, l)  PROVE PageGoes(x)
  <2>1. PICK b \in Boards : \E f \in CountFrames : Crossing(p, l, b, f)
    BY <1>1, <1>7, ExpiryCrosses
  <2>2. PICK f \in CountFrames : Crossing(p, l, b, f)
    BY <2>1
  <2>3. Event(p, panel[p].mode, b, {f})
    BY <2>2 DEF Crossing
  <2>4. Goes(panel[p].board, b)
    BY <1>1, <2>2, CrossingGoes
  <2> QED  BY <1>5, <2>3, <2>4
<1>8. ASSUME NEW p \in Panels, Deliver(p)  PROVE PageGoes(x)
  <2>1. PICK m \in net : \E sent \in SUBSET Frames : Delivers(p, m, sent)
    BY <1>1, <1>8, DeliverIs
  <2>2. PICK sent \in SUBSET Frames : Delivers(p, m, sent)
    BY <2>1
  <2>3. \A q \in Panels \ {p} : panel'[q] = panel[q]
    BY <2>2 DEF Delivers
  <2>4. ASSUME x = p  PROVE PageGoes(p)
    <3>1. CASE m.frame.kind \in Countdowns
      <4>1. panel'[p].live
        BY <2>2, <3>1 DEF Delivers, MirrorsIt, Countdowns
      <4>2. Goes(panel[p].board, panel'[p].board)
        BY <1>1, <1>2, <2>2, <3>1, MirrorGoes
      <4> QED  BY <4>1, <4>2 DEF PageGoes
    <3>2. CASE m.frame.kind = "selection"
      <4>1. panel'[p].live = panel[p].live
        BY <2>2, <3>2 DEF Delivers, FollowsIt, Countdowns
      <4>2. Goes(panel[p].board, panel'[p].board) /\ panel'[p].board.pause = panel[p].board.pause
        BY <1>1, <2>2, <3>2, HintGoes
      <4> QED  BY <1>3, <2>4, <4>1, <4>2 DEF PageGoes
    <3>3. CASE m.frame.kind = "snapshot"
      <4>1. panel'[p].live = panel[p].live
        BY <2>2, <3>3 DEF Delivers, HydratesIt, Countdowns
      <4>2. Goes(panel[p].board, panel'[p].board) /\ panel'[p].board.pause = panel[p].board.pause
        BY <1>1, <1>2, <2>2, <3>3, HydrationGoes
      <4> QED  BY <1>3, <2>4, <4>1, <4>2 DEF PageGoes
    <3>4. CASE m.frame.kind = "ask"
      <4>1. panel'[p].live = panel[p].live /\ panel'[p].board = panel[p].board
        BY <2>2, <3>4 DEF Delivers, AnswersIt, Countdowns
      <4> QED  BY <1>3, <2>4, <4>1 DEF PageGoes, Goes
    <3> QED  BY <2>2, <3>1, <3>2, <3>3, <3>4 DEF Delivers
  <2> QED  BY <1>4, <2>3, <2>4
<1>9. ASSUME NEW p \in Panels, Open(p)  PROVE PageGoes(x)
  <2> DEFINE s == [panel[p] EXCEPT !.link = TRUE, !.away = FALSE]
             restored == ~s.offer /\ stored[p] # {}
             claim == Minted(p, s.stamp, FALSE, 0)
  <2>1. /\ s \in Pages
        /\ \A q \in Panels \ {p} : panel'[q] = panel[q]
        /\ panel'[p] = IF restored THEN [s EXCEPT !.stamp = claim] ELSE s
    BY <1>1, <1>9, OpenGives
  <2>2. s.live = panel[p].live /\ s.board = panel[p].board
    BY <1>1 DEF TypeOK, Pages
  <2> HIDE DEF s
  <2>3. panel'[p].live = panel[p].live /\ panel'[p].board = panel[p].board
    BY <2>1, <2>2 DEF Pages
  <2>4. x = p => PageGoes(x)
    BY <1>3, <2>3 DEF PageGoes, Goes
  <2> QED  BY <1>4, <2>1, <2>4
<1>10. ASSUME NEW p \in Panels, Reload(p)  PROVE PageGoes(x)
  <2>1. /\ \A q \in Panels \ {p} : panel'[q] = panel[q]
        /\ panel'[p] = [Page(panel[p].mode) EXCEPT !.away = TRUE]
    BY <1>1, <1>10, ReloadGives
  <2>2. panel'[p].board = InitialBoard(Preset[panel[p].mode])
    BY <2>1 DEF Page
  <2>3. panel'[p].board.pause = NoPause /\ ~LaneLive(panel'[p].board)
    BY <2>2 DEF InitialBoard, LaneLive, Runs, Idle, Lane
  <2>4. x = p => PageGoes(x)
    BY <2>3, RestingGoes DEF PageGoes
  <2> QED  BY <1>4, <2>1, <2>4
<1>11. ASSUME NEW p \in Panels, Restore(p)  PROVE PageGoes(x)
  <2>1. Restores(p)
    BY <1>1, <1>11, RestoreIs
  <2>2. /\ Solo(p) /\ panel[p].offer /\ \A q \in Panels \ {p} : panel'[q] = panel[q]
    BY <2>1 DEF Restores
  <2>3. panel[p].board.pause = NoPause
    BY <1>1, <2>2, OfferedRests
  <2>4. x = p /\ panel'[p].board = panel[p].board => PageGoes(x)
    BY <1>3, <2>3 DEF PageGoes, Goes
  <2>5. ASSUME NEW copy \in stored[p], copy \in Copies, x = p,
               panel'[p].board = Recalled(Heard(panel[p]), copy).board
        PROVE  PageGoes(p)
    <3> DEFINE s == Heard(panel[p])
               b == Recalled(s, copy).board
    <3>1. s \in Pages /\ s.board = panel[p].board
      <4>1. panel[p] \in Pages
        BY <1>1 DEF TypeOK
      <4> QED  BY <4>1 DEF Heard, Pages
    <3>2. Fitting(copy.view.mode, CopyLanes(copy))
      BY <1>1, <2>2, <2>5 DEF SoloFits
    <3>3. panel'[p].board = b
      BY <2>5
    <3> HIDE DEF s
    <3>4. /\ b.lane = [l \in Lanes |-> LaneFromSnapshot(copy.rows[l])]
          /\ b.pause = s.board.pause
          /\ LaneLive(b) => b.lastRan = IF Runs(b, 1) THEN 1 ELSE 2
      BY <2>5, <3>1, RecalledGives
    <3> HIDE DEF b
    <3>5. Goes(panel[p].board, b) /\ b.pause = NoPause
      BY <2>3, <3>1, <3>4, <3>2, FittingGoes DEF CopyLanes
    <3> QED  BY <3>5, <3>3 DEF PageGoes
  <2> QED  BY <1>4, <2>1, <2>2, <2>4, <2>5 DEF Restores
<1>12. ASSUME Tick \/ UNCHANGED vars  PROVE PageGoes(x)
  <2>1. panel'[x] = panel[x]
    BY <1>12 DEF Tick, vars
  <2> QED  BY <1>4, <2>1
<1> QED  BY <1>6, <1>7, <1>8, <1>9, <1>10, <1>11, <1>12 DEF Next, Presses

LEMMA PagesSoundIsKept ==
    ASSUME Patient, RoomInv, PagesSound, [Next]_vars
    PROVE  PagesSound'
  BY PagesGo DEF PagesSound, PageGoes, Goes

LEMMA PagesOpenSound ==
    ASSUME Init
    PROVE  PagesSound
<1> SUFFICES ASSUME NEW x \in Panels
             PROVE  OneTurn(panel[x].board) /\ panel[x].board.pause = NoPause
  BY DEF PagesSound
<1>1. PICK mode \in Modes : panel[x] = Page(mode)
  BY DEF Init
<1>2. panel[x].board = InitialBoard(Preset[mode])
  BY <1>1 DEF Page
<1> QED  BY <1>2 DEF InitialBoard, OneTurn, Runs, Idle, Lane

\* With patient operators no board of the room ever has two turns under way, own, mirrored,
\* hydrated or restored: the lane that runs is the one whose turn began last, and no pause
\* counts meanwhile (the interlock of battleMachine.ts, which no mirrored event has).
THEOREM BoardsStaySound == ASSUME Patient, 0 \notin Drafts PROVE Spec => []PagesSound
<1>1. Init => PagesSound
  BY PagesOpenSound
<1>2. RoomInv /\ PagesSound /\ [Next]_vars => PagesSound'
  BY PagesSoundIsKept
<1> QED  BY <1>1, <1>2, BattleRoomIsOne, PTL DEF Spec

LEMMA PausesStay ==
    ASSUME Patient, RoomInv, PagesSound, [Next]_vars
    PROVE  \A p \in Panels :
             LET before == panel[p].board.pause after == panel'[p].board.pause
             IN  before # NoPause /\ after # NoPause => after = before
  BY PagesGo DEF PageGoes, Goes

\* PauseIsNotReanchored: once anchored a changeover pause is only ever cleared, whoever's
\* stop of the same turn comes in after.
THEOREM PausesAreNotReanchored == ASSUME Patient, 0 \notin Drafts PROVE Spec => PauseIsNotReanchored
<1> DEFINE Stays == \A p \in Panels :
                      LET before == panel[p].board.pause after == panel'[p].board.pause
                      IN  before # NoPause /\ after # NoPause => after = before
<1>1. RoomInv /\ PagesSound /\ [Next]_vars => [Stays]_vars
  BY PausesStay
<1> QED  BY <1>1, BattleRoomIsOne, BoardsStaySound, PTL DEF Spec, PauseIsNotReanchored

-----------------------------------------------------------------------------
(* Whose turn is next.  Only a page that alone ran a lane, mirrored one or *)
(* took a hint has who ran last; what the room needs of it is that all its *)
(* pages start the same lane next, the one that the turns taken leave.     *)

\* The lane that an ADVANCE press starts on these lanes after a turn of lane `last`.
NextOn(lanes, last) ==
    LET lead == IF last = 0 THEN 1 ELSE Other(last)
    IN  IF lanes[lead].phase # "finished" THEN lead
        ELSE IF lanes[Other(lead)].phase # "finished" THEN Other(lead) ELSE 0

\* No lane runs.
Still(lanes) == \A l \in Lanes : lanes[l].phase # "running"

\* Lanes in the same phases.
InStep(lanes, others) == \A l \in Lanes : lanes[l].phase = others[l].phase

\* After a turn of lane `last` the same lane is next as after the one taken last.
Points(lanes, last, turn) == NextOn(lanes, last) = NextOn(lanes, turn)

\* A battle, after a turn and before the next.
Between(mode, lanes, turn) == mode = "battle" /\ turn # 0 /\ Still(lanes)

\* A hint that leaves a board which takes it pointing so; none when nothing is left.
Hints(view, lanes, turn) ==
    view.mode = "battle" =>
        IF view.nextUp = 0 THEN \A l \in Lanes : lanes[l].phase = "finished"
        ELSE Points(lanes, Other(view.nextUp), turn)

\* A page of the room that has heard who ran last: a joiner has, once it holds the
\* room's stamp.
Heeds(w, x) ==
    /\ panel[x].link
    /\ IF x = w.joiner THEN w.seq # 0 /\ panel[x].stamp.seq = w.seq ELSE ~panel[x].offer

\* The stop of the lane on turn, which ran on the pages it has not come to.
Stops(w, f) == f.kind = "stop" /\ f.lane = truth.turn /\ w.d[truth.turn].phase = "running"

\* The lane that runs is the one on turn.  Between two turns the stop of the last is the
\* only event in flight, and the room and its hints point at the lane to come.
TurnFits(w) ==
    /\ \A l \in Lanes : w.c[l].phase = "running" => truth.turn = l
    /\ net # {} => \A x \in Panels : panel[x].link /\ x # w.joiner => ~panel[x].offer
    /\ Between(w.mode, w.c, truth.turn) =>
         /\ \A m \in net : m.frame.kind \in Countdowns => Stops(w, m.frame)
         /\ \A x \in Panels : Heeds(w, x) => Points(w.c, panel[x].board.lastRan, truth.turn)
         /\ \A m \in net : m.frame.kind = "selection" => Hints(m.frame.view, w.c, truth.turn)

\* The lane that runs is on turn, and its turn counts once its clock has moved.
Marks(lanes, past) ==
    \A l \in Lanes : lanes[l].phase = "running" =>
        past.turn = l /\ (now > lanes[l].at => past.ran[l] > 0)

\* Lanes that mark the turn, and a board of theirs that points at the lane to come.
Turns(mode, b, past) ==
    /\ Marks(b.lane, past)
    /\ Between(mode, b.lane, past.turn) => Points(b.lane, b.lastRan, past.turn)

\* Copies that do so when they come back.
Recalls(copies, past) ==
    \A copy \in copies :
        /\ Marks(CopyLanes(copy), past)
        /\ Between(copy.view.mode, CopyLanes(copy), past.turn) =>
             Hints(copy.view, CopyLanes(copy), past.turn)

\* The turn last taken counts.
TurnCounts(past) == past.turn # 0 => past.turn \in past.on \/ past.ran[past.turn] > 0

\* A page alone, and its copy.
SoloTurns ==
    \A p \in Panels : Solo(p) =>
        /\ TurnCounts(truth)
        /\ ~panel[p].offer => Turns(panel[p].mode, panel[p].board, truth)
        /\ Recalls(stored[p], truth)

TurnHolds == \E v \in Rooms : Room(v) /\ TruthFits(v) /\ TurnFits(v)
TurnInv == RoomInv /\ PagesSound /\ SoloTurns /\ TurnHolds

LEMMA AdvanceIs ==
    ASSUME NEW b
    PROVE  AdvanceTarget(b) = NextOn(b.lane, b.lastRan)
  BY DEF AdvanceTarget, NextOn

\* The next lane, taken for the one that has not run, is next again.
LEMMA NextOnParts ==
    ASSUME NEW lanes, NEW last \in Lanes \union {0}
    PROVE  /\ NextOn(lanes, last) \in Lanes \union {0}
           /\ NextOn(lanes, last) # 0 => NextOn(lanes, Other(NextOn(lanes, last))) = NextOn(lanes, last)
           /\ NextOn(lanes, last) = 0 <=> \A l \in Lanes : lanes[l].phase = "finished"
<1> DEFINE spent(l) == lanes[l].phase = "finished"
<1>1. last \in {0, 1, 2} /\ Other(1) = 2 /\ Other(2) = 1 /\ Lanes = {1, 2}
  BY LanesAre DEF Other
<1>2. ASSUME NEW k \in {0, 1, 2}
      PROVE  NextOn(lanes, k) = IF k = 1 THEN IF ~spent(2) THEN 2 ELSE IF ~spent(1) THEN 1 ELSE 0
                                ELSE IF ~spent(1) THEN 1 ELSE IF ~spent(2) THEN 2 ELSE 0
  BY <1>1, <1>2 DEF NextOn
<1> HIDE DEF spent
<1>3. NextOn(lanes, last) = 0 <=> spent(1) /\ spent(2)
  BY <1>1, <1>2
<1>4. NextOn(lanes, last) \in {0, 1, 2}
  BY <1>1, <1>2
<1>5. NextOn(lanes, last) = 1 => NextOn(lanes, Other(1)) = 1
  BY <1>1, <1>2
<1>6. NextOn(lanes, last) = 2 => NextOn(lanes, Other(2)) = 2
  BY <1>1, <1>2
<1> QED  BY <1>1, <1>3, <1>4, <1>5, <1>6 DEF spent

\* Once a lane is spent it makes no odds who ran last.
LEMMA SpentPoints ==
    ASSUME NEW lanes, NEW l \in Lanes, lanes[l].phase = "finished",
           NEW last \in Lanes \union {0}, NEW turn \in Lanes \union {0}
    PROVE  Points(lanes, last, turn)
<1>1. last \in {0, 1, 2} /\ turn \in {0, 1, 2} /\ Other(1) = 2 /\ Other(2) = 1 /\ l \in {1, 2}
  BY LanesAre DEF Other
<1> QED  BY <1>1 DEF Points, NextOn

LEMMA NextInStep ==
    ASSUME NEW lanes, NEW others, InStep(lanes, others), NEW last \in Lanes \union {0}
    PROVE  NextOn(lanes, last) = NextOn(others, last)
<1>1. last \in {0, 1, 2} /\ Other(1) = 2 /\ Other(2) = 1 /\ Lanes = {1, 2}
  BY LanesAre DEF Other
<1> QED  BY <1>1 DEF NextOn, InStep

LEMMA ShowsInStep ==
    ASSUME TypeOK, NEW lanes \in RowSet, NEW others \in RowSet, Shows(lanes, others)
    PROVE  InStep(lanes, others)
<1>1. now \in Nat
  BY DEF TypeOK
<1> QED  BY <1>1, AlikeMeans DEF Shows, InStep, RowSet

\* A page that points right hints right.
LEMMA ViewHints ==
    ASSUME NEW s \in Pages, NEW lanes, InStep(s.board.lane, lanes), Still(lanes),
           NEW turn \in Lanes \union {0}, Points(lanes, s.board.lastRan, turn)
    PROVE  Hints(View(s), lanes, turn)
<1> SUFFICES ASSUME View(s).mode = "battle"
             PROVE  IF View(s).nextUp = 0 THEN \A l \in Lanes : lanes[l].phase = "finished"
                    ELSE Points(lanes, Other(View(s).nextUp), turn)
  BY DEF Hints
<1>1. s.mode = "battle" /\ ~LaneLive(s.board)
  BY DEF View, InStep, Still, LaneLive, Runs
<1>2. s.board.lastRan \in Lanes \union {0}
  BY PageParts, BoardParts
<1>3. View(s).nextUp = NextOn(lanes, s.board.lastRan)
  <2>1. View(s).nextUp = AdvanceTarget(s.board)
    BY <1>1 DEF View
  <2> QED  BY <1>2, <2>1, AdvanceIs, NextInStep
<1> QED  BY <1>2, <1>3, NextOnParts DEF Points

\* A quiet room points at the lane to come.
LEMMA TurnRests ==
    ASSUME TypeOK, NEW w \in Rooms, Room(w), TurnFits(w), net = {}, NEW x \in Panels, panel[x].link,
           ~panel[x].offer, Between(w.mode, w.c, truth.turn)
    PROVE  Points(w.c, panel[x].board.lastRan, truth.turn)
<1>1. CASE x # w.joiner
  BY <1>1 DEF TurnFits, Heeds
<1>2. CASE x = w.joiner
  <2>1. w.joiner # 0
    BY <1>2, PanelsAssumption
  <2>2. PICK y \in Panels : y # w.joiner /\ panel[y].link
    BY <2>1 DEF Room, JoinFits
  <2>3. panel[x].stamp.seq = w.seq /\ w.seq # 0
    BY <1>2, <2>2, RoomRests
  <2> QED  BY <1>2, <2>3 DEF TurnFits, Heeds
<1> QED  BY <1>1, <1>2

LEMMA QuietTurnsAlternate ==
    ASSUME TypeOK, NEW w \in Rooms, Room(w), TurnFits(w)
    PROVE  TurnsAlternate
<1> SUFFICES ASSUME net = {}, truth.turn # 0, NEW p \in Joined, panel[p].mode = "battle",
                    ~LaneLive(panel[p].board)
             PROVE  AdvanceTarget(panel[p].board)
                      = AdvanceTarget([panel[p].board EXCEPT !.lastRan = truth.turn])
  BY DEF TurnsAlternate, Landed
<1> DEFINE b == panel[p].board
           c == [b EXCEPT !.lastRan = truth.turn]
<1>1. b \in Boards /\ b.lane \in RowSet /\ b.lastRan \in Lanes \union {0} /\ w.c \in RowSet
  BY PageParts, BoardParts DEF TypeOK, Joined, Rooms, RowSet
<1>2. truth.turn \in Lanes \union {0}
  BY DEF TypeOK
<1>3. c.lane = b.lane /\ c.lastRan = truth.turn
  BY <1>1 DEF Boards
<1>4. Shows(b.lane, w.c) /\ w.mode = "battle"
  BY RoomRests DEF Joined
<1>5. InStep(b.lane, w.c)
  BY <1>1, <1>4, ShowsInStep
<1>6. Between(w.mode, w.c, truth.turn)
  BY <1>4, <1>5 DEF Between, Still, InStep, LaneLive, Runs
<1>7. Points(w.c, b.lastRan, truth.turn)
  BY <1>6, TurnRests DEF Joined
<1>8. NextOn(b.lane, b.lastRan) = NextOn(b.lane, truth.turn)
  <2> HIDE DEF b
  <2> QED  BY <1>1, <1>2, <1>5, <1>7, NextInStep DEF Points
<1> HIDE DEF c
<1>9. AdvanceTarget(b) = AdvanceTarget(c)
  BY <1>3, <1>8, AdvanceIs
<1> QED  BY <1>9 DEF c

\* What an event leaves of the page and in flight.
LEMMA ActSends ==
    ASSUME TypeOK, NEW p \in Panels, NEW mode, NEW b, NEW frames, Event(p, mode, b, frames)
    PROVE  \E s \in Pages :
             /\ s.mode = mode /\ s.board = b /\ stored'[p] = Copy(s)
             /\ \A m \in net' : \/ m \in net
                                \/ m.frame \in frames
                                \/ m.frame.kind = "selection" /\ m.frame.view = View(s)
<1> DEFINE s == [panel[p] EXCEPT !.mode = mode, !.board = b]
           claim == Minted(p, panel[p].stamp, TRUE, 0)
<1>1. /\ s \in Pages
      /\ panel'[p].link = panel[p].link /\ panel'[p].away = panel[p].away
      /\ panel'[p].live /\ ~panel'[p].offer
      /\ panel'[p].mode = mode /\ panel'[p].board = b
      /\ \A q \in Panels \ {p} : panel'[q] = panel[q] /\ stored'[q] = stored[q]
      /\ stored'[p] = Copy(s)
      /\ now' = now
      /\ \/ /\ panel'[p].stamp = claim
            /\ net' = net \union Fanout(p, frames \union {SelectionFrame(claim, s)})
         \/ /\ panel'[p].stamp = panel[p].stamp /\ mode = panel[p].mode
            /\ View(s) = View(panel[p])
            /\ net' = net \union Fanout(p, frames)
  BY EventGives, ZenonT(40)
<1>2. s.mode = mode /\ s.board = b
  BY DEF TypeOK, Pages
<1> HIDE DEF s, claim
<1>3. SelectionFrame(claim, s).kind = "selection" /\ SelectionFrame(claim, s).view = View(s)
  BY AnswerIs
<1>4. ASSUME NEW m \in net'
      PROVE  m \in net \/ m.frame \in frames \/ (m.frame.kind = "selection" /\ m.frame.view = View(s))
  BY <1>1, <1>3, FanoutIs
<1> QED  BY <1>1, <1>2, <1>4

LEMMA ActsTurns ==
    ASSUME TypeOK, PagesFit, PagesSound, NEW w \in Rooms, Room(w), TurnFits(w), NEW p \in Panels,
           NEW mode, NEW b, NEW frames, Acts(p, mode, b, frames), NEW v \in Rooms, Acted(v, p, mode, b)
    PROVE  TurnFits(v)'
<1> DEFINE was == panel[p].board
<1>1. /\ net = {} /\ panel[p].link /\ Event(p, mode, b, frames) /\ Steers(p, mode, b, frames)
      /\ v.c = b.lane /\ v.d = was.lane /\ v.mode = mode /\ v.joiner = 0
  BY DEF Acts, Stirs, Acted
<1>2. /\ ~panel'[p].offer /\ panel'[p].board = b
      /\ panel'[p].link = panel[p].link
      /\ \A q \in Panels \ {p} : panel'[q] = panel[q]
  <2>1. Event(p, mode, b, frames)
    BY <1>1
  <2> HIDE DEF was
  <2> QED  BY <2>1, EventPage, ZenonT(40)
<1>3. PICK s \in Pages :
        /\ s.mode = mode /\ s.board = b
        /\ \A m \in net' : \/ m \in net
                           \/ m.frame \in frames
                           \/ m.frame.kind = "selection" /\ m.frame.view = View(s)
  BY <1>1, ActSends
<1>4. ASSUME NEW x \in Panels, panel[x].link  PROVE InStep(panel[x].board.lane, w.c)
  <2>1. Shows(panel[x].board.lane, w.c)
    BY <1>1, <1>4, RoomRests
  <2>2. panel[x].board.lane \in RowSet /\ w.c \in RowSet
    BY PageParts, BoardParts DEF TypeOK, Rooms, RowSet
  <2> QED  BY <2>1, <2>2, ShowsInStep
<1>5. ASSUME NEW l \in Lanes, Runs(was, l)  PROVE truth.turn = l
  BY <1>1, <1>4, <1>5 DEF TurnFits, InStep, Runs
<1>6. truth \in Truths /\ \A l \in Lanes : OffTurn(l).turn = truth.turn
  BY GroundIs DEF Truths, OffTurn
<1>7. \A l \in Lanes : Runs(b, l) => truth'.turn = l
  <2> HIDE DEF was
  <2>1. CASE ~LaneLive(b)
    BY <2>1 DEF LaneLive
  <2>2. CASE \E l \in Lanes : truth'.turn = l /\ \A k \in Lanes : Runs(b, k) => k = l
    BY <2>2
  <2>3. CASE truth' = truth /\ \A k \in Lanes : Runs(b, k) => Runs(was, k)
    BY <1>5, <2>3
  <2> QED  BY <1>1, <2>1, <2>2, <2>3 DEF Steers, was
<1>8. \A x \in Panels : panel'[x].link /\ x # v.joiner => ~panel'[x].offer
  <2>1. \A x \in Panels : ~Asking(x) /\ ~Expects(x)
    BY <1>1 DEF Asking, Expects
  <2> QED  BY <1>1, <1>2, <2>1 DEF PagesFit
<1>9. ASSUME Between(mode, b.lane, truth'.turn)
      PROVE  /\ \A m \in net' : m.frame.kind \in Countdowns => Stops(v, m.frame)'
             /\ \A x \in Panels : Heeds(v, x)' => Points(b.lane, panel'[x].board.lastRan, truth'.turn)
             /\ \A m \in net' : m.frame.kind = "selection" => Hints(m.frame.view, b.lane, truth'.turn)
  <2>1. PICK l \in Lanes :
          /\ truth' = OffTurn(l) /\ Runs(was, l) /\ b.lastRan = was.lastRan
          /\ \A f \in frames : f.kind = "stop" /\ f.lane = l
    BY <1>1, <1>9 DEF Steers, Between, Still, Runs, LaneLive
  <2>2. truth.turn = l /\ truth'.turn = l
    BY <1>5, <1>6, <2>1
  <2>3. \A x \in Panels : panel[x].link => panel[x].board.lastRan = l
    <3> SUFFICES ASSUME NEW x \in Panels, panel[x].link  PROVE panel[x].board.lastRan = l
      OBVIOUS
    <3>1. Runs(panel[x].board, l)
      BY <1>1, <1>4, <2>1 DEF InStep, Runs
    <3> QED  BY <3>1 DEF PagesSound, OneTurn
  <2>4. \A x \in Panels : panel'[x].link => panel'[x].board.lastRan = l
    BY <1>1, <1>2, <2>1, <2>3
  <2>5. \A x \in Panels : Heeds(v, x)' => Points(b.lane, panel'[x].board.lastRan, truth'.turn)
    BY <2>2, <2>4 DEF Heeds, Points
  <2>6. Hints(View(s), b.lane, l)
    <3>1. InStep(s.board.lane, b.lane) /\ Still(b.lane) /\ Points(b.lane, s.board.lastRan, l)
      BY <1>1, <1>3, <1>9, <2>1, <2>3 DEF InStep, Between, Points
    <3> QED  BY <3>1, ViewHints
  <2>7. \A m \in net' : m.frame.kind = "selection" => Hints(m.frame.view, b.lane, truth'.turn)
    BY <1>1, <1>3, <2>1, <2>2, <2>6
  <2>8. \A m \in net' : m.frame.kind \in Countdowns => Stops(v, m.frame)'
    BY <1>1, <1>3, <2>1, <2>2 DEF Stops, Countdowns, Runs
  <2> QED  BY <2>5, <2>7, <2>8
<1> QED  BY <1>1, <1>7, <1>8, <1>9 DEF TurnFits, Runs

\* Between two turns a page that the room counts on is in step, or awaits the stop.
LEMMA BetweenLanes ==
    ASSUME TypeOK, NEW w \in Rooms, Room(w), TurnFits(w), Between(w.mode, w.c, truth.turn),
           NEW x \in Panels, panel[x].link, x # w.joiner, NEW k \in Lanes
    PROVE  \/ panel[x].board.lane[k].phase = w.c[k].phase
           \/ /\ w.joiner = 0 /\ k = truth.turn /\ Awaits(x, k) /\ w.d[k].phase = "running"
              /\ Alike(panel[x].board.lane[k], w.d[k], now) /\ panel[x].board.lane[k].phase = "running"
<1> DEFINE lane == panel[x].board.lane[k]
<1>1. lane \in LaneStates /\ w.c[k] \in LaneStates /\ w.d[k] \in LaneStates /\ now \in Nat
  BY PageParts, BoardParts DEF TypeOK, Rooms, RowSet
<1>2. Alike(lane, w.c[k], now) \/ (Alike(lane, w.d[k], now) /\ Awaits(x, k))
  BY DEF Room, LanesFit
<1> HIDE DEF lane
<1>3. Alike(lane, w.c[k], now) => lane.phase = w.c[k].phase
  BY <1>1, AlikeMeans
<1>4. Alike(lane, w.d[k], now) => lane.phase = w.d[k].phase
  BY <1>1, AlikeMeans
<1>5. ASSUME Awaits(x, k)  PROVE w.joiner = 0 /\ k = truth.turn /\ w.d[k].phase = "running"
  <2>1. PICK m \in net : m.frame.kind \in Countdowns /\ m.frame.lane = k
    BY <1>5 DEF Awaits
  <2>2. w.joiner = 0
    BY <2>1, RoomParts
  <2>3. Stops(w, m.frame)
    BY <2>1 DEF TurnFits
  <2> QED  BY <2>1, <2>2, <2>3 DEF Stops
<1>6. \/ lane.phase = w.c[k].phase
      \/ /\ w.joiner = 0 /\ k = truth.turn /\ Awaits(x, k) /\ w.d[k].phase = "running"
         /\ Alike(lane, w.d[k], now) /\ lane.phase = "running"
  BY <1>2, <1>3, <1>4, <1>5
<1> QED  BY <1>6 DEF lane

\* A clock at zero while frames are in flight has its stop or break end in one of them.
LEMMA CrossedLane ==
    ASSUME TypeOK, NEW w \in Rooms, Room(w), net # {}, NEW p \in Panels, panel[p].link, NEW l \in Lanes,
           panel[p].board.lane[l].phase \in {"running", "onBreak"}, AtZero(panel[p].board.lane[l], now)
    PROVE  /\ p # w.joiner
           /\ ~Alike(panel[p].board.lane[l], w.c[l], now)
           /\ Alike(Spent(panel[p].board.lane[l]), w.c[l], now)
           /\ Spent(panel[p].board.lane[l]).phase = w.c[l].phase /\ w.c[l].phase # "running"
<1> DEFINE lane == panel[p].board.lane[l]
<1>1. /\ lane \in LaneStates /\ w.c[l] \in LaneStates /\ now \in Nat
  BY PageParts, BoardParts DEF TypeOK, Rooms, RowSet
<1>2. ~AtZero(w.c[l], now)
  BY DEF Room, ZerosFit
<1>3. ~Alike(lane, w.c[l], now)
  BY <1>1, <1>2, ZeroAlike
<1>4. p # w.joiner
  <2> SUFFICES ASSUME p = w.joiner  PROVE FALSE
    OBVIOUS
  <2>1. w.joiner # 0
    BY PanelsAssumption
  <2>2. JoinFits(w)
    BY DEF Room
  <2> QED  BY <1>3, <2>1, <2>2 DEF JoinFits, Shows
<1>5. Alike(Spent(lane), w.c[l], now)
  BY <1>3, <1>4 DEF Room, ZerosFit
<1>6. Spent(lane) \in LaneStates /\ Spent(lane).phase # "running"
  BY <1>1, SpentIsALaneState, SpentRests
<1> HIDE DEF lane
<1>7. Spent(lane).phase = w.c[l].phase /\ w.c[l].phase # "running"
  BY <1>1, <1>5, <1>6, AlikeMeans
<1> QED  BY <1>3, <1>4, <1>5, <1>7 DEF lane

LEMMA TwinTurns ==
    ASSUME TypeOK, PagesFit, NEW w \in Rooms, Room(w), TurnFits(w), net # {}, NEW p \in Panels,
           NEW l \in Lanes, NEW b \in Boards, NEW f \in CountFrames, Crossing(p, l, b, f),
           NEW v \in Rooms, Kept(v, w)
    PROVE  TurnFits(v)'
<1> DEFINE was == panel[p].board
           lane == was.lane[l]
<1>1. /\ panel[p].link /\ Event(p, panel[p].mode, b, {f})
      /\ lane.phase \in {"running", "onBreak"} /\ AtZero(lane, now)
      /\ b.lane = [was.lane EXCEPT ![l] = Spent(lane)] /\ b.lastRan = was.lastRan
      /\ f.lane = l /\ f.kind \in {"stop", "breakEnd"} /\ Lands(f, lane) = Spent(lane)
      /\ truth' = OffTurn(l) \/ truth' = truth
  BY DEF Crossing
<1>2. /\ ~panel'[p].offer /\ panel'[p].board = b /\ panel'[p].link = panel[p].link
      /\ \A q \in Panels \ {p} : panel'[q] = panel[q]
  <2>1. Event(p, panel[p].mode, b, {f})
    BY <1>1
  <2> HIDE DEF was
  <2> QED  BY <2>1, EventPage, ZenonT(40)
<1>3. PICK s \in Pages :
        /\ s.mode = panel[p].mode /\ s.board = b
        /\ \A m \in net' : \/ m \in net
                           \/ m.frame \in {f}
                           \/ m.frame.kind = "selection" /\ m.frame.view = View(s)
  BY <1>1, ActSends
<1>4. truth'.turn = truth.turn /\ truth.turn \in Lanes \union {0}
  BY <1>1, GroundIs DEF Truths, OffTurn
<1>5. v.c = w.c /\ v.d = w.d /\ v.mode = w.mode /\ v.joiner = w.joiner
  BY DEF Kept
<1>6. /\ p # w.joiner /\ ~Alike(lane, w.c[l], now)
      /\ Spent(lane).phase = w.c[l].phase /\ w.c[l].phase # "running"
  BY <1>1, CrossedLane
<1>7. \A x \in Panels : panel[x].link /\ x # w.joiner => ~panel[x].offer
  BY DEF TurnFits
<1>8. \A x \in Panels : panel'[x].link /\ x # v.joiner => ~panel'[x].offer
  BY <1>2, <1>5, <1>7
<1>9. was.lane \in [Lanes -> LaneStates]
  BY PageParts, BoardParts DEF TypeOK
<1>10. ASSUME Between(w.mode, w.c, truth.turn)
       PROVE  /\ \A m \in net' : m.frame.kind \in Countdowns => Stops(v, m.frame)'
              /\ \A x \in Panels : Heeds(v, x)' => Points(w.c, panel'[x].board.lastRan, truth.turn)
              /\ \A m \in net' : m.frame.kind = "selection" => Hints(m.frame.view, w.c, truth.turn)
  <2>1. /\ \A m \in net : m.frame.kind \in Countdowns => Stops(w, m.frame)
        /\ \A x \in Panels : Heeds(w, x) => Points(w.c, panel[x].board.lastRan, truth.turn)
        /\ \A m \in net : m.frame.kind = "selection" => Hints(m.frame.view, w.c, truth.turn)
    BY <1>10 DEF TurnFits
  <2>2. Awaits(p, l)
    BY <1>1, <1>6 DEF Room, LanesFit
  <2>3. w.joiner = 0 /\ l = truth.turn /\ w.d[l].phase = "running"
    <3>1. PICK m \in net : m.frame.kind \in Countdowns /\ m.frame.lane = l
      BY <2>2 DEF Awaits
    <3>2. Stops(w, m.frame) /\ w.joiner = 0
      BY <2>1, <3>1, RoomParts
    <3> QED  BY <3>1, <3>2 DEF Stops
  <2>4. lane.phase = "running"
    <3>1. \/ lane.phase = w.c[l].phase
          \/ lane.phase = "running"
      BY <1>1, <1>6, <1>10, BetweenLanes
    <3>2. lane \in LaneStates /\ w.d[l] \in LaneStates /\ now \in Nat
      BY <1>9 DEF TypeOK, Rooms, RowSet
    <3>3. Alike(lane, w.d[l], now)
      BY <1>1, <1>6 DEF Room, LanesFit
    <3> QED  BY <2>3, <3>2, <3>3, AlikeMeans
  <2>5. f.kind = "stop"
    BY <1>1, <2>4, SpentRests DEF Lands
  <2>6. InStep(b.lane, w.c)
    <3>1. ASSUME NEW k \in Lanes  PROVE b.lane[k].phase = w.c[k].phase
      <4>1. CASE k = l
        BY <1>1, <1>6, <1>9, <4>1
      <4>2. CASE k # l
        <5>1. was.lane[k].phase = w.c[k].phase
          BY <1>1, <1>6, <1>10, <2>3, <4>2, BetweenLanes
        <5> QED  BY <1>1, <1>9, <4>2, <5>1
      <4> QED  BY <4>1, <4>2
    <3> QED  BY <3>1 DEF InStep
  <2>7. Points(w.c, b.lastRan, truth.turn)
    <3>1. Heeds(w, p)
      BY <1>1, <1>6, <1>7 DEF Heeds
    <3> QED  BY <1>1, <2>1, <3>1
  <2>8. \A x \in Panels : Heeds(v, x)' => Points(w.c, panel'[x].board.lastRan, truth.turn)
    <3> SUFFICES ASSUME NEW x \in Panels, Heeds(v, x)'
                 PROVE  Points(w.c, panel'[x].board.lastRan, truth.turn)
      OBVIOUS
    <3>1. CASE x = p
      BY <1>2, <2>7, <3>1
    <3>2. CASE x # p
      <4>1. Heeds(w, x)
        BY <1>2, <1>5, <2>3, <3>2, PanelsAssumption DEF Heeds
      <4> QED  BY <1>2, <2>1, <3>2, <4>1
    <3> QED  BY <3>1, <3>2
  <2>9. Hints(View(s), w.c, truth.turn)
    <3>1. Still(w.c)
      BY <1>10 DEF Between
    <3> QED  BY <1>3, <1>4, <2>6, <2>7, <3>1, ViewHints
  <2>10. \A m \in net' : m.frame.kind = "selection" => Hints(m.frame.view, w.c, truth.turn)
    BY <1>3, <2>1, <2>5, <2>9
  <2>11. \A m \in net' : m.frame.kind \in Countdowns => Stops(v, m.frame)'
    <3> SUFFICES ASSUME NEW m \in net', m.frame.kind \in Countdowns
                 PROVE  m.frame.kind = "stop" /\ m.frame.lane = truth.turn /\ w.d[truth.turn].phase = "running"
      BY <1>4, <1>5 DEF Stops
    <3>1. m \in net => Stops(w, m.frame)
      BY <2>1
    <3> QED  BY <1>1, <1>3, <2>3, <2>5, <3>1 DEF Stops, Countdowns
  <2> QED  BY <2>8, <2>10, <2>11
<1>11. \A k \in Lanes : w.c[k].phase = "running" => truth'.turn = k
  BY <1>4 DEF TurnFits
<1> QED  BY <1>4, <1>5, <1>8, <1>10, <1>11 DEF TurnFits

\* When every lane is spent any hint will do.
LEMMA SpentHints ==
    ASSUME NEW view \in Views, NEW lanes, \A l \in Lanes : lanes[l].phase = "finished",
           NEW turn \in Lanes \union {0}
    PROVE  Hints(view, lanes, turn)
<1>1. view.nextUp \in Lanes \union {0} /\ 1 \in Lanes
  BY LanesAre DEF Views
<1>2. view.nextUp # 0 => Other(view.nextUp) \in Lanes
  BY <1>1, LanesAre
<1> QED  BY <1>1, <1>2, SpentPoints DEF Hints

\* A page outside the join is in step with the room, or a lane of it runs still.
LEMMA BetweenLive ==
    ASSUME TypeOK, NEW w \in Rooms, Room(w), TurnFits(w), Between(w.mode, w.c, truth.turn),
           NEW x \in Panels, panel[x].link, x # w.joiner
    PROVE  \/ InStep(panel[x].board.lane, w.c)
           \/ /\ w.joiner = 0 /\ w.d[truth.turn].phase = "running"
              /\ truth.turn \in Lanes /\ LaneLive(panel[x].board)
<1> SUFFICES ASSUME NEW k \in Lanes, panel[x].board.lane[k].phase # w.c[k].phase
             PROVE  /\ w.joiner = 0 /\ w.d[truth.turn].phase = "running"
                    /\ truth.turn \in Lanes /\ LaneLive(panel[x].board)
  BY DEF InStep
<1>1. /\ w.joiner = 0 /\ k = truth.turn /\ w.d[k].phase = "running"
      /\ panel[x].board.lane[k].phase = "running"
  BY BetweenLanes
<1> QED  BY <1>1 DEF LaneLive, Runs

\* A joiner is in step, or blank.
LEMMA JoinLanes ==
    ASSUME TypeOK, NEW w \in Rooms, Room(w), w.joiner # 0
    PROVE  /\ panel[w.joiner].link
           /\ \/ InStep(panel[w.joiner].board.lane, w.c)
              \/ \A l \in Lanes : panel[w.joiner].board.lane[l].phase = "idle"
<1>1. w.joiner \in Panels
  BY DEF Rooms
<1>2. /\ panel[w.joiner].link
      /\ \/ Shows(panel[w.joiner].board.lane, w.c)
         \/ \A l \in Lanes : panel[w.joiner].board.lane[l].phase = "idle"
  BY DEF Room, JoinFits
<1>3. panel[w.joiner].board.lane \in RowSet /\ w.c \in RowSet
  BY <1>1, PageParts, BoardParts DEF TypeOK, Rooms, RowSet
<1> QED  BY <1>2, <1>3, ShowsInStep

\* What page p has heard, and tells, once a frame came in.
Tells(w, p, sent) ==
    /\ (p = w.joiner => w.seq # 0 /\ panel'[p].stamp.seq = w.seq) =>
         Points(w.c, panel'[p].board.lastRan, truth.turn)
    /\ \A f \in sent : f.kind # "snapshot" =>
         f.kind = "selection" /\ Hints(f.view, w.c, truth.turn)

\* A page that the frame leaves as it was tells nothing.
LEMMA SameTells ==
    ASSUME TypeOK, NEW w \in Rooms, Room(w), TurnFits(w), Between(w.mode, w.c, truth.turn), net # {},
           NEW p \in Panels, panel[p].link, NEW sent, sent = Retold(p, panel'[p]),
           panel'[p].mode = panel[p].mode, panel'[p].board = panel[p].board,
           panel'[p].stamp = panel[p].stamp
    PROVE  Tells(w, p, sent)
<1>1. View(panel'[p]) = View(panel[p])
  BY DEF View
<1>2. sent = {}
  BY <1>1 DEF Retold
<1>3. (p = w.joiner => w.seq # 0 /\ panel'[p].stamp.seq = w.seq) => Heeds(w, p)
  BY DEF TurnFits, Heeds
<1>4. Heeds(w, p) => Points(w.c, panel[p].board.lastRan, truth.turn)
  BY DEF TurnFits
<1> QED  BY <1>2, <1>3, <1>4 DEF Tells

LEMMA MirrorTurns ==
    ASSUME TypeOK, TypeOK', PagesFit, NEW w \in Rooms, Room(w), TurnFits(w),
           Between(w.mode, w.c, truth.turn), NEW p \in Panels, NEW m \in net,
           NEW sent \in SUBSET Frames, Delivers(p, m, sent), m.frame.kind \in Countdowns
    PROVE  Tells(w, p, sent)
<1> DEFINE f == m.frame
           b == panel[p].board
           c == panel'[p].board
<1>1. /\ panel[p].link /\ sent = Retold(p, panel'[p])
  BY DeliversGives DEF Countdowns
<1>2. /\ f \in CountFrames /\ f.lane \in Lanes /\ c = Mirrored(b, f)
      /\ c.lane = [b.lane EXCEPT ![f.lane] = Lands(f, b.lane[f.lane])]
      /\ Alike(Lands(f, b.lane[f.lane]), w.c[f.lane], now)
  BY MirroredLane
<1>3. w.joiner = 0
  BY RoomParts
<1>4. p # w.joiner /\ ~panel[p].offer
  BY <1>1, <1>3, PanelsAssumption DEF TurnFits
<1>5. f.kind = "stop" /\ f.lane = truth.turn
  BY DEF TurnFits, Stops
<1>6. b \in Boards /\ now \in Nat /\ b.lane \in [Lanes -> LaneStates] /\ panel'[p] \in Pages
  BY PageParts, BoardParts DEF TypeOK
<1>7. c.lastRan = b.lastRan
  <2> HIDE DEF b, f
  <2> QED  BY <1>2, <1>5, <1>6, MirroredGives
<1>8. Points(w.c, b.lastRan, truth.turn)
  BY <1>1, <1>4 DEF TurnFits, Heeds
<1>9. InStep(c.lane, w.c)
  <2> SUFFICES ASSUME NEW k \in Lanes  PROVE c.lane[k].phase = w.c[k].phase
    BY DEF InStep
  <2>1. CASE k = f.lane
    <3>1. Lands(f, b.lane[f.lane]) \in LaneStates /\ w.c[f.lane] \in LaneStates
      BY <1>2, <1>6, LandsIsALaneState DEF Rooms, RowSet
    <3> HIDE DEF b, c, f
    <3>2. Lands(f, b.lane[f.lane]).phase = w.c[f.lane].phase
      BY <1>2, <1>6, <3>1, AlikeMeans
    <3> QED  BY <1>2, <1>6, <2>1, <3>2
  <2>2. CASE k # f.lane
    <3>1. b.lane[k].phase = w.c[k].phase
      BY <1>1, <1>4, <1>5, <2>2, BetweenLanes
    <3> QED  BY <1>2, <1>6, <2>2, <3>1
  <2> QED  BY <2>1, <2>2
<1>10. Hints(View(panel'[p]), w.c, truth.turn)
  BY <1>6, <1>7, <1>8, <1>9, ViewHints DEF Between, TypeOK
<1> QED  BY <1>1, <1>7, <1>8, <1>10, RetoldIs DEF Tells

\* A hint that is taken points the page, and what the page then tells says no more.
LEMMA TakenHintTurns ==
    ASSUME TypeOK, TypeOK', NEW w \in Rooms, Room(w), TurnFits(w), w.seq # 0,
           Between(w.mode, w.c, truth.turn), NEW p \in Panels, panel[p].link,
           NEW f \in SelectionFrames, Hints(f.view, w.c, truth.turn), net # {},
           f.stamp.seq <= w.seq, f.stamp.seq = w.seq => f.view.mode = w.mode,
           panel[p].mode # w.mode => p = w.joiner \/ AllIdle(w),
           panel'[p].stamp = f.stamp, panel'[p].mode = f.view.mode,
           panel'[p].board = PeerHint(panel[p].board, f.view.nextUp, f.view.mode),
           NEW sent, sent = Retold(p, panel'[p])
    PROVE  Tells(w, p, sent)
<1> DEFINE b == panel[p].board
           c == panel'[p].board
           n == f.view.nextUp
<1>1. /\ b \in Boards /\ panel'[p] \in Pages /\ c \in Boards /\ n \in Lanes \union {0}
      /\ truth.turn \in Lanes \union {0} /\ f.view.mode \in Modes /\ panel[p] \in Pages
  BY PageParts DEF TypeOK, SelectionFrames, Views
<1>2. /\ c.lane = b.lane
      /\ c.lastRan = IF n = 0 \/ f.view.mode # "battle" \/ LaneLive(b) THEN b.lastRan ELSE Other(n)
  <2> HIDE DEF b, c
  <2>1. c = PeerHint(b, n, f.view.mode)
    BY DEF b, c
  <2> HIDE DEF n
  <2> QED  BY <1>1, <2>1, PeerHintGives
<1>3. /\ w.mode = "battle" /\ truth.turn # 0 /\ Still(w.c)
      /\ b.lastRan \in Lanes \union {0} /\ c.lastRan \in Lanes \union {0}
  BY <1>1, BoardParts DEF Between
<1>4. Heeds(w, p) => Points(w.c, b.lastRan, truth.turn)
  BY DEF TurnFits
<1>5. p # w.joiner => Heeds(w, p)
  BY DEF TurnFits, Heeds
<1>6. View(panel'[p]) \in Views
  BY <1>1, ViewIsAView
<1> DEFINE goal == /\ (p = w.joiner => f.stamp.seq = w.seq) => Points(w.c, c.lastRan, truth.turn)
                   /\ \A g \in sent : Hints(g.view, w.c, truth.turn)
<1>7. \A g \in sent : g.kind = "selection" /\ g.view = View(panel'[p])
  BY RetoldIs
<1> SUFFICES goal
  BY <1>7 DEF Tells
<1> HIDE DEF b, c, n
<1>8. CASE f.view.mode # "battle"
  <2>1. f.stamp.seq # w.seq /\ c.lastRan = b.lastRan
    BY <1>2, <1>3, <1>8
  <2>2. View(panel'[p]).mode # "battle"
    BY <1>8 DEF View
  <2> QED  BY <1>4, <1>5, <1>7, <2>1, <2>2 DEF Hints
<1>9. CASE f.view.mode = "battle" /\ n = 0
  <2>1. \A l \in Lanes : w.c[l].phase = "finished"
    BY <1>9 DEF Hints, n
  <2>2. Points(w.c, c.lastRan, truth.turn)
    BY <1>1, <1>3, <2>1, LanesAre, SpentPoints
  <2>3. Hints(View(panel'[p]), w.c, truth.turn)
    BY <1>1, <1>6, <2>1, SpentHints
  <2> QED  BY <1>7, <2>2, <2>3
<1>10. CASE f.view.mode = "battle" /\ n # 0 /\ LaneLive(b)
  <2>1. c.lastRan = b.lastRan
    BY <1>2, <1>10
  <2>2. p # w.joiner /\ w.d[truth.turn].phase = "running" /\ truth.turn \in Lanes
    <3>1. ~InStep(b.lane, w.c) /\ ~\A l \in Lanes : b.lane[l].phase = "idle"
      BY <1>3, <1>10 DEF InStep, Still, LaneLive, Runs
    <3>2. p # w.joiner
      BY <3>1, JoinLanes, PanelsAssumption DEF b
    <3> QED  BY <3>1, <3>2, BetweenLive DEF b
  <2>3. panel[p].mode = "battle"
    BY <1>3, <2>2 DEF AllIdle
  <2>4. LaneLive(c)
    BY <1>2, <1>10 DEF LaneLive, Runs
  <2>5. View(panel'[p]) = View(panel[p])
    BY <1>10, <2>3, <2>4 DEF View, b, c
  <2>6. sent = {}
    BY <2>5 DEF Retold
  <2> QED  BY <1>4, <1>5, <2>1, <2>2, <2>6
<1>11. CASE f.view.mode = "battle" /\ n # 0 /\ ~LaneLive(b)
  <2>1. c.lastRan = Other(n)
    BY <1>2, <1>11
  <2>2. Points(w.c, Other(n), truth.turn)
    BY <1>11 DEF Hints, n
  <2>3. CASE InStep(b.lane, w.c)
    <3>1. Hints(View(panel'[p]), w.c, truth.turn)
      BY <1>1, <1>2, <1>3, <2>1, <2>2, <2>3, ViewHints DEF c
    <3> QED  BY <1>7, <2>1, <2>2, <3>1
  <2>4. CASE ~InStep(b.lane, w.c)
    <3>1. \A l \in Lanes : b.lane[l].phase = "idle"
      <4>1. p = w.joiner
        BY <1>11, <2>4, BetweenLive DEF b
      <4>2. w.joiner # 0
        BY <4>1, PanelsAssumption
      <4> QED  BY <2>4, <4>1, <4>2, JoinLanes DEF b
    <3>2. NextOn(c.lane, Other(n)) = n
      <4>1. n \in {1, 2} /\ Other(1) = 2 /\ Other(2) = 1 /\ 1 \in Lanes /\ 2 \in Lanes
        BY <1>1, <1>11, LanesAre DEF Other
      <4>2. c.lane[1].phase # "finished" /\ c.lane[2].phase # "finished"
        BY <1>2, <3>1, <4>1
      <4> QED  BY <4>1, <4>2 DEF NextOn
    <3>3. ~LaneLive(c)
      BY <1>2, <1>11 DEF LaneLive, Runs
    <3>4. View(panel'[p]).mode = "battle" /\ View(panel'[p]).nextUp = n
      <4>1. AdvanceTarget(c) = NextOn(c.lane, c.lastRan)
        BY AdvanceIs
      <4> QED  BY <1>11, <2>1, <3>2, <3>3, <4>1 DEF View, c
    <3>5. Hints(View(panel'[p]), w.c, truth.turn)
      BY <1>11, <2>2, <3>4 DEF Hints
    <3> QED  BY <1>7, <2>1, <2>2, <3>5
  <2> QED  BY <2>3, <2>4
<1> QED  BY <1>8, <1>9, <1>10, <1>11

LEMMA HintTurns ==
    ASSUME TypeOK, TypeOK', PagesFit, NEW w \in Rooms, Room(w), TurnFits(w),
           Between(w.mode, w.c, truth.turn), NEW p \in Panels, NEW m \in net,
           NEW sent \in SUBSET Frames, Delivers(p, m, sent), m.frame.kind = "selection"
    PROVE  Tells(w, p, sent)
<1> DEFINE f == m.frame
<1>1. panel[p].link /\ sent = Retold(p, panel'[p]) /\ net # {} /\ w.seq # 0
  BY DeliversGives, RoomParts
<1>2. /\ f \in SelectionFrames
      /\ IF Outranks(f.stamp, panel[p].stamp)
         THEN /\ panel'[p].stamp = f.stamp /\ panel'[p].mode = f.view.mode
              /\ panel'[p].board = PeerHint(panel[p].board, f.view.nextUp, f.view.mode)
         ELSE /\ panel'[p].stamp = panel[p].stamp /\ panel'[p].mode = panel[p].mode
              /\ panel'[p].board = panel[p].board
  BY DEF Delivers, FollowsIt, Countdowns
<1>3. /\ f.stamp.seq <= w.seq /\ (f.stamp.seq = w.seq => f.view.mode = w.mode)
      /\ panel[p].mode # w.mode => p = w.joiner \/ AllIdle(w)
  <2>1. ModesFit(w)
    BY RoomParts
  <2> QED  BY <1>1, <2>1 DEF ModesFit
<1>4. Hints(f.view, w.c, truth.turn)
  BY DEF TurnFits
<1> HIDE DEF f
<1>5. CASE Outranks(f.stamp, panel[p].stamp)
  BY <1>1, <1>2, <1>3, <1>4, <1>5, TakenHintTurns
<1>6. CASE ~Outranks(f.stamp, panel[p].stamp)
  BY <1>1, <1>2, <1>6, SameTells
<1> QED  BY <1>5, <1>6

LEMMA HydrationTurns ==
    ASSUME TypeOK, TypeOK', PagesFit, NEW w \in Rooms, Room(w), TurnFits(w),
           Between(w.mode, w.c, truth.turn), NEW p \in Panels, NEW m \in net,
           NEW sent \in SUBSET Frames, Delivers(p, m, sent), m.frame.kind = "snapshot"
    PROVE  Tells(w, p, sent)
<1> DEFINE f == m.frame
           b == panel[p].board
           c == panel'[p].board
           rows == [l \in Lanes |-> LaneFromSnapshot(f.rows[l])]
<1>1. panel[p].link /\ sent = Retold(p, panel'[p]) /\ net # {} /\ w.seq # 0 /\ w.joiner # 0
  BY DeliversGives, RoomParts
<1>2. /\ f \in SnapshotFrames
      /\ panel'[p].stamp = panel[p].stamp /\ panel'[p].mode = panel[p].mode
      /\ panel'[p].board = IF panel[p].live THEN panel[p].board ELSE PeerSnapshot(panel[p].board, f.rows)
  BY DEF Delivers, HydratesIt, Countdowns
<1>3. CASE panel[p].live
  BY <1>1, <1>2, <1>3, SameTells
<1>4. CASE ~panel[p].live
  <2>1. /\ b \in Boards /\ f.rows \in RowSet /\ c \in Boards /\ panel'[p] \in Pages /\ w.c \in RowSet
        /\ truth.turn \in Lanes \union {0} /\ b.lastRan \in Lanes \union {0}
    BY <1>2, PageParts, BoardParts DEF TypeOK, SnapshotFrames, Rooms
  <2>2. c = PeerSnapshot(b, f.rows)
    BY <1>2, <1>4
  <2>3. InStep(rows, w.c)
    <3>1. Shows(rows, w.c)
      BY DEF Room, JoinFits
    <3>2. rows \in RowSet
      BY <2>1, HydratedLaneIsALaneState DEF RowSet
    <3> QED  BY <2>1, <3>1, <3>2, ShowsInStep
  <2> HIDE DEF b, c, f
  <2>4. c.lane = rows /\ c.lastRan = IF LaneLive(c) THEN IF Runs(c, 1) THEN 1 ELSE 2 ELSE b.lastRan
    BY <2>1, <2>2, PeerSnapshotGives
  <2> HIDE DEF rows
  <2>5. InStep(c.lane, w.c) /\ Still(w.c) /\ ~LaneLive(c)
    BY <2>3, <2>4 DEF Between, Still, InStep, LaneLive, Runs
  <2>6. c.lastRan = b.lastRan
    BY <2>4, <2>5
  <2>7. Heeds(w, p) => Points(w.c, b.lastRan, truth.turn)
    BY DEF TurnFits, b
  <2>8. (p = w.joiner => panel'[p].stamp.seq = w.seq) => Heeds(w, p)
    BY <1>1, <1>2 DEF TurnFits, Heeds
  <2>9. Points(w.c, c.lastRan, truth.turn) => Hints(View(panel'[p]), w.c, truth.turn)
    BY <2>1, <2>5, ViewHints DEF c
  <2>10. sent = {} \/ Hints(View(panel'[p]), w.c, truth.turn)
    <3>1. CASE \E l \in Lanes : w.c[l].phase = "finished"
      BY <2>1, <2>6, <2>9, <3>1, SpentPoints
    <3>2. CASE Heeds(w, p)
      BY <2>6, <2>7, <2>9, <3>2
    <3>3. CASE ~Heeds(w, p) /\ \A l \in Lanes : w.c[l].phase # "finished"
      <4>1. p = w.joiner
        BY <1>1, <3>3 DEF TurnFits, Heeds
      <4>2. \A l \in Lanes : b.lane[l].phase \notin {"running", "finished"}
        <5>1. InStep(b.lane, w.c) \/ \A l \in Lanes : b.lane[l].phase = "idle"
          BY <1>1, <4>1, JoinLanes DEF b
        <5> QED  BY <2>5, <3>3, <5>1 DEF InStep, Still
      <4>3. \A l \in Lanes : c.lane[l].phase # "finished"
        BY <2>5, <3>3 DEF InStep
      <4>4. NextOn(b.lane, b.lastRan) = NextOn(c.lane, b.lastRan)
        <5>1. b.lastRan \in {0, 1, 2} /\ Other(1) = 2 /\ Other(2) = 1 /\ 1 \in Lanes /\ 2 \in Lanes
          BY <2>1, LanesAre DEF Other
        <5> QED  BY <4>2, <4>3, <5>1 DEF NextOn
      <4>5. ~LaneLive(b)
        BY <4>2 DEF LaneLive, Runs
      <4>6. AdvanceTarget(b) = AdvanceTarget(c)
        BY <2>6, <4>4, AdvanceIs
      <4>7. View(panel'[p]) = View(panel[p])
        BY <1>2, <2>5, <4>5, <4>6 DEF View, b, c
      <4> QED  BY <1>1, <4>7 DEF Retold
    <3> QED  BY <3>1, <3>2, <3>3
  <2>11. (p = w.joiner => w.seq # 0 /\ panel'[p].stamp.seq = w.seq) => Points(w.c, c.lastRan, truth.turn)
    BY <2>6, <2>7, <2>8
  <2>12. \A g \in sent : g.kind = "selection" /\ g.view = View(panel'[p])
    BY <1>1, RetoldIs
  <2> QED  BY <2>10, <2>11, <2>12 DEF Tells, c
<1> QED  BY <1>3, <1>4

\* The answer is a page's of the room; a room that had no stamp yet gets one.
LEMMA AnswerTurns ==
    ASSUME TypeOK, PagesFit, NEW w \in Rooms, Room(w), TurnFits(w), NEW p \in Panels, NEW m \in net,
           NEW sent \in SUBSET Frames, Delivers(p, m, sent), m.frame.kind = "ask"
    PROVE  /\ p # w.joiner /\ w.joiner # 0
           /\ \A n \in Nat : n = panel'[p].stamp.seq =>
                n = w.seq \/ (n # w.seq /\ w.seq = 0 /\ panel[w.joiner].stamp.seq # n)
           /\ Between(w.mode, w.c, truth.turn) => Tells(w, p, sent)
<1>1. panel[p].link /\ m.to = p
  BY DeliversGives
<1>2. PICK t \in {Restated(p, panel[p].stamp), Minted(p, panel[p].stamp, FALSE, 0)} :
        /\ t = IF panel[p].stamp.seq > 0 THEN Restated(p, panel[p].stamp)
               ELSE Minted(p, panel[p].stamp, FALSE, 0)
        /\ panel'[p].stamp = IF panel[p].stamp.seq > 0 THEN panel[p].stamp ELSE t
        /\ panel'[p].board = panel[p].board
        /\ sent = {SelectionFrame(t, panel[p]), SnapshotFrame(panel[p])}
  BY DEF Delivers, AnswersIt, Countdowns
<1>3. w.joiner # 0 /\ p # w.joiner /\ ~panel[p].offer
  <2>1. m.frame.by = w.joiner /\ w.joiner # 0
    BY RoomParts DEF JoinFits
  <2>2. m.to # m.frame.by /\ ~panel[m.to].offer
    BY DEF PagesFit
  <2> QED  BY <1>1, <2>1, <2>2
<1>4. panel[p].stamp.seq \in Nat /\ w.seq \in Nat /\ w.joiner \in Panels
  BY <1>3, PageParts DEF TypeOK, Stamp, Rooms
<1>5. panel[w.joiner].stamp.seq \in Nat
  BY <1>4, PageParts DEF TypeOK, Stamp
<1>6. /\ panel[p].stamp.seq = w.seq
      /\ panel[w.joiner].stamp.seq <= w.seq
  BY <1>1, <1>3, <1>4, JoinLanes, RoomParts DEF ModesFit
<1>7. panel'[p].stamp.seq = IF w.seq > 0 THEN w.seq ELSE 1
  BY <1>2, <1>4, <1>6 DEF Minted
<1>8. ASSUME Between(w.mode, w.c, truth.turn)
      PROVE  Tells(w, p, sent)
  <2>1. Points(w.c, panel[p].board.lastRan, truth.turn)
    BY <1>1, <1>3, <1>8 DEF TurnFits, Heeds
  <2>2. InStep(panel[p].board.lane, w.c)
    BY <1>1, <1>3, <1>8, BetweenLive
  <2>3. Hints(View(panel[p]), w.c, truth.turn)
    <3>1. panel[p] \in Pages /\ truth.turn \in Lanes \union {0}
      BY DEF TypeOK
    <3> QED  BY <1>8, <2>1, <2>2, <3>1, ViewHints DEF Between
  <2>4. \A g \in sent : g.kind # "snapshot" => g.kind = "selection" /\ g.view = View(panel[p])
    <3> DEFINE a == SelectionFrame(t, panel[p])
               b == SnapshotFrame(panel[p])
    <3>1. a.kind = "selection" /\ a.view = View(panel[p]) /\ b.kind = "snapshot"
      BY AnswerIs
    <3>2. sent = {a, b}
      BY <1>2
    <3> HIDE DEF a, b
    <3> QED  BY <3>1, <3>2
  <2> QED  BY <1>2, <2>1, <2>3, <2>4 DEF Tells
<1> QED  BY <1>3, <1>4, <1>5, <1>6, <1>7, <1>8

\* A room keeps its turn through every frame that comes in.
LEMMA DeliverTurns ==
    ASSUME TypeOK, TypeOK', PagesFit, NEW w \in Rooms, Room(w), TurnFits(w), NEW p \in Panels, NEW m \in net,
           NEW sent \in SUBSET Frames, Delivers(p, m, sent), NEW v \in Rooms, Kept(v, w),
           v.seq = (IF m.frame.kind = "ask" THEN panel'[p].stamp.seq ELSE w.seq)
    PROVE  TurnFits(v)'
<1>1. /\ m.to = p /\ panel[p].link /\ panel'[p].link /\ m.frame \in Frames /\ ~panel'[p].offer
      /\ \A q \in Panels \ {p} : panel'[q] = panel[q]
      /\ net' = (net \ {m}) \union Fanout(p, sent)
  BY DeliversGives
<1>2. truth' = truth /\ v.c = w.c /\ v.d = w.d /\ v.mode = w.mode /\ v.joiner = w.joiner
  BY DEF Delivers, Kept
<1>3. \A n \in net' : n \in net \/ n.frame \in sent
  BY <1>1, FanoutIs
<1>4. Between(w.mode, w.c, truth.turn) => Tells(w, p, sent)
  <2>1. m.frame.kind \in Countdowns \/ m.frame.kind \in {"selection", "snapshot", "ask"}
    BY <1>1, FrameKinds
  <2> QED  BY <2>1, MirrorTurns, HintTurns, HydrationTurns, AnswerTurns
<1>5. ASSUME NEW x \in Panels, Heeds(v, x)'
      PROVE  /\ x # p => Heeds(w, x)
             /\ x = p /\ p = w.joiner => w.seq # 0 /\ panel'[p].stamp.seq = w.seq
  <2>1. CASE m.frame.kind = "ask"
    <3>1. /\ p # w.joiner /\ w.joiner # 0
          /\ \A n \in Nat : n = panel'[p].stamp.seq =>
               n = w.seq \/ (n # w.seq /\ w.seq = 0 /\ panel[w.joiner].stamp.seq # n)
      BY <2>1, AnswerTurns
    <3>2. v.seq \in Nat /\ v.seq = panel'[p].stamp.seq
      BY <2>1 DEF Rooms
    <3> QED  BY <1>1, <1>2, <1>5, <3>1, <3>2 DEF Heeds
  <2>2. CASE m.frame.kind # "ask"
    BY <1>1, <1>2, <1>5, <2>2 DEF Heeds
  <2> QED  BY <2>1, <2>2
<1>6. ASSUME Between(w.mode, w.c, truth.turn)
      PROVE  /\ \A n \in net' : n.frame.kind \in Countdowns => Stops(w, n.frame)
             /\ \A x \in Panels : Heeds(v, x)' => Points(w.c, panel'[x].board.lastRan, truth.turn)
             /\ \A n \in net' : n.frame.kind = "selection" => Hints(n.frame.view, w.c, truth.turn)
  <2>1. /\ \A n \in net : n.frame.kind \in Countdowns => Stops(w, n.frame)
        /\ \A x \in Panels : Heeds(w, x) => Points(w.c, panel[x].board.lastRan, truth.turn)
        /\ \A n \in net : n.frame.kind = "selection" => Hints(n.frame.view, w.c, truth.turn)
    BY <1>6 DEF TurnFits
  <2>2. /\ (p = w.joiner => w.seq # 0 /\ panel'[p].stamp.seq = w.seq) =>
             Points(w.c, panel'[p].board.lastRan, truth.turn)
        /\ \A f \in sent : f.kind # "snapshot" => f.kind = "selection" /\ Hints(f.view, w.c, truth.turn)
    BY <1>4, <1>6 DEF Tells
  <2>3. ASSUME NEW x \in Panels, Heeds(v, x)'
        PROVE  Points(w.c, panel'[x].board.lastRan, truth.turn)
    <3>1. CASE x = p
      BY <1>5, <2>2, <2>3, <3>1
    <3>2. CASE x # p
      BY <1>1, <1>5, <2>1, <2>3, <3>2
    <3> QED  BY <3>1, <3>2
  <2>4. \A n \in net' : n.frame.kind \in Countdowns => Stops(w, n.frame)
    BY <1>3, <2>1, <2>2 DEF Countdowns
  <2>5. \A n \in net' : n.frame.kind = "selection" => Hints(n.frame.view, w.c, truth.turn)
    BY <1>3, <2>1, <2>2
  <2> QED  BY <2>3, <2>4, <2>5
<1>7. \A x \in Panels : panel'[x].link /\ x # w.joiner => ~panel'[x].offer
  BY <1>1 DEF TurnFits
<1>8. \A n \in net' : Stops(w, n.frame) => Stops(v, n.frame)'
  BY <1>2 DEF Stops
<1>9. \A l \in Lanes : w.c[l].phase = "running" => truth.turn = l
  BY DEF TurnFits
<1> QED  BY <1>2, <1>6, <1>7, <1>8, <1>9 DEF TurnFits

-----------------------------------------------------------------------------
(* Whose turn is next: pages alone.                                        *)

\* The copy of a page that points right hints right.
LEMMA CopyTurns ==
    ASSUME TypeOK, NEW s \in Pages, Fitting(s.mode, s.board.lane), NEW past \in Truths,
           Turns(s.mode, s.board, past)
    PROVE  Recalls(Copy(s), past)
<1> DEFINE lanes == s.board.lane
<1>1. /\ now \in Nat /\ \A l \in Lanes : lanes[l] \in LaneStates /\ Proper(lanes[l])
      /\ s.board.lastRan \in Lanes \union {0} /\ past.turn \in Lanes \union {0}
  BY PageParts, BoardParts DEF TypeOK, Fitting, Truths
<1> SUFFICES ASSUME NEW copy \in Copy(s)
             PROVE  /\ Marks(CopyLanes(copy), past)
                    /\ Between(copy.view.mode, CopyLanes(copy), past.turn) =>
                         Hints(copy.view, CopyLanes(copy), past.turn)
  BY DEF Recalls
<1> DEFINE mine == CopyLanes(copy)
<1>2. copy.rows = Rows(s) /\ copy.view = View(s) /\ copy.view.mode = s.mode
  BY DEF Copy, View
<1>3. \A l \in Lanes : mine[l] = Row(lanes[l], now)
  <2>1. \A l \in Lanes : LaneFromSnapshot(Row(lanes[l], now)) = Row(lanes[l], now)
    BY <1>1, ProperRow
  <2>2. \A l \in Lanes : copy.rows[l] = Row(lanes[l], now)
    BY <1>2 DEF Rows
  <2> QED  BY <2>1, <2>2 DEF CopyLanes
<1>4. \A l \in Lanes : /\ Row(lanes[l], now).phase = lanes[l].phase
                       /\ lanes[l].phase = "running" => Row(lanes[l], now).at = now
  BY <1>1 DEF Row, LaneStates
<1> HIDE DEF lanes, mine
<1>5. InStep(lanes, mine) /\ InStep(mine, lanes)
  BY <1>3, <1>4 DEF InStep
<1>6. Marks(mine, past)
  BY <1>1, <1>3, <1>4 DEF Turns, Marks, lanes
<1>7. ASSUME Between(copy.view.mode, mine, past.turn)
      PROVE  Hints(copy.view, mine, past.turn)
  <2>1. Still(mine) /\ Between(s.mode, lanes, past.turn)
    BY <1>2, <1>5, <1>7 DEF Between, Still, InStep
  <2>2. NextOn(lanes, s.board.lastRan) = NextOn(lanes, past.turn)
    BY <2>1 DEF Turns, Points, lanes
  <2>3. Points(mine, s.board.lastRan, past.turn)
    BY <1>1, <1>5, <2>2, NextInStep DEF Points
  <2> QED  BY <1>1, <1>2, <1>5, <2>1, <2>3, ViewHints DEF lanes
<1> QED  BY <1>6, <1>7 DEF mine

\* A page about to be the only one has all that SoloTurns asks for.
LEMMA SoloTurnsAre ==
    ASSUME NEW p \in Panels, \A q \in Panels : Solo(q)' => q = p, now' = now,
           Solo(p)' => /\ TurnCounts(truth')
                       /\ ~panel'[p].offer => Turns(panel'[p].mode, panel'[p].board, truth')
                       /\ Recalls(stored'[p], truth')
    PROVE  SoloTurns'
<1>1. Marks(panel[p].board.lane, truth)' <=> Marks(panel'[p].board.lane, truth')
  BY DEF Marks
<1>2. Turns(panel[p].mode, panel[p].board, truth)' <=> Turns(panel'[p].mode, panel'[p].board, truth')
  BY <1>1 DEF Turns
<1>3. Recalls(stored[p], truth)' <=> Recalls(stored'[p], truth')
  BY DEF Recalls, Marks, CopyLanes
<1> QED  BY <1>2, <1>3 DEF SoloTurns

LEMMA BusySoloTurns ==
    ASSUME TypeOK, PagesFit, net # {},
           \A x \in Panels : panel'[x].link = panel[x].link /\ panel'[x].away = panel[x].away
    PROVE  SoloTurns'
<1>1. PICK m \in net : TRUE
  OBVIOUS
<1>2. m.to \in Panels /\ panel[m.to].link /\ \E y \in Panels : y # m.to /\ panel[y].link
  BY <1>1 DEF TypeOK, PagesFit
<1>3. \A x \in Panels : ~Solo(x)'
  BY <1>2 DEF Solo
<1> QED  BY <1>3 DEF SoloTurns

\* A turn of a page alone that ends has taken some of its time.
LEMMA TurnSpends ==
    ASSUME TypeOK, SoloFits, SoloCounts, SoloTurns, NEW p \in Panels, Solo(p), ~panel[p].offer,
           NEW l \in Lanes, Runs(panel[p].board, l),
           now > panel[p].board.lane[l].at \/ AtZero(panel[p].board.lane[l], now)
    PROVE  truth.turn = l /\ truth.ran[l] > 0
<1> DEFINE lane == panel[p].board.lane[l]
<1>1. truth.turn = l /\ (now > lane.at => truth.ran[l] > 0)
  BY DEF SoloTurns, Turns, Marks, Runs
<1>2. ASSUME AtZero(lane, now)  PROVE truth.ran[l] > 0
  <2>1. Proper(lane)
    BY DEF SoloFits, Fitting
  <2>2. lane \in LaneStates /\ now \in Nat /\ truth.ran[l] \in Nat
    BY PageParts, BoardParts DEF TypeOK
  <2>3. Remaining(lane, now) = RemainingFrom(lane.armed, 0, truth.ran[l])
    BY DEF SoloCounts, Spends
  <2>4. lane.phase = "running"
    BY DEF Runs
  <2> HIDE DEF lane
  <2>5. Remaining(lane, now) = 0
    BY <1>2, <2>2, <2>4, ZeroMeans
  <2>6. lane.armed > 0 /\ lane.armed \in Nat
    BY <2>1, <2>2, LaneParts DEF Proper
  <2> QED  BY <2>2, <2>3, <2>5, <2>6 DEF RemainingFrom
<1> QED  BY <1>1, <1>2

LEMMA ActsSoloTurns ==
    ASSUME TypeOK, TypeOK', PagesFit, PagesSound, SoloFits, SoloCounts, SoloTurns, NEW p \in Panels,
           NEW mode, NEW b, NEW frames, Acts(p, mode, b, frames)
    PROVE  SoloTurns'
<1> DEFINE was == panel[p].board
<1>1. /\ panel[p].link /\ Event(p, mode, b, frames) /\ Moves(p, mode, b, frames)
      /\ Steers(p, mode, b, frames)
  BY DEF Acts, Stirs
<1>2. /\ panel'[p].mode = mode /\ panel'[p].board = b /\ now' = now
      /\ panel'[p].link = panel[p].link /\ panel'[p].away = panel[p].away
      /\ \A q \in Panels \ {p} : panel'[q] = panel[q]
  <2>1. Event(p, mode, b, frames)
    BY <1>1
  <2> HIDE DEF was
  <2> QED  BY <2>1, EventPage, ZenonT(40)
<1>3. PICK s \in Pages : s.mode = mode /\ s.board = b /\ stored'[p] = Copy(s)
  BY <1>1, ActSends
<1>4. /\ \A q \in Panels : Solo(q)' => q = p
      /\ Solo(p)' => Solo(p)
  BY <1>1, <1>2 DEF Solo
<1>5. /\ truth \in Truths /\ truth' \in Truths /\ now \in Nat
      /\ \A l \in Lanes : OffTurn(l).turn = truth.turn /\ OffTurn(l).ran = truth.ran
  BY GroundIs DEF Truths, OffTurn, TypeOK
<1>6. Fitting(mode, b.lane)
  BY <1>1 DEF Moves
<1>7. panel[p].offer => \A l \in Lanes : ~Runs(was, l)
  BY OfferedRests DEF Runs
<1>8. ASSUME Solo(p)
      PROVE  TurnCounts(truth') /\ Turns(mode, b, truth')
  <2>1. CASE truth'.turn = 0 /\ ~LaneLive(b)
    BY <2>1 DEF TurnCounts, Turns, Marks, Between, LaneLive, Runs
  <2>2. ASSUME NEW l \in Lanes, truth'.turn = l, l \in truth'.on, Runs(b, l),
               \A k \in Lanes : Runs(b, k) => k = l /\ b.lane[k].at = now
        PROVE  TurnCounts(truth') /\ Turns(mode, b, truth')
    BY <1>5, <2>2 DEF TurnCounts, Turns, Marks, Between, Still, Runs
  <2>3. ASSUME mode = panel[p].mode, ~LaneLive(b), b.lastRan = was.lastRan,
               NEW l \in Lanes, truth' = OffTurn(l), Runs(was, l),
               now > was.lane[l].at \/ AtZero(was.lane[l], now)
        PROVE  TurnCounts(truth') /\ Turns(mode, b, truth')
    <3>1. truth.turn = l /\ truth.ran[l] > 0
      BY <1>7, <1>8, <2>3, TurnSpends
    <3>2. truth'.turn = l /\ truth'.ran[l] > 0
      BY <1>5, <2>3, <3>1
    <3>3. was.lastRan = l
      BY <2>3 DEF PagesSound, OneTurn
    <3>4. Points(b.lane, b.lastRan, truth'.turn)
      BY <2>3, <3>2, <3>3 DEF Points
    <3> QED  BY <2>3, <3>2, <3>4 DEF TurnCounts, Turns, Marks, LaneLive, Runs
  <2>4. CASE /\ mode = "quali" /\ truth' = truth
             /\ \A k \in Lanes : Runs(b, k) => Runs(was, k) /\ b.lane[k] = was.lane[k]
    <3>1. TurnCounts(truth)
      BY <1>8 DEF SoloTurns
    <3>2. ~panel[p].offer => Marks(was.lane, truth)
      BY <1>8 DEF SoloTurns, Turns
    <3>3. Marks(b.lane, truth)
      BY <1>7, <2>4, <3>2 DEF Marks, Runs
    <3> QED  BY <2>4, <3>1, <3>3 DEF Turns, Between
  <2> HIDE DEF was
  <2> QED  BY <1>1, <2>1, <2>2, <2>3, <2>4 DEF Steers, was
<1>9. Solo(p) => Recalls(stored'[p], truth')
  BY <1>3, <1>5, <1>6, <1>8, CopyTurns
<1> QED  BY <1>2, <1>4, <1>8, <1>9, SoloTurnsAre

LEMMA OpenSoloTurns ==
    ASSUME TypeOK, TypeOK', PagesFit, SoloFits, SoloCounts, SoloTurns, NEW p \in Panels, Open(p)
    PROVE  SoloTurns'
<1> DEFINE s == [panel[p] EXCEPT !.link = TRUE, !.away = FALSE]
           restored == ~s.offer /\ stored[p] # {}
           claim == Minted(p, s.stamp, FALSE, 0)
<1>1. /\ ~panel[p].link
      /\ s \in Pages
      /\ \A q \in Panels \ {p} : panel'[q] = panel[q] /\ stored'[q] = stored[q]
      /\ panel'[p] = IF restored THEN [s EXCEPT !.stamp = claim] ELSE s
      /\ stored'[p] = IF restored THEN Copy(s) ELSE stored[p]
      /\ UNCHANGED <<now, truth, count>>
  BY OpenGives
<1>2. s.link /\ ~s.away /\ s.offer = panel[p].offer /\ s.mode = panel[p].mode /\ s.board = panel[p].board
  BY DEF TypeOK, Pages
<1>3. claim \in Stamp
  BY <1>1, PageParts, StampsAreStamps
<1> HIDE DEF s, claim
<1>4. /\ panel'[p].link /\ ~panel'[p].away /\ panel'[p].offer = panel[p].offer
      /\ panel'[p].mode = panel[p].mode /\ panel'[p].board = panel[p].board
  BY <1>1, <1>2, <1>3 DEF Pages
<1>5. truth \in Truths /\ now' = now /\ truth' = truth
  BY <1>1, GroundIs
<1>6. \A q \in Panels : Solo(q)' => q = p
  BY <1>4 DEF Solo
<1>7. ASSUME Solo(p)'
      PROVE  /\ TurnCounts(truth)
             /\ ~panel[p].offer => Turns(panel[p].mode, panel[p].board, truth)
             /\ Recalls(stored'[p], truth)
  <2>1. \A q \in Panels \ {p} : ~panel[q].link /\ ~panel[q].away
    BY <1>1, <1>7 DEF Solo
  <2>2. CASE panel[p].away
    <3>1. Solo(p)
      BY <2>1, <2>2 DEF Solo
    <3>2. /\ TurnCounts(truth)
          /\ ~panel[p].offer => Turns(panel[p].mode, panel[p].board, truth)
          /\ Recalls(stored[p], truth)
      BY <3>1 DEF SoloTurns
    <3>3. Fitting(panel[p].mode, panel[p].board.lane)
      BY <3>1 DEF SoloFits
    <3>4. restored => Recalls(Copy(s), truth)
      BY <1>1, <1>2, <1>5, <3>2, <3>3, CopyTurns
    <3> QED  BY <1>1, <3>2, <3>4
  <2>3. CASE ~panel[p].away
    <3>1. panel[p].offer /\ stored'[p] = {}
      BY <1>1, <1>2, <2>3 DEF PagesFit
    <3>2. truth.turn = 0
      BY <1>1, <2>1, <2>3 DEF SoloCounts, NoTurns
    <3> QED  BY <3>1, <3>2 DEF TurnCounts, Recalls
  <2> QED  BY <2>2, <2>3
<1> QED  BY <1>4, <1>5, <1>6, <1>7, SoloTurnsAre

LEMMA ReloadSoloTurns ==
    ASSUME TypeOK, SoloTurns, NEW p \in Panels, Reload(p)
    PROVE  SoloTurns'
<1>1. /\ panel[p].link
      /\ \A q \in Panels \ {p} : panel'[q] = panel[q]
      /\ panel'[p] = [Page(panel[p].mode) EXCEPT !.away = TRUE]
      /\ stored' = stored /\ now' = now /\ truth' = truth
  BY ReloadGives
<1>2. ~panel'[p].link /\ panel'[p].away /\ panel'[p].offer
  BY <1>1 DEF Page
<1>3. /\ \A q \in Panels : Solo(q)' => q = p
      /\ Solo(p)' => Solo(p)
  BY <1>1, <1>2 DEF Solo
<1>4. Solo(p) => TurnCounts(truth) /\ Recalls(stored[p], truth)
  BY DEF SoloTurns
<1> QED  BY <1>1, <1>2, <1>3, <1>4, SoloTurnsAre

LEMMA RestoreSoloTurns ==
    ASSUME TypeOK, PagesFit, SoloFits, SoloCounts, SoloTurns, NEW p \in Panels, Restores(p)
    PROVE  SoloTurns'
<1>1. /\ Solo(p) /\ panel[p].offer /\ panel'[p] \in Pages
      /\ \A q \in Panels \ {p} : panel'[q] = panel[q] /\ stored'[q] = stored[q]
      /\ now' = now /\ truth' = truth
      /\ panel'[p].link = panel[p].link /\ panel'[p].away = panel[p].away
  BY DEF Restores
<1>2. \A q \in Panels : Solo(q)' => q = p
  BY <1>1 DEF Solo
<1>3. truth \in Truths
  BY GroundIs
<1>4. TurnCounts(truth) /\ Recalls(stored[p], truth)
  BY <1>1 DEF SoloTurns
<1>5. \A l \in Lanes : panel[p].board.lane[l].phase = "idle"
  BY <1>1, OfferedRests
<1>6. CASE /\ stored[p] = {} /\ stored'[p] = {}
           /\ panel'[p].mode = panel[p].mode /\ panel'[p].board = panel[p].board
  <2>1. truth.on = {} /\ \A l \in Lanes : truth.ran[l] = 0
    BY <1>1, <1>6 DEF SoloCounts
  <2>2. truth.turn = 0
    BY <1>3, <1>4, <2>1 DEF TurnCounts, Truths
  <2>3. Turns(panel'[p].mode, panel'[p].board, truth)
    BY <1>5, <1>6, <2>2 DEF Turns, Marks, Between
  <2> QED  BY <1>1, <1>2, <1>4, <1>6, <2>3, SoloTurnsAre
<1>7. ASSUME NEW copy \in stored[p], copy \in Copies, panel'[p].mode = copy.view.mode,
             panel'[p].board = Recalled(Heard(panel[p]), copy).board,
             stored'[p] \in {stored[p], Copy(panel'[p])}
      PROVE  SoloTurns'
  <2> DEFINE s == Heard(panel[p])
             b == panel'[p].board
             view == copy.view
  <2>1. s \in Pages /\ s.board = panel[p].board
    <3>1. panel[p] \in Pages
      BY DEF TypeOK
    <3> QED  BY <3>1 DEF Heard, Pages
  <2> HIDE DEF s
  <2>2. /\ b.lane = CopyLanes(copy)
        /\ b.lastRan = IF LaneLive(b) THEN IF Runs(b, 1) THEN 1 ELSE 2
                       ELSE IF view.nextUp = 0 \/ view.mode # "battle" \/ LaneLive(s.board)
                            THEN s.board.lastRan ELSE Other(view.nextUp)
    <3>1. b = Recalled(s, copy).board
      BY <1>7 DEF s
    <3> HIDE DEF b
    <3> QED  BY <1>7, <2>1, <3>1, RecalledGives DEF CopyLanes
  <2>3. ~LaneLive(s.board)
    BY <1>5, <2>1 DEF LaneLive, Runs
  <2>4. /\ view.nextUp \in Lanes \union {0} /\ truth.turn \in Lanes \union {0}
        /\ b.lastRan \in Lanes \union {0}
    BY <1>1, <1>3, <1>7, PageParts, BoardParts DEF Copies, Views, Truths
  <2>5. Marks(CopyLanes(copy), truth)
    BY <1>4 DEF Recalls
  <2>6. ASSUME Between(view.mode, CopyLanes(copy), truth.turn)
        PROVE  Points(CopyLanes(copy), b.lastRan, truth.turn)
    <3>1. Hints(view, CopyLanes(copy), truth.turn) /\ view.mode = "battle"
      BY <1>4, <2>6 DEF Recalls, Between
    <3>2. ~LaneLive(b)
      BY <2>2, <2>6 DEF Between, Still, LaneLive, Runs
    <3>3. CASE view.nextUp = 0
      <4>1. CopyLanes(copy)[1].phase = "finished" /\ 1 \in Lanes
        BY <3>1, <3>3, LanesAre DEF Hints
      <4> QED  BY <2>4, <4>1, SpentPoints
    <3>4. CASE view.nextUp # 0
      BY <2>2, <2>3, <3>1, <3>2, <3>4 DEF Hints
    <3> QED  BY <3>3, <3>4
  <2>7. Turns(panel'[p].mode, b, truth)
    BY <1>7, <2>2, <2>5, <2>6 DEF Turns
  <2>8. Fitting(panel'[p].mode, b.lane)
    BY <1>1, <1>7, <2>2 DEF SoloFits
  <2>9. Recalls(Copy(panel'[p]), truth)
    BY <1>1, <1>3, <2>7, <2>8, CopyTurns
  <2> QED  BY <1>1, <1>2, <1>4, <1>7, <2>7, <2>9, SoloTurnsAre
<1> QED  BY <1>6, <1>7 DEF Restores

\* A clock that moves is a turn that counts.
LEMMA TickSoloTurns ==
    ASSUME TypeOK, SoloFits, SoloCounts, SoloTurns, Tick
    PROVE  SoloTurns'
<1>1. /\ panel' = panel /\ stored' = stored /\ now' = now + 1 /\ now \in Nat
      /\ truth \in Truths /\ truth'.on = truth.on /\ truth'.turn = truth.turn
      /\ truth'.ran = [l \in Lanes |-> IF l \in truth.on THEN truth.ran[l] + 1 ELSE truth.ran[l]]
  BY GroundIs DEF Tick, Truths, TypeOK
<1>2. \A l \in Lanes : /\ truth.ran[l] \in Nat
                       /\ truth.ran[l] > 0 \/ l \in truth.on => truth'.ran[l] > 0
  BY <1>1 DEF Truths
<1>3. \A q \in Panels : Solo(q)' => Solo(q)
  BY <1>1 DEF Solo
<1>4. TurnCounts(truth) => TurnCounts(truth)'
  BY <1>1, <1>2 DEF TurnCounts, Truths
<1>5. ASSUME NEW lanes, Spends(lanes, truth), Marks(lanes, truth)
      PROVE  \A l \in Lanes : lanes[l].phase = "running" =>
               truth'.turn = l /\ (now' > lanes[l].at => truth'.ran[l] > 0)
  BY <1>1, <1>2, <1>5 DEF Spends, Marks
<1>6. ASSUME NEW q \in Panels, Solo(q)
      PROVE  /\ TurnCounts(truth)'
             /\ ~panel'[q].offer => Turns(panel[q].mode, panel[q].board, truth)'
             /\ Recalls(stored[q], truth)'
  <2>1. /\ TurnCounts(truth)
        /\ ~panel[q].offer => Turns(panel[q].mode, panel[q].board, truth)
        /\ Recalls(stored[q], truth)
    BY <1>6 DEF SoloTurns
  <2>2. /\ ~panel[q].offer => Spends(panel[q].board.lane, truth)
        /\ \A copy \in stored[q] : Spends(CopyLanes(copy), truth)
    BY <1>6 DEF SoloCounts
  <2>3. ~panel[q].offer => Turns(panel[q].mode, panel[q].board, truth)'
    BY <1>1, <1>5, <2>1, <2>2 DEF Turns, Marks
  <2>4. ASSUME NEW copy \in stored[q]
        PROVE  /\ Marks(CopyLanes(copy), truth)'
               /\ Between(copy.view.mode, CopyLanes(copy), truth.turn) =>
                    Hints(copy.view, CopyLanes(copy), truth.turn)
    <3>1. Marks(CopyLanes(copy), truth)
      BY <2>1 DEF Recalls
    <3>2. \A l \in Lanes : CopyLanes(copy)[l].phase = "running" =>
            truth'.turn = l /\ (now' > CopyLanes(copy)[l].at => truth'.ran[l] > 0)
      BY <1>5, <2>2, <3>1
    <3> QED  BY <2>1, <3>2 DEF Recalls, Marks, CopyLanes
  <2>5. Recalls(stored[q], truth)'
    BY <1>1, <2>4 DEF Recalls, CopyLanes
  <2> QED  BY <1>1, <1>4, <2>1, <2>3, <2>5
<1> QED  BY <1>3, <1>6 DEF SoloTurns

-----------------------------------------------------------------------------
(* Whose turn is next: the room, step by step.                             *)

\* A room where nothing but time has changed.
LEMMA SameTurns ==
    ASSUME NEW w \in Rooms, TurnFits(w), panel' = panel, net' = net, truth'.turn = truth.turn
    PROVE  TurnFits(w)'
  BY DEF TurnFits, Heeds, Stops

\* A quiet room that a page leaves, or where time passes.
LEMMA RestTurns ==
    ASSUME TypeOK, NEW w \in Rooms, Room(w), TurnFits(w), net = {}, net' = {}, truth'.turn = truth.turn,
           \A x \in Panels : panel'[x] = panel[x] \/ ~panel'[x].link,
           NEW v \in Rooms, Rested(v, w, 0)
    PROVE  TurnFits(v)'
<1>1. v.c = w.c /\ v.mode = w.mode /\ v.joiner = 0
  BY DEF Rested
<1>2. ASSUME Between(w.mode, w.c, truth.turn), NEW x \in Panels, Heeds(v, x)'
      PROVE  Points(w.c, panel'[x].board.lastRan, truth.turn)
  <2>1. panel'[x] = panel[x] /\ panel[x].link /\ ~panel[x].offer
    BY <1>1, <1>2, PanelsAssumption DEF Heeds
  <2> QED  BY <1>2, <2>1, TurnRests
<1>3. \A l \in Lanes : w.c[l].phase = "running" => truth.turn = l
  BY DEF TurnFits
<1> QED  BY <1>1, <1>2, <1>3 DEF TurnFits

\* A quiet room that a page joins: only its ask is in flight.
LEMMA JoinTurns ==
    ASSUME TypeOK, PagesFit, Patient, NEW w \in Rooms, Room(w), TurnFits(w), NEW p \in Panels, Open(p),
           NEW y \in Panels, y # p, panel[y].link, NEW v \in Rooms, Rested(v, w, p)
    PROVE  TurnFits(v)'
<1> DEFINE s == [panel[p] EXCEPT !.link = TRUE, !.away = FALSE]
           restored == ~s.offer /\ stored[p] # {}
           claim == Minted(p, s.stamp, FALSE, 0)
<1>1. /\ ~panel[p].link /\ Calm(p)
      /\ \A q \in Panels \ {p} : panel'[q] = panel[q]
      /\ panel'[p] = IF restored THEN [s EXCEPT !.stamp = claim] ELSE s
      /\ net' = net \union Fanout(p, {AskFrame(p)} \union
                                     IF restored THEN {SelectionFrame(claim, s)} ELSE {})
      /\ truth' = truth
  BY OpenGives
<1>2. net = {} /\ \A q \in Panels \ {p} : panel[q].link => ~panel[q].offer
  BY <1>1 DEF Calm
<1>3. s.offer = panel[p].offer /\ s.stamp = panel[p].stamp
  BY DEF TypeOK, Pages
<1> HIDE DEF s, claim
<1>4. panel[p].offer
  BY <1>1 DEF PagesFit
<1>5. panel'[p] = s /\ net' = net \union Fanout(p, {AskFrame(p)})
  <2>1. ~restored /\ {AskFrame(p)} \union {} = {AskFrame(p)}
    BY <1>3, <1>4
  <2> HIDE DEF restored
  <2> QED  BY <1>1, <2>1
<1>6. panel'[p].stamp.seq = 0
  BY <1>1, <1>3, <1>5 DEF PagesFit, InitialStamp
<1>7. \A m \in net' : m.frame.kind = "ask"
  BY <1>2, <1>5, FanoutIs DEF AskFrame
<1>8. v.c = w.c /\ v.mode = w.mode /\ v.joiner = p
  BY DEF Rested
<1>9. ASSUME Between(w.mode, w.c, truth.turn), NEW x \in Panels, Heeds(v, x)'
      PROVE  Points(w.c, panel'[x].board.lastRan, truth.turn)
  <2>1. x # p
    BY <1>6, <1>8, <1>9 DEF Heeds
  <2>2. panel'[x] = panel[x] /\ panel[x].link /\ ~panel[x].offer
    BY <1>1, <1>2, <1>8, <1>9, <2>1 DEF Heeds
  <2> QED  BY <1>2, <1>9, <2>2, TurnRests
<1>10. \A l \in Lanes : w.c[l].phase = "running" => truth.turn = l
  BY DEF TurnFits
<1>11. \A x \in Panels : panel'[x].link /\ x # p => ~panel'[x].offer
  BY <1>1, <1>2
<1> QED  BY <1>1, <1>7, <1>8, <1>9, <1>10, <1>11 DEF TurnFits, Countdowns

\* A page alone is a room.
LEMMA AloneTurns ==
    TypeOK /\ PagesFit /\ SoloTurns /\ net = {} =>
      \A p \in Panels : Solo(p) => \A v \in Rooms : Alone(v, p) => TurnFits(v)
<1> SUFFICES ASSUME TypeOK, PagesFit, SoloTurns, net = {}, NEW p \in Panels, Solo(p), NEW v \in Rooms,
                    Alone(v, p)
             PROVE  TurnFits(v)
  OBVIOUS
<1>1. v.c = panel[p].board.lane /\ v.mode = panel[p].mode /\ v.joiner = 0
  BY DEF Alone
<1>2. panel[p].offer => \A l \in Lanes : panel[p].board.lane[l].phase = "idle"
  BY OfferedRests
<1>3. ~panel[p].offer => Turns(panel[p].mode, panel[p].board, truth)
  BY DEF SoloTurns
<1>4. \A l \in Lanes : v.c[l].phase = "running" => truth.turn = l
  BY <1>1, <1>2, <1>3 DEF Turns, Marks
<1>5. \A x \in Panels : Heeds(v, x) => x = p /\ ~panel[p].offer
  BY <1>1, PanelsAssumption DEF Heeds, Solo
<1>6. \A x \in Panels : Between(v.mode, v.c, truth.turn) /\ Heeds(v, x) =>
        Points(v.c, panel[x].board.lastRan, truth.turn)
  BY <1>1, <1>3, <1>5 DEF Turns
<1> QED  BY <1>4, <1>6 DEF TurnFits

LEMMA AloneTurnsNext ==
    (TypeOK /\ PagesFit /\ SoloTurns /\ net = {} =>
       \A p \in Panels : Solo(p) => \A v \in Rooms : Alone(v, p) => TurnFits(v))'
  BY AloneTurns, PTL

LEMMA TurnsOpen ==
    ASSUME Init, TypeOK
    PROVE  SoloTurns /\ TurnHolds
<1>1. \A x \in Panels : ~panel[x].link /\ ~panel[x].away
  BY DEF Init, Page
<1>2. net = {} /\ truth.turn = 0
  BY DEF Init, NoTurns
<1>3. PICK v \in Rooms : Room(v) /\ TruthFits(v) /\ \A l \in Lanes : v.c[l].phase = "idle"
  BY RoomOpens
<1>4. TurnFits(v)
  BY <1>2, <1>3 DEF TurnFits, Between
<1> QED  BY <1>1, <1>3, <1>4 DEF SoloTurns, Solo, TurnHolds

LEMMA TurnsAreKept ==
    ASSUME Patient, 0 \notin Drafts, TurnInv, [Next]_vars
    PROVE  TurnInv'
<1>1. TypeOK /\ PagesFit /\ SoloFits /\ SoloCounts /\ SoloTurns /\ RoomInv /\ PagesSound
  BY DEF TurnInv, RoomInv
<1>2. RoomInv' /\ TypeOK' /\ PagesFit' /\ SoloFits' /\ SoloCounts'
  BY <1>1, RoomIsKept DEF RoomInv
<1>3. PagesSound'
  BY <1>1, PagesSoundIsKept
<1>4. PICK w \in Rooms : Room(w) /\ TruthFits(w) /\ TurnFits(w)
  BY DEF TurnInv, TurnHolds
<1>5. ASSUME NEW p \in Panels, NEW mode, NEW b, NEW frames, Acts(p, mode, b, frames)
      PROVE  SoloTurns' /\ TurnHolds'
  <2>1. PICK v \in Rooms : Acted(v, p, mode, b) /\ Room(v)' /\ TruthFits(v)'
    BY <1>1, <1>2, <1>4, <1>5, ActsRoom
  <2>2. TurnFits(v)'
    BY <1>1, <1>4, <1>5, <2>1, ActsTurns
  <2>3. SoloTurns'
    BY <1>1, <1>2, <1>5, ActsSoloTurns
  <2> QED  BY <2>1, <2>2, <2>3 DEF TurnHolds
<1>6. ASSUME NEW p \in Panels, Presses(p)
      PROVE  SoloTurns' /\ TurnHolds'
  <2>1. PICK mode \in Modes : \E b \in Boards : \E frames \in SUBSET CountFrames : Acts(p, mode, b, frames)
    BY <1>1, <1>4, <1>6, PressStirs
  <2>2. PICK b \in Boards : \E frames \in SUBSET CountFrames : Acts(p, mode, b, frames)
    BY <2>1
  <2> QED  BY <1>5, <2>2
<1>7. ASSUME NEW p \in Panels, NEW l \in Lanes, Expire(p, l)
      PROVE  SoloTurns' /\ TurnHolds'
  <2>1. PICK b \in Boards : \E f \in CountFrames : Crossing(p, l, b, f)
    BY <1>1, <1>7, ExpiryCrosses
  <2>2. PICK f \in CountFrames : Crossing(p, l, b, f)
    BY <2>1
  <2>3. CASE net = {}
    <3>1. Acts(p, panel[p].mode, b, {f})
      BY <1>1, <1>4, <2>2, <2>3, CrossingStirs
    <3> QED  BY <1>5, <3>1
  <2>4. CASE net # {}
    <3>1. PICK v \in Rooms : Kept(v, w) /\ Room(v)' /\ TruthFits(v)'
      BY <1>1, <1>2, <1>4, <2>2, <2>4, TwinRoom
    <3>2. TurnFits(v)'
      BY <1>1, <1>4, <2>2, <2>4, <3>1, TwinTurns
    <3>3. Event(p, panel[p].mode, b, {f})
      BY <2>2 DEF Crossing
    <3>4. \A x \in Panels : panel'[x].link = panel[x].link /\ panel'[x].away = panel[x].away
      BY <1>1, <3>3, EventPage
    <3>5. SoloTurns'
      BY <1>1, <2>4, <3>4, BusySoloTurns
    <3> QED  BY <3>1, <3>2, <3>5 DEF TurnHolds
  <2> QED  BY <2>3, <2>4
<1>8. ASSUME NEW p \in Panels, Deliver(p)
      PROVE  SoloTurns' /\ TurnHolds'
  <2>1. PICK m \in net : \E sent \in SUBSET Frames : Delivers(p, m, sent)
    BY <1>1, <1>8, DeliverIs
  <2>2. PICK sent \in SUBSET Frames : Delivers(p, m, sent)
    BY <2>1
  <2>3. PICK v \in Rooms :
          /\ Kept(v, w) /\ v.seq = (IF m.frame.kind = "ask" THEN panel'[p].stamp.seq ELSE w.seq)
          /\ Room(v)' /\ TruthFits(v)'
    BY <1>1, <1>2, <1>4, <2>2, DeliverRoom
  <2>4. TurnFits(v)'
    BY <1>1, <1>2, <1>4, <2>2, <2>3, DeliverTurns
  <2>5. \A x \in Panels : panel'[x].link = panel[x].link /\ panel'[x].away = panel[x].away
    BY <2>2 DEF Delivers
  <2>6. SoloTurns'
    BY <1>1, <2>1, <2>5, BusySoloTurns
  <2> QED  BY <2>3, <2>4, <2>6 DEF TurnHolds
<1>9. ASSUME SoloTurns', net' = {}, NEW p \in Panels, Solo(p)'
      PROVE  TurnHolds'
  <2>1. \E v \in Rooms : Alone(v, p)' /\ Room(v)' /\ TruthFits(v)'
    BY <1>2, <1>9, SoloRoomNext
  <2>2. \A v \in Rooms : Alone(v, p)' => TurnFits(v)'
    BY <1>2, <1>9, AloneTurnsNext
  <2> QED  BY <2>1, <2>2 DEF TurnHolds
<1>10. ASSUME NEW p \in Panels, Open(p)
       PROVE  SoloTurns' /\ TurnHolds'
  <2>1. SoloTurns'
    BY <1>1, <1>2, <1>10, OpenSoloTurns
  <2>2. CASE \E y \in Panels \ {p} : panel[y].link
    <3>1. PICK y \in Panels \ {p} : panel[y].link
      BY <2>2
    <3>2. PICK v \in Rooms : Rested(v, w, p) /\ Room(v)' /\ TruthFits(v)'
      BY <1>1, <1>4, <1>10, <3>1, JoinedRoom
    <3>3. TurnFits(v)'
      BY <1>1, <1>4, <1>10, <3>1, <3>2, JoinTurns
    <3> QED  BY <2>1, <3>2, <3>3 DEF TurnHolds
  <2>3. CASE \A y \in Panels \ {p} : ~panel[y].link
    <3>1. net' = {} /\ Solo(p)'
      BY <1>1, <1>10, <2>3, OpenAlone
    <3> QED  BY <1>9, <2>1, <3>1
  <2> QED  BY <2>2, <2>3
<1>11. ASSUME NEW p \in Panels, Reload(p)
       PROVE  SoloTurns' /\ TurnHolds'
  <2>1. SoloTurns'
    BY <1>1, <1>11, ReloadSoloTurns
  <2>2. PICK v \in Rooms : Rested(v, w, 0) /\ Room(v)' /\ TruthFits(v)'
    BY <1>1, <1>4, <1>11, ReloadRoom
  <2>3. /\ Calm(p) /\ \A q \in Panels \ {p} : panel'[q] = panel[q]
        /\ panel'[p] = [Page(panel[p].mode) EXCEPT !.away = TRUE]
        /\ net' = net /\ truth' = truth
    BY <1>1, <1>11, ReloadGives
  <2>4. net = {} /\ ~panel'[p].link
    BY <2>3 DEF Calm, Page
  <2>5. TurnFits(v)'
    BY <1>1, <1>4, <2>2, <2>3, <2>4, RestTurns
  <2> QED  BY <2>1, <2>2, <2>5 DEF TurnHolds
<1>12. ASSUME NEW p \in Panels, Restore(p)
       PROVE  SoloTurns' /\ TurnHolds'
  <2>1. Restores(p)
    BY <1>1, <1>12, RestoreIs
  <2>2. SoloTurns'
    BY <1>1, <2>1, RestoreSoloTurns
  <2>3. net' = {} /\ Solo(p)'
    BY <2>1 DEF Restores, Solo
  <2> QED  BY <1>9, <2>2, <2>3
<1>13. ASSUME Tick  PROVE SoloTurns' /\ TurnHolds'
  <2>1. SoloTurns'
    BY <1>1, <1>13, TickSoloTurns
  <2>2. PICK v \in Rooms : ((Rested(v, w, 0) /\ net = {}) \/ v = w) /\ Room(v)' /\ TruthFits(v)'
    BY <1>1, <1>4, <1>13, TickRoom
  <2>3. panel' = panel /\ net' = net /\ truth'.turn = truth.turn
    BY <1>1, <1>13, GroundIs DEF Tick, Truths, TypeOK
  <2>4. TurnFits(v)'
    BY <1>1, <1>4, <2>2, <2>3, RestTurns, SameTurns
  <2> QED  BY <2>1, <2>2, <2>4 DEF TurnHolds
<1>14. ASSUME UNCHANGED vars  PROVE SoloTurns' /\ TurnHolds'
  <2>1. panel' = panel /\ stored' = stored /\ net' = net /\ now' = now /\ truth' = truth
    BY <1>14 DEF vars
  <2>2. SoloTurns'
    BY <1>1, <2>1 DEF SoloTurns, Solo, Turns, Recalls, Marks, TurnCounts, CopyLanes
  <2>3. Room(w)'
    BY <1>4, <2>1 DEF Room, FramesFit, LanesFit, JoinFits, ZerosFit, LeaderFits, ClocksFit, ModesFit,
                      Asking, Awaits, Told, Shows
  <2>4. TruthFits(w)'
    BY <1>4, <2>1 DEF TruthFits, Spends
  <2>5. TurnFits(w)'
    BY <1>4, <2>1, SameTurns
  <2> QED  BY <2>2, <2>3, <2>4, <2>5 DEF TurnHolds
<1>15. SoloTurns' /\ TurnHolds'
  BY <1>6, <1>7, <1>8, <1>10, <1>11, <1>12, <1>13, <1>14 DEF Next, Presses
<1> QED  BY <1>2, <1>3, <1>15 DEF TurnInv

\* TurnsAlternate: with patient operators, after a turn of a battle the next press starts
\* the other lane unless it is spent, on every board of a quiet room: the presser's, those
\* that mirrored the turn, and those that joined or were restored since.
THEOREM RoomTurnsAlternate == ASSUME Patient, 0 \notin Drafts PROVE Spec => []TurnsAlternate
<1>1. Init => TurnInv
  BY PagesOpenFit, RoomOpens, PagesOpenSound, TurnsOpen DEF TurnInv, RoomInv, RoomHolds
<1>2. TurnInv /\ [Next]_vars => TurnInv'
  BY TurnsAreKept
<1>3. TurnInv => TurnsAlternate
  BY QuietTurnsAlternate DEF TurnInv, TurnHolds, RoomInv
<1> QED  BY <1>1, <1>2, <1>3, PTL DEF Spec

-----------------------------------------------------------------------------
(* The plate.                                                              *)

\* A route reads phases, breaks left and the last turn.
LEMMA RouteReads ==
    ASSUME NEW a, NEW b, NEW mode, a.lastRan = b.lastRan, a.lastRan \in Lanes \union {0},
           \A l \in Lanes : a.lane[l].phase = b.lane[l].phase /\ a.lane[l].left = b.lane[l].left
    PROVE  Route(mode, a) = Route(mode, b)
<1>1. \A l \in Lanes : Runs(a, l) <=> Runs(b, l)
  BY DEF Runs
<1>2. RunningLane(a) = RunningLane(b) /\ RunningLane(a) \in {0, 1, 2}
  BY <1>1, LanesAre DEF RunningLane
<1>3. QualiRoute(a) = QualiRoute(b)
  BY <1>1, <1>2, LanesAre, ZenonT(40) DEF QualiRoute, CanTakeBreak
<1> QED  BY <1>2, <1>3, LanesAre DEF Route, BattleRoute, AfterStop, AdvanceTarget

\* A press that does something starts a lane, stops the one that runs, or breaks it off.
LEMMA RouteIs ==
    ASSUME NEW mode \in Modes, NEW b, Sound(b), NEW t \in Nat,
           SettleThen(Route(mode, b), b, t).verb # "NOOP"
    PROVE  LET route == SettleThen(Route(mode, b), b, t)
           IN  /\ route.lane \in Lanes
               /\ \/ route.verb \in {"START", "RESUME"}
                  \/ route.verb = "STOP" /\ Runs(b, route.lane)
                  \/ route.verb = "TAKE BREAK" /\ CanTakeBreak(b, route.lane)
<1> DEFINE route == Route(mode, b)
           settled == SettleThen(route, b, t)
           live == RunningLane(b)
           target == AdvanceTarget(b)
           Does == /\ settled.lane \in Lanes
                   /\ \/ settled.verb \in {"START", "RESUME"}
                      \/ settled.verb = "STOP" /\ Runs(b, settled.lane)
                      \/ settled.verb = "TAKE BREAK" /\ CanTakeBreak(b, settled.lane)
<1>1. live \in {0, 1, 2} /\ (live # 0 => live \in Lanes /\ Runs(b, live))
  BY LanesAre DEF RunningLane
<1>2. target \in Lanes \union {0}
  <2>1. b.lastRan \in Lanes \union {0}
    BY DEF Sound, Boards
  <2> QED  BY <2>1, LanesAre DEF AdvanceTarget
<1>3. ASSUME NEW verb, NEW lane, NEW then, route = Press(verb, lane, then)
      PROVE  settled.verb = verb /\ settled.lane = lane
  BY <1>3 DEF SettleThen, Press
<1>4. \A reason : route # Noop(reason)
  BY <1>3 DEF Noop
<1>5. mode = "quali" =>
        \/ \E reason : route = Noop(reason)
        \/ live # 0 /\ CanTakeBreak(b, live) /\ route = Press("TAKE BREAK", live, Then("resumeRun", 0))
        \/ \E verb \in {"START", "RESUME"} : route = Press(verb, 1, AfterQualiStart(b.lane[1].left))
  BY DEF Route, QualiRoute
<1>6. mode # "quali" =>
        \/ live # 0 /\ route = Press("STOP", live, AfterStop(b, live, NoClock))
        \/ target = 0 /\ route = Noop("battleOver")
        \/ target # 0 /\ route = Press("START", target, Then("endsTurn", 0))
  BY DEF Route, BattleRoute
<1> HIDE DEF settled, route, live, target
<1>7. ASSUME live # 0, CanTakeBreak(b, live), route = Press("TAKE BREAK", live, Then("resumeRun", 0))
      PROVE  Does
  BY <1>1, <1>3, <1>7
<1>8. ASSUME NEW verb \in {"START", "RESUME"}, route = Press(verb, 1, AfterQualiStart(b.lane[1].left))
      PROVE  Does
  BY <1>3, <1>8, LanesAre, ZenonT(40)
<1>9. ASSUME live # 0, route = Press("STOP", live, AfterStop(b, live, NoClock))
      PROVE  Does
  BY <1>1, <1>3, <1>9
<1>10. ASSUME target # 0, route = Press("START", target, Then("endsTurn", 0))
       PROVE  Does
  BY <1>2, <1>3, <1>10
<1>11. Does
  BY <1>4, <1>5, <1>6, <1>7, <1>8, <1>9, <1>10
<1> QED  BY <1>11 DEF settled, route

\* Board c offers what board b does: it is in the same phases, after the same turn.
Follows(c, b) ==
    /\ c.lastRan = b.lastRan /\ c.lastRan \in Lanes \union {0}
    /\ \A k \in Lanes : c.lane[k].phase = b.lane[k].phase /\ c.lane[k].left = b.lane[k].left

\* A frame on a board that was in the phases of the presser's.
LEMMA FrameIsHeard ==
    ASSUME now \in Nat, NEW b \in Boards, NEW c \in Boards, OneTurn(c),
           \A k \in Lanes : c.lane[k].phase = b.lane[k].phase /\ c.lane[k].left = b.lane[k].left,
           NEW l \in Lanes, NEW lane, NEW after, NEW f \in CountFrames, f.lane = l,
           after.lane = [b.lane EXCEPT ![l] = lane], after.lastRan = l,
           Lands(f, c.lane[l]).phase = lane.phase, Lands(f, c.lane[l]).left = lane.left,
           f.kind = "start" \/ (f.kind \in {"stop", "break"} /\ Runs(b, l))
    PROVE  Follows(Mirrored(c, f), after)
<1> DEFINE heard == Mirrored(c, f)
<1>1. /\ heard.lane = [c.lane EXCEPT ![f.lane] = Lands(f, c.lane[f.lane])]
      /\ heard.lastRan = IF f.kind = "start" THEN f.lane ELSE IF f.kind = "reset" THEN 0 ELSE c.lastRan
  BY MirroredGives
<1>2. Runs(b, l) => c.lastRan = l
  BY DEF Runs, OneTurn
<1> HIDE DEF heard
<1>3. heard.lastRan = l
  BY <1>1, <1>2
<1>4. b.lane \in [Lanes -> LaneStates] /\ c.lane \in [Lanes -> LaneStates]
  BY BoardParts
<1>5. ASSUME NEW k \in Lanes
      PROVE  heard.lane[k].phase = after.lane[k].phase /\ heard.lane[k].left = after.lane[k].left
  <2>1. CASE k = l
    BY <1>1, <1>4, <2>1
  <2>2. CASE k # l
    BY <1>1, <1>4, <2>2
  <2> QED  BY <2>1, <2>2
<1>6. Follows(heard, after)
  BY <1>3, <1>5 DEF Follows
<1> QED  BY <1>6 DEF heard

LEMMA StartIsHeard ==
    ASSUME now \in Nat, NEW b \in Boards, NEW c \in Boards, OneTurn(c),
           \A k \in Lanes : c.lane[k].phase = b.lane[k].phase /\ c.lane[k].left = b.lane[k].left,
           NEW l \in Lanes
    PROVE  Follows(Mirrored(c, StartFrame(l, Start(b, l, now))), Start(b, l, now))
<1> DEFINE lane == Lane("running", b.lane[l].budget, b.lane[l].armed, now, 0, b.lane[l].left)
           after == Start(b, l, now)
           f == StartFrame(l, after)
<1>1. b.lane[l].budget \in Nat
  BY BoardParts, LaneParts
<1>2. after \in Boards /\ after.lane = [b.lane EXCEPT ![l] = lane] /\ after.lastRan = l
  BY <1>1, BeginTurnGives DEF Start
<1> HIDE DEF after
<1>3. f \in CountFrames /\ f.kind = "start" /\ f.lane = l
  BY <1>2, CountFramesAre DEF StartFrame, CountFrames
<1> HIDE DEF f
<1>4. Lands(f, c.lane[l]).phase = lane.phase /\ Lands(f, c.lane[l]).left = lane.left
  BY <1>3 DEF Lands, Lane
<1> HIDE DEF lane
<1>5. Follows(Mirrored(c, f), after)
  BY <1>2, <1>3, <1>4, FrameIsHeard
<1> QED  BY <1>5 DEF after, f

LEMMA StopIsHeard ==
    ASSUME now \in Nat, NEW b \in Boards, OneTurn(b), NEW c \in Boards, OneTurn(c),
           \A k \in Lanes : c.lane[k].phase = b.lane[k].phase /\ c.lane[k].left = b.lane[k].left,
           NEW l \in Lanes, Runs(b, l)
    PROVE  Follows(Mirrored(c, StopFrame(l, Stop(b, l, now))), Stop(b, l, now))
<1> DEFINE rest == Remaining(b.lane[l], now)
           lane == StoppedLane(rest, b.lane[l])
           after == Stop(b, l, now)
           f == StopFrame(l, after)
<1>1. rest \in Nat /\ b.lane \in [Lanes -> LaneStates]
  BY BoardParts, RemainingIsNat
<1>2. after = EndTurn(b, l, rest, now)
  BY DEF Stop
<1> HIDE DEF rest
<1>3. lane.budget = rest
  BY DEF StoppedLane, Finished, Idle, Lane
<1> HIDE DEF after
<1>4. after \in Boards /\ after.lane = [b.lane EXCEPT ![l] = lane] /\ after.lastRan = b.lastRan
  BY <1>1, <1>2, EndTurnGives
<1>5. after.lastRan = l
  BY <1>4 DEF OneTurn
<1> HIDE DEF lane
<1>6. after.lane[l].budget = rest
  BY <1>1, <1>3, <1>4
<1>7. f \in CountFrames /\ f.kind = "stop" /\ f.lane = l /\ f.remaining = rest
  BY <1>4, <1>6, CountFramesAre DEF StopFrame, CountFrames
<1> HIDE DEF f
<1>8. Lands(f, c.lane[l]) = StoppedLane(rest, c.lane[l])
  BY <1>7 DEF Lands
<1>9. c.lane[l].left = b.lane[l].left
  OBVIOUS
<1>10. Lands(f, c.lane[l]).phase = lane.phase /\ Lands(f, c.lane[l]).left = lane.left
  BY <1>8, <1>9 DEF lane, StoppedLane, Finished, Idle, Lane
<1>11. Follows(Mirrored(c, f), after)
  BY <1>4, <1>5, <1>7, <1>10, FrameIsHeard
<1> QED  BY <1>11 DEF after, f

LEMMA BreakIsHeard ==
    ASSUME now \in Nat, NEW b \in Boards, OneTurn(b), NEW c \in Boards, OneTurn(c),
           \A k \in Lanes : c.lane[k].phase = b.lane[k].phase /\ c.lane[k].left = b.lane[k].left,
           NEW l \in Lanes, CanTakeBreak(b, l)
    PROVE  Follows(Mirrored(c, BreakFrame(l, TakeBreak(b, l, now))), TakeBreak(b, l, now))
<1> DEFINE lane == Lane("onBreak", Remaining(b.lane[l], now), b.lane[l].armed, now, BreakMs,
                        b.lane[l].left - 1)
           after == TakeBreak(b, l, now)
           f == BreakFrame(l, after)
<1>1. Runs(b, l) /\ b.lane[l].left > 0 /\ b.lane \in [Lanes -> LaneStates]
  BY BoardParts DEF CanTakeBreak
<1>2. /\ after \in Boards /\ after.lane = [b.lane EXCEPT ![l] = lane] /\ after.pause = b.pause
      /\ after.lastRan = b.lastRan
  <2>1. b.lane[l].left > 0
    BY <1>1
  <2> QED  BY <2>1, TakeBreakGives, ZenonT(30)
<1> HIDE DEF after
<1>3. after.lastRan = l
  BY <1>1, <1>2 DEF OneTurn
<1>4. lane.left = b.lane[l].left - 1 /\ lane.phase = "onBreak"
  BY DEF Lane
<1> HIDE DEF lane
<1>5. after.lane[l] = lane
  BY <1>1, <1>2
<1>6. f \in CountFrames /\ f.kind = "break" /\ f.lane = l /\ f.left = lane.left
  BY <1>2, <1>5, CountFramesAre DEF BreakFrame, CountFrames
<1> HIDE DEF f
<1>7. Lands(f, c.lane[l]).phase = lane.phase /\ Lands(f, c.lane[l]).left = lane.left
  BY <1>4, <1>6 DEF Lands, Lane
<1>8. Follows(Mirrored(c, f), after)
  BY <1>1, <1>2, <1>3, <1>6, <1>7, FrameIsHeard
<1> QED  BY <1>8 DEF after, f

\* What a press does to the presser's board, its frame does to a board that shows the same.
LEMMA HeardIsDone ==
    ASSUME now \in Nat, NEW b \in Boards, OneTurn(b), NEW c \in Boards, OneTurn(c),
           \A k \in Lanes : c.lane[k].phase = b.lane[k].phase /\ c.lane[k].left = b.lane[k].left,
           NEW route, route.lane \in Lanes,
           \/ route.verb \in {"START", "RESUME"}
           \/ route.verb = "STOP" /\ Runs(b, route.lane)
           \/ route.verb = "TAKE BREAK" /\ CanTakeBreak(b, route.lane)
    PROVE  LET after == Dispatched(route, b, now)
           IN  Follows(Mirrored(c, PressFrame(route, after)), after)
<1>1. CASE route.verb \in {"START", "RESUME"}
  BY <1>1, StartIsHeard DEF Dispatched, PressFrame
<1>2. CASE route.verb = "STOP" /\ Runs(b, route.lane)
  BY <1>2, StopIsHeard DEF Dispatched, PressFrame
<1>3. CASE route.verb = "TAKE BREAK" /\ CanTakeBreak(b, route.lane)
  BY <1>3, BreakIsHeard DEF Dispatched, PressFrame
<1> QED  BY <1>1, <1>2, <1>3

LEMMA QuietPlate ==
    ASSUME RoomInv, PagesSound
    PROVE  PlateKeepsItsPromise
<1>1. TypeOK
  BY DEF RoomInv
<1>2. PICK w \in Rooms : Room(w)
  BY DEF RoomInv, RoomHolds
<1> SUFFICES ASSUME net = {}, NEW p \in Joined
             PROVE  LET b == panel[p].board
                        route == SettleThen(Route(panel[p].mode, b), b, now)
                        after == Dispatched(route, b, now)
                    IN  /\ PromiseKept(panel[p].mode, b, now)
                        /\ route.verb # "NOOP" => \A q \in Joined \ {p} :
                             Keeps(route.then, Route(panel[q].mode,
                                                     Mirrored(panel[q].board, PressFrame(route, after))))
  BY DEF PlateKeepsItsPromise, Landed
<1> DEFINE mode == panel[p].mode
           b == panel[p].board
           route == SettleThen(Route(mode, b), b, now)
           after == Dispatched(route, b, now)
<1>3. /\ \A x \in Joined : Shows(panel[x].board.lane, w.c) /\ panel[x].mode = w.mode
      /\ Fitting(w.mode, w.c)
  BY <1>1, <1>2, RoomRests DEF Joined
<1>4. /\ \A x \in Joined : x \in Panels /\ Sound(panel[x].board)
      /\ now \in Nat /\ mode \in Modes
  BY <1>1, PageParts DEF TypeOK, Joined, Sound, PagesSound
<1>5. \A x \in Joined : \A k \in Lanes : /\ panel[x].board.lane[k].phase = w.c[k].phase
                                        /\ panel[x].board.lane[k].left = w.c[k].left
  <2> SUFFICES ASSUME NEW x \in Joined, NEW k \in Lanes
               PROVE  /\ panel[x].board.lane[k].phase = w.c[k].phase
                      /\ panel[x].board.lane[k].left = w.c[k].left
    OBVIOUS
  <2>1. panel[x].board.lane[k] \in LaneStates /\ w.c[k] \in LaneStates
    BY <1>4, BoardParts DEF Sound, Rooms, RowSet
  <2>2. Alike(panel[x].board.lane[k], w.c[k], now)
    BY <1>3 DEF Shows
  <2> QED  BY <1>4, <2>1, <2>2, AlikeMeans
<1>6. PromiseKept(mode, b, now)
  <2>1. mode = "quali" => ~Runs(b, 2)
    BY <1>3, <1>5, LanesAre DEF Fitting, Runs
  <2> HIDE DEF b, mode
  <2>2. Sound(b)
    BY <1>4 DEF b
  <2> QED  BY <1>4, <2>1, <2>2, ThePlateKeepsItsPromise DEF Modes
<1>7. ASSUME route.verb # "NOOP", NEW q \in Joined \ {p}
      PROVE  Keeps(route.then, Route(panel[q].mode,
                                     Mirrored(panel[q].board, PressFrame(route, after))))
  <2> DEFINE c == panel[q].board
             heard == Mirrored(c, PressFrame(route, after))
  <2>1. Sound(b) /\ Sound(c) /\ panel[q].mode = mode
    BY <1>3, <1>4
  <2>2. \A k \in Lanes : c.lane[k].phase = b.lane[k].phase /\ c.lane[k].left = b.lane[k].left
    BY <1>5
  <2> HIDE DEF b, c, mode
  <2>3. /\ route.lane \in Lanes
        /\ \/ route.verb \in {"START", "RESUME"}
           \/ route.verb = "STOP" /\ Runs(b, route.lane)
           \/ route.verb = "TAKE BREAK" /\ CanTakeBreak(b, route.lane)
    BY <1>4, <1>7, <2>1, RouteIs
  <2>4. Keeps(route.then, Route(mode, after))
    BY <1>6, <1>7 DEF PromiseKept
  <2> HIDE DEF route
  <2>5. Follows(heard, after)
    BY <1>4, <2>1, <2>2, <2>3, HeardIsDone DEF Sound
  <2> HIDE DEF heard, after
  <2>6. Route(mode, heard) = Route(mode, after)
    BY <2>5, RouteReads DEF Follows
  <2> QED  BY <2>1, <2>4, <2>6 DEF heard, c
<1> QED  BY <1>6, <1>7

\* PlateKeepsItsPromise: in a quiet room the machine accepts an ADVANCE press, and the press
\* its plate announced for afterwards is the one that every board then offers.
THEOREM RoomKeepsItsPromise == ASSUME Patient, 0 \notin Drafts PROVE Spec => []PlateKeepsItsPromise
<1>1. RoomInv /\ PagesSound => PlateKeepsItsPromise
  BY QuietPlate
<1> QED  BY <1>1, BattleRoomIsOne, BoardsStaySound, PTL
=============================================================================
