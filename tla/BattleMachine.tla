--------------------------- MODULE BattleMachine ---------------------------
(***************************************************************************)
(* The two lanes of a Freestyle board (web/src/app/util/battleMachine.ts): *)
(* a budget per lane that a turn spends, the advisory breaks of a quali    *)
(* run, the changeover pause, and who ran last.  Each operator is one      *)
(* event of the reducer, local or mirrored; its frames are BattleRoom's.   *)
(* Sounds are left out.                                                    *)
(***************************************************************************)
EXTENDS Integers

CONSTANT BreakMs    \* the length of a quali break

ASSUME BreakMsAssumption == BreakMs \in Nat \ {0}

Lanes == {1, 2}
Other(lane) == 3 - lane
MaxBreaks == 2
NoPause == -1

\* at is startedAt or breakStartedAt; rest is breakMs.
Lane(phase, budget, armed, at, rest, left) ==
    [phase |-> phase, budget |-> budget, armed |-> armed, at |-> at, rest |-> rest, left |-> left]

Idle(budget, armed, left) == Lane("idle", budget, armed, 0, 0, left)
Finished(armed, left) == Lane("finished", 0, armed, 0, 0, left)

\* pause: the changeover anchor; lastRan: the lane whose turn ended last.
InitialBoard(budget) ==
    [lane |-> [l \in Lanes |-> Idle(budget, budget, MaxBreaks)], pause |-> NoPause, lastRan |-> 0]

\* What is left of a duration that runs since `at`.
RemainingFrom(duration, at, now) == IF now - at >= duration THEN 0 ELSE duration - (now - at)

Remaining(lane, now) ==
    IF lane.phase = "running" THEN RemainingFrom(lane.budget, lane.at, now) ELSE lane.budget

Runs(b, l) == b.lane[l].phase = "running"
LaneLive(b) == \E l \in Lanes : Runs(b, l)
Pristine(lane) == lane.phase = "idle" /\ lane.budget = lane.armed

\* The lane an ADVANCE press starts next; 0 when both budgets are spent.
AdvanceTarget(b) ==
    LET lead == IF b.lastRan = 0 THEN 1 ELSE Other(b.lastRan)
        Spent(l) == b.lane[l].phase = "finished"
    IN  IF ~Spent(lead) THEN lead ELSE IF ~Spent(Other(lead)) THEN Other(lead) ELSE 0

-----------------------------------------------------------------------------
(* Builders shared by an event and its mirrored twin.                      *)

BeginTurn(b, l, budget, at) ==
    [b EXCEPT !.lane[l] = Lane("running", budget, @.armed, at, 0, @.left),
              !.pause = NoPause, !.lastRan = l]

StoppedLane(remaining, lane) ==
    IF remaining = 0 THEN Finished(lane.armed, lane.left) ELSE Idle(remaining, lane.armed, lane.left)

\* The anchor of the changeover pause once lane l stopped at `remaining`.
PauseAfter(b, l, remaining, at) ==
    IF remaining > 0 \/ b.lane[Other(l)].budget > 0 THEN at ELSE NoPause

EndTurn(b, l, remaining, at) ==
    [b EXCEPT !.lane[l] = StoppedLane(remaining, @), !.pause = PauseAfter(b, l, remaining, at)]

ResetLane(b, l, budget) ==
    [b EXCEPT !.lane[l] = Idle(budget, budget, MaxBreaks), !.pause = NoPause, !.lastRan = 0]

-----------------------------------------------------------------------------
(* Local events: a guard and the board after it.                           *)

CanStart(b, l) == ~Runs(b, Other(l)) /\ b.lane[l].phase \notin {"running", "finished"}
Start(b, l, at) == BeginTurn(b, l, b.lane[l].budget, at)

Stop(b, l, at) == EndTurn(b, l, Remaining(b.lane[l], at), at)

Timeout(b, l, at) == EndTurn(b, l, 0, at)

CanTakeBreak(b, l) == Runs(b, l) /\ b.lane[l].left > 0
TakeBreak(b, l, at) ==
    [b EXCEPT !.lane[l] = Lane("onBreak", Remaining(@, at), @.armed, at, BreakMs, @.left - 1)]

BreakZero(b, l) == [b EXCEPT !.lane[l] = Idle(@.budget, @.armed, @.left)]

\* SET_BUDGETS re-arms the pristine lanes, and no other.
ReArmed(b) == {l \in Lanes : Pristine(b.lane[l])}
SetBudgets(b, budget) ==
    IF ReArmed(b) = {} THEN b
    ELSE [b EXCEPT !.lane = [l \in Lanes |->
                               IF l \in ReArmed(b) THEN Idle(budget, budget, MaxBreaks) ELSE @[l]],
                   !.pause = NoPause, !.lastRan = 0]

-----------------------------------------------------------------------------
(* Mirrored events: the wire's values, unguarded but for the two named.    *)

\* A clock anchored when the frame came in.
MutPeerStart(b, l, remaining, startedAt, at) == BeginTurn(b, l, remaining, at)
PeerStart(b, l, remaining, startedAt, at) == BeginTurn(b, l, remaining, startedAt)

\* A duplicate stop re-anchors the pause.
MutPeerStop(b, l, remaining, at) == EndTurn(b, l, remaining, at)
\* Two panels' expiry timers fire the same crossing: a duplicate stop leaves
\* the pause where it is.
PeerStop(b, l, remaining, at) ==
    [b EXCEPT !.lane[l] = StoppedLane(remaining, @),
              !.pause = IF Runs(b, l) THEN PauseAfter(b, l, remaining, at) ELSE @]

PeerBreakStart(b, l, remaining, startedAt, rest, left) ==
    [b EXCEPT !.lane[l] = Lane("onBreak", remaining, @.armed, startedAt, rest, left)]

PeerBreakEnd(b, l, remaining) ==
    IF b.lane[l].phase # "onBreak" THEN b
    ELSE [b EXCEPT !.lane[l] = Idle(remaining, @.armed, @.left)]

\* One lane in a snapshot: what a clock has left, anchored at the sending.
Row(lane, now) ==
    CASE lane.phase = "running" -> [lane EXCEPT !.budget = Remaining(lane, now), !.at = now]
      [] lane.phase = "onBreak" -> [lane EXCEPT !.rest = RemainingFrom(lane.rest, lane.at, now), !.at = now]
      [] OTHER -> lane

\* Rows come from panels of this version: allowance and armed budget are aboard.
LaneFromSnapshot(row) ==
    IF row.phase \in {"onBreak", "running"} THEN row
    ELSE IF row.budget = 0 THEN Finished(row.armed, row.left)
    ELSE Idle(row.budget, row.armed, row.left)

PeerSnapshot(b, rows) ==
    LET hydrated == [b EXCEPT !.lane = [l \in Lanes |-> LaneFromSnapshot(rows[l])]]
    IN  IF ~LaneLive(hydrated) THEN hydrated
        ELSE [hydrated EXCEPT !.lastRan = IF Runs(hydrated, 1) THEN 1 ELSE 2]

\* The hint's lane taken for the one that ran.
MutPeerHint(b, nextUp, mode) ==
    IF nextUp = 0 \/ mode # "battle" \/ LaneLive(b) THEN b ELSE [b EXCEPT !.lastRan = nextUp]
\* nextUp (0 for none) names the lane that has not run.
PeerHint(b, nextUp, mode) ==
    IF nextUp = 0 \/ mode # "battle" \/ LaneLive(b) THEN b
    ELSE [b EXCEPT !.lastRan = Other(nextUp)]
=============================================================================
