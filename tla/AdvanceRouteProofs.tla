-------------------------- MODULE AdvanceRouteProofs --------------------------
(***************************************************************************)
(* What one Freestyle board owes its operator, for every pair of budgets,  *)
(* every allowance of breaks and every reading of the clock: its own       *)
(* events never leave two lanes running, the machine accepts the press the *)
(* router dispatches, and the plate announces the press that follows it.   *)
(***************************************************************************)
EXTENDS AdvanceRoute, TLAPS

Phases == {"idle", "running", "onBreak", "finished"}
LaneStates ==
    [phase : Phases, budget : Nat, armed : Nat, at : Nat, rest : Nat, left : Nat]
Boards == [lane : [Lanes -> LaneStates], pause : Nat \union {NoPause}, lastRan : Lanes \union {0}]

\* One turn at a time, and it is the last one that began.
OneTurn(b) == \A l \in Lanes : Runs(b, l) => ~Runs(b, Other(l)) /\ b.lastRan = l

Sound(b) == b \in Boards /\ OneTurn(b)

-----------------------------------------------------------------------------

\* The other lane is a lane.
LEMMA OtherIsALane ==
    ASSUME NEW l \in Lanes
    PROVE  Other(l) \in Lanes /\ Other(l) # l /\ Other(Other(l)) = l
  BY DEF Lanes, Other

\* What a clock has left is a natural number, whatever it is read against.
LEMMA RemainingIsNat ==
    ASSUME NEW lane \in LaneStates, NEW now \in Nat
    PROVE  Remaining(lane, now) \in Nat
  BY DEF Remaining, RemainingFrom, LaneStates

\* A turn begins: the only one, when the other lane does not run.
LEMMA StartIsSound ==
    ASSUME NEW b, Sound(b), NEW l \in Lanes, NEW at \in Nat, CanStart(b, l)
    PROVE  Sound(Start(b, l, at))
  <1>1. b.lane[l] \in LaneStates BY DEF Sound, Boards
  <1>2. Lane("running", b.lane[l].budget, b.lane[l].armed, at, 0, b.lane[l].left) \in LaneStates
    BY <1>1 DEF Lane, LaneStates, Phases
  <1>3. Start(b, l, at) \in Boards
    BY <1>2 DEF Start, BeginTurn, Sound, Boards
  <1>4. \A k \in Lanes : Runs(Start(b, l, at), k) <=> k = l \/ Runs(b, k)
    BY DEF Start, BeginTurn, Lane, Runs, Sound, Boards
  <1>5. Start(b, l, at).lastRan = l BY DEF Start, BeginTurn, Sound, Boards
  <1>6. ~Runs(b, l) /\ ~Runs(b, Other(l)) BY DEF CanStart, Runs
  <1>7. \A k \in Lanes : k = l \/ k = Other(l) BY DEF Lanes, Other
  <1>8. OneTurn(Start(b, l, at))
    BY <1>4, <1>5, <1>6, <1>7, OtherIsALane DEF OneTurn
  <1> QED BY <1>3, <1>8 DEF Sound

\* A turn ends, by a press or at zero: the lane holds what is left.
LEMMA EndIsSound ==
    ASSUME NEW b, Sound(b), NEW l \in Lanes, NEW rest \in Nat, NEW at \in Nat
    PROVE  /\ Sound(EndTurn(b, l, rest, at))
           /\ ~Runs(EndTurn(b, l, rest, at), l)
  <1>1. b.lane[l] \in LaneStates BY DEF Sound, Boards
  <1>2. StoppedLane(rest, b.lane[l]) \in LaneStates /\ StoppedLane(rest, b.lane[l]).phase # "running"
    BY <1>1 DEF StoppedLane, Finished, Idle, Lane, LaneStates, Phases
  <1>3. EndTurn(b, l, rest, at) \in Boards
    BY <1>2 DEF EndTurn, PauseAfter, Sound, Boards
  <1>4. \A k \in Lanes : Runs(EndTurn(b, l, rest, at), k) => k # l /\ Runs(b, k)
    BY <1>2 DEF EndTurn, Runs, Sound, Boards
  <1>5. EndTurn(b, l, rest, at).lastRan = b.lastRan BY DEF EndTurn, Sound, Boards
  <1>6. OneTurn(EndTurn(b, l, rest, at))
    BY <1>4, <1>5, OtherIsALane DEF OneTurn, Sound
  <1> QED BY <1>3, <1>4, <1>6 DEF Sound

\* A board whose lane l is replaced by one that does not run.
LEMMA HeldIsSound ==
    ASSUME NEW b, Sound(b), NEW l \in Lanes, NEW lane \in LaneStates, lane.phase # "running"
    PROVE  Sound([b EXCEPT !.lane[l] = lane])
  <1> DEFINE c == [b EXCEPT !.lane[l] = lane]
  <1>1. c \in Boards BY DEF Sound, Boards
  <1>2. \A k \in Lanes : Runs(c, k) => k # l /\ Runs(b, k) BY DEF Runs, Sound, Boards
  <1>3. c.lastRan = b.lastRan BY DEF Sound, Boards
  <1>4. OneTurn(c) BY <1>2, <1>3, OtherIsALane DEF OneTurn, Sound
  <1> QED BY <1>1, <1>4 DEF Sound

\* A lane re-armed at rest, and the cycle that starts over with it.
LEMMA ResetIsSound ==
    ASSUME NEW b, Sound(b), NEW l \in Lanes, NEW budget \in Nat, ~Runs(b, Other(l))
    PROVE  Sound(ResetLane(b, l, budget))
  <1>1. Idle(budget, budget, MaxBreaks) \in LaneStates
    BY DEF Idle, Lane, LaneStates, Phases, MaxBreaks
  <1>2. ResetLane(b, l, budget) \in Boards BY <1>1 DEF ResetLane, Sound, Boards
  <1>3. \A k \in Lanes : Runs(ResetLane(b, l, budget), k) => k # l /\ Runs(b, k)
    BY DEF ResetLane, Runs, Sound, Boards, Idle, Lane
  <1>4. \A k \in Lanes : k = l \/ k = Other(l) BY DEF Lanes, Other
  <1>5. OneTurn(ResetLane(b, l, budget)) BY <1>3, <1>4 DEF OneTurn
  <1> QED BY <1>2, <1>5 DEF Sound

\* Both lanes set to a budget while none runs.
LEMMA SetBudgetsIsSound ==
    ASSUME NEW b, Sound(b), NEW budget \in Nat, ~LaneLive(b)
    PROVE  Sound(SetBudgets(b, budget))
  <1>1. Idle(budget, budget, MaxBreaks) \in LaneStates
    BY DEF Idle, Lane, LaneStates, Phases, MaxBreaks
  <1>2. SetBudgets(b, budget) \in Boards BY <1>1 DEF SetBudgets, Sound, Boards
  <1>3. \A k \in Lanes : ~Runs(SetBudgets(b, budget), k)
    BY DEF SetBudgets, LaneLive, Runs, Sound, Boards, Idle, Lane
  <1> QED BY <1>2, <1>3 DEF Sound, OneTurn

-----------------------------------------------------------------------------
(* The board on its own.                                                   *)

\* An event of the operator's, or of one of the board's timers, under its guard.
OwnEvent(b, c, at) ==
    \/ \E l \in Lanes :
         \/ CanStart(b, l) /\ c = Start(b, l, at)
         \/ Runs(b, l) /\ c \in {Stop(b, l, at), Timeout(b, l, at)}
         \/ CanTakeBreak(b, l) /\ c = TakeBreak(b, l, at)
         \/ b.lane[l].phase = "onBreak" /\ c = BreakZero(b, l)
         \/ ~Runs(b, Other(l)) /\ c = ResetLane(b, l, b.lane[l].armed)
    \/ ~LaneLive(b) /\ \E budget \in Nat : c = SetBudgets(b, budget)

\* A board opens with no turn under way, whatever its budget.
THEOREM BoardsOpenSound ==
    ASSUME NEW budget \in Nat PROVE Sound(InitialBoard(budget))
  BY DEF InitialBoard, Sound, Boards, OneTurn, Runs, Idle, Lane, LaneStates, Phases, MaxBreaks

\* A board's own events never leave two lanes running, and the lane that runs is
\* the one whose turn began last (the interlock of the reducer, battleMachine.ts).
THEOREM OneTurnAtATime ==
    ASSUME NEW b, Sound(b), NEW at \in Nat, NEW c, OwnEvent(b, c, at)
    PROVE  Sound(c)
  <1>1. ASSUME NEW l \in Lanes, CanStart(b, l) PROVE Sound(Start(b, l, at))
    BY <1>1, StartIsSound
  <1>2. ASSUME NEW l \in Lanes PROVE Sound(Stop(b, l, at)) /\ Sound(Timeout(b, l, at))
    <2>1. b.lane[l] \in LaneStates BY DEF Sound, Boards
    <2>2. Remaining(b.lane[l], at) \in Nat BY <2>1, RemainingIsNat
    <2> QED BY <2>2, EndIsSound DEF Stop, Timeout
  <1>3. ASSUME NEW l \in Lanes, CanTakeBreak(b, l) PROVE Sound(TakeBreak(b, l, at))
    <2> DEFINE old == b.lane[l]
    <2> DEFINE lane == Lane("onBreak", Remaining(old, at), old.armed, at, BreakMs, old.left - 1)
    <2>1. old \in LaneStates BY DEF Sound, Boards
    <2>2. old.left - 1 \in Nat BY <1>3, <2>1 DEF CanTakeBreak, LaneStates
    <2>3. lane \in LaneStates /\ lane.phase # "running"
      BY <2>1, <2>2, RemainingIsNat, BreakMsAssumption DEF Lane, LaneStates, Phases
    <2>4. TakeBreak(b, l, at) = [b EXCEPT !.lane[l] = lane]
      BY DEF TakeBreak, Sound, Boards
    <2> HIDE DEF lane
    <2> QED BY <2>3, <2>4, HeldIsSound
  <1>4. ASSUME NEW l \in Lanes PROVE Sound(BreakZero(b, l))
    <2> DEFINE old == b.lane[l]
    <2> DEFINE lane == Idle(old.budget, old.armed, old.left)
    <2>1. lane \in LaneStates /\ lane.phase # "running"
      BY DEF Sound, Boards, Idle, Lane, LaneStates, Phases
    <2>2. BreakZero(b, l) = [b EXCEPT !.lane[l] = lane] BY DEF BreakZero, Sound, Boards
    <2> HIDE DEF lane
    <2> QED BY <2>1, <2>2, HeldIsSound
  <1>5. ASSUME NEW l \in Lanes, ~Runs(b, Other(l)) PROVE Sound(ResetLane(b, l, b.lane[l].armed))
    <2>1. b.lane[l].armed \in Nat BY DEF Sound, Boards, LaneStates
    <2> QED BY <1>5, <2>1, ResetIsSound
  <1> QED BY <1>1, <1>2, <1>3, <1>4, <1>5, SetBudgetsIsSound DEF OwnEvent

-----------------------------------------------------------------------------
(* The plate.                                                              *)

\* The live lane is the one that runs, when one does.
LEMMA RunningLaneIs ==
    ASSUME NEW b, OneTurn(b)
    PROVE  /\ RunningLane(b) = 0 <=> ~LaneLive(b)
           /\ \A l \in Lanes : Runs(b, l) <=> RunningLane(b) = l
  BY DEF RunningLane, LaneLive, OneTurn, Lanes, Other

\* The end of a turn: the partner's is next unless it is spent, then this lane's
\* own unless the stop spends it too.
LEMMA StopIsKept ==
    ASSUME NEW b, Sound(b), NEW now \in Nat, NEW l \in Lanes, Runs(b, l)
    PROVE  PromiseKept("battle", b, now)
  <1> DEFINE k == Other(l)
  <1> DEFINE rest == Remaining(b.lane[l], now)
  <1> DEFINE then == AfterStop(b, l, now)
  <1> DEFINE c == Stop(b, l, now)
  <1>1. RunningLane(b) = l /\ l # 0 /\ k \in Lanes /\ k # l
    BY RunningLaneIs, OtherIsALane DEF Sound, Lanes
  <1>2. Route("battle", b) = Press("STOP", l, AfterStop(b, l, NoClock))
    BY <1>1 DEF Route
  <1>3. now # NoClock BY DEF NoClock
  <1>4. SettleThen(Route("battle", b), b, now) = Press("STOP", l, then)
    BY <1>2, <1>3 DEF SettleThen, AfterStop, Press, Then, Unsettled, DeadEnd
  <1>5. rest \in Nat BY RemainingIsNat DEF Sound, Boards
  <1>6. Sound(c) /\ ~Runs(c, l) BY <1>5, EndIsSound DEF Stop
  <1>7. c.lane[l] = StoppedLane(rest, b.lane[l]) /\ c.lane[k] = b.lane[k] /\ c.lastRan = b.lastRan
    BY <1>1 DEF Stop, EndTurn, Sound, Boards
  <1>8. ~Runs(c, k) /\ c.lastRan = l BY <1>1, <1>7 DEF Sound, OneTurn, Runs
  <1>9. RunningLane(c) = 0
    BY <1>6, <1>8, <1>1, RunningLaneIs DEF LaneLive, Lanes, Other, Sound
  <1>10. c.lane[l].phase = "finished" <=> rest = 0
    BY <1>7 DEF StoppedLane, Finished, Idle, Lane
  <1>11. Route("battle", c) = BattleRoute(c) BY <1>9 DEF Route
  <1>12. Keeps(then, BattleRoute(c))
    <2>1. CASE b.lane[k].phase # "finished"
      <3>1. then = Then("startLane", k) BY <2>1 DEF AfterStop
      <3>2. AdvanceTarget(c) = k BY <2>1, <1>1, <1>7, <1>8 DEF AdvanceTarget, Lanes
      <3> QED BY <3>1, <3>2, <1>1 DEF Keeps, BattleRoute, Press, Then, Lanes
    <2>2. CASE b.lane[k].phase = "finished" /\ rest > 0
      <3>1. then = Then("laneAgain", l) BY <2>2, <1>3 DEF AfterStop
      <3>2. AdvanceTarget(c) = l
        BY <2>2, <1>1, <1>5, <1>7, <1>8, <1>10, OtherIsALane DEF AdvanceTarget, Lanes
      <3> QED BY <3>1, <3>2, <1>1 DEF Keeps, BattleRoute, Press, Then, Lanes
    <2>3. CASE b.lane[k].phase = "finished" /\ rest = 0
      <3>1. then = DeadEnd("battleOver") BY <2>3, <1>3 DEF AfterStop
      <3>2. AdvanceTarget(c) = 0
        BY <2>3, <1>1, <1>7, <1>8, <1>10, OtherIsALane DEF AdvanceTarget, Lanes
      <3> QED BY <3>1, <3>2 DEF Keeps, BattleRoute, Press, Then, Noop, DeadEnd
    <2> QED BY <2>1, <2>2, <2>3, <1>5
  <1>13. Dispatched(Press("STOP", l, then), b, now) = c BY DEF Dispatched, Press
  <1> HIDE DEF then, c
  <1> QED BY <1>4, <1>11, <1>12, <1>13 DEF PromiseKept, Press

\* A turn that begins is ended, or broken off, by the next press.
LEMMA StartIsKept ==
    ASSUME NEW b, Sound(b), NEW now \in Nat, ~LaneLive(b), NEW l \in Lanes,
           b.lane[l].phase # "finished"
    PROVE  /\ CanStart(b, l)
           /\ RunningLane(Start(b, l, now)) = l
           /\ Start(b, l, now).lane[l].left = b.lane[l].left
  <1>1. CanStart(b, l) BY OtherIsALane DEF CanStart, LaneLive, Runs
  <1>2. Sound(Start(b, l, now)) BY <1>1, StartIsSound
  <1>3. Runs(Start(b, l, now), l) /\ Start(b, l, now).lane[l].left = b.lane[l].left
    BY DEF Start, BeginTurn, Lane, Runs, Sound, Boards
  <1>4. RunningLane(Start(b, l, now)) = l BY <1>2, <1>3, RunningLaneIs DEF Sound
  <1> QED BY <1>1, <1>3, <1>4

\* "The board cannot promise something the press does not do" (advanceRoute.ts): on
\* one board, with any budgets, allowance and clock, the press after an ADVANCE
\* press is the one the plate announced, in either mode; a qualification never runs
\* the hidden lane.
THEOREM ThePlateKeepsItsPromise ==
    ASSUME NEW mode \in {"quali", "battle"}, NEW b, Sound(b), NEW now \in Nat,
           mode = "quali" => ~Runs(b, 2)
    PROVE  PromiseKept(mode, b, now)
  <1>1. CASE mode = "battle" /\ LaneLive(b)
    BY <1>1, StopIsKept DEF LaneLive
  <1>2. CASE mode = "battle" /\ ~LaneLive(b)
    <2> DEFINE l == AdvanceTarget(b)
    <2>1. SettleThen(Route("battle", b), b, now) = BattleRoute(b)
      BY <1>2, RunningLaneIs DEF Sound, Route, SettleThen, BattleRoute, Noop, Press, Then, Unsettled
    <2>2. CASE l = 0
      BY <2>1, <2>2, <1>2 DEF PromiseKept, BattleRoute, Noop, Press
    <2>3. CASE l # 0
      <3>1. l \in Lanes /\ b.lane[l].phase # "finished"
        BY <2>3, OtherIsALane DEF AdvanceTarget, Sound, Boards, Lanes, Other
      <3>2. BattleRoute(b) = Press("START", l, Then("endsTurn", 0)) BY <2>3 DEF BattleRoute
      <3> HIDE DEF l
      <3>3. /\ CanStart(b, l)
            /\ RunningLane(Start(b, l, now)) = l
        BY <3>1, <1>2, StartIsKept
      <3>4. Route("battle", Start(b, l, now)).verb = "STOP"
        BY <3>1, <3>3 DEF Route, Press, Lanes
      <3> DEFINE route == Press("START", l, Then("endsTurn", 0))
      <3>5. Dispatched(route, b, now) = Start(b, l, now) BY DEF Dispatched, Press
      <3>6. Keeps(route.then, Route("battle", Start(b, l, now)))
        BY <3>4 DEF Keeps, Press, Then
      <3>7. route.lane = l BY DEF Press
      <3>8. SettleThen(Route("battle", b), b, now) = route BY <2>1, <3>2
      <3> HIDE DEF route
      <3> QED BY <1>2, <3>3, <3>5, <3>6, <3>7, <3>8 DEF PromiseKept
    <2> QED BY <2>2, <2>3
  <1>3. CASE mode = "quali" /\ LaneLive(b)
    <2>1. RunningLane(b) = 1 /\ Runs(b, 1)
      BY <1>3, RunningLaneIs DEF LaneLive, Lanes, Sound
    <2>2. CASE CanTakeBreak(b, 1)
      <3> DEFINE c == TakeBreak(b, 1, now)
      <3> DEFINE route == Press("TAKE BREAK", 1, Then("resumeRun", 0))
      <3>0. Route("quali", b) = route BY <2>1, <2>2 DEF Route, QualiRoute
      <3>1. SettleThen(Route("quali", b), b, now) = route
        <4>1. Then("resumeRun", 0).kind # Unsettled.kind BY DEF Then, Unsettled
        <4>2. route.then # Unsettled BY <4>1 DEF Press
        <4> QED BY <3>0, <4>2 DEF SettleThen
      <3>2. c.lane[1].phase = "onBreak" /\ ~Runs(c, 1)
        BY DEF TakeBreak, Lane, Runs, Sound, Boards, Lanes
      <3>3. ~Runs(c, 2)
        BY <1>3, OtherIsALane DEF TakeBreak, Runs, Sound, Boards, Lanes
      <3>4. RunningLane(c) = 0 BY <3>2, <3>3 DEF RunningLane
      <3>5. Route("quali", c).verb = "RESUME"
        BY <3>2, <3>4 DEF Route, QualiRoute, CanTakeBreak, Press
      <3>6. Dispatched(route, b, now) = c BY DEF Dispatched, Press
      <3>7. Keeps(route.then, Route("quali", c)) BY <3>5 DEF Keeps, Press, Then
      <3>8. route.verb \notin {"START", "RESUME"} BY DEF Press
      <3> HIDE DEF c, route
      <3> QED BY <1>3, <3>1, <3>6, <3>7, <3>8 DEF PromiseKept
    <2>3. CASE ~CanTakeBreak(b, 1)
      BY <1>3, <2>1, <2>3 DEF PromiseKept, Route, QualiRoute, SettleThen, Noop, Press, Then, Unsettled
    <2> QED BY <2>2, <2>3
  <1>4. CASE mode = "quali" /\ ~LaneLive(b)
    <2>1. RunningLane(b) = 0 BY <1>4, RunningLaneIs DEF Sound
    <2>2. CASE b.lane[1].phase = "finished"
      BY <1>4, <2>1, <2>2 DEF PromiseKept, Route, QualiRoute, SettleThen, Noop, Press, Then, Unsettled
    <2>3. CASE b.lane[1].phase # "finished"
      <3> DEFINE c == Start(b, 1, now)
      <3> DEFINE then == AfterQualiStart(b.lane[1].left)
      <3>1. PICK verb \in {"START", "RESUME"} :
              SettleThen(Route("quali", b), b, now) = Press(verb, 1, then)
        BY <2>1, <2>3 DEF Route, QualiRoute, SettleThen, AfterQualiStart, DeadEnd, Press, Then, Unsettled
      <3>2. CanStart(b, 1) /\ RunningLane(c) = 1 /\ c.lane[1].left = b.lane[1].left
        BY <1>4, <2>3, StartIsKept DEF Lanes
      <3>3. Runs(c, 1) BY <3>2 DEF RunningLane
      <3>4. Keeps(then, Route("quali", c))
        BY <3>2, <3>3 DEF Route, QualiRoute, CanTakeBreak, AfterQualiStart, DeadEnd, Keeps, Noop, Press, Then
      <3>5. Dispatched(Press(verb, 1, then), b, now) = c BY DEF Dispatched, Press
      <3> HIDE DEF then, c
      <3> QED BY <1>4, <3>1, <3>2, <3>4, <3>5 DEF PromiseKept, Press
    <2> QED BY <2>2, <2>3
  <1> QED BY <1>1, <1>2, <1>3, <1>4
=============================================================================
