----------------------------- MODULE AdvanceRoute -----------------------------
(***************************************************************************)
(* The one-button ADVANCE of a Freestyle board                             *)
(* (web/src/app/util/advanceRoute.ts): which event of BattleMachine the    *)
(* next press dispatches, and which press the plate announces for          *)
(* afterwards.  The leg of an armed best-trick series and the wording of   *)
(* the plate are left out.                                                 *)
(***************************************************************************)
EXTENDS BattleMachine

\* lane 0 where none is meant
Press(verb, lane, then) == [verb |-> verb, lane |-> lane, then |-> then]
Then(kind, lane) == [kind |-> kind, lane |-> lane]

\* A dead end, as a route and as a follow-up.
Noop(reason) == Press("NOOP", 0, Then(reason, 0))
DeadEnd(reason) == Then(reason, 0)
Unsettled == Then("unsettled", 0)
NoClock == -1

\* The live lane; 0 when none is.
RunningLane(b) == IF Runs(b, 1) THEN 1 ELSE IF Runs(b, 2) THEN 2 ELSE 0

AfterQualiStart(left) == IF left > 0 THEN Then("takeBreak", 0) ELSE DeadEnd("noBreaksLeft")

\* The partner is always promised the next turn.
MutAfterStop(b, l, now) == Then("startLane", Other(l))
\* After the turn of lane l: its partner's, or whatever its own budget leaves,
\* which takes a clock to say.
AfterStop(b, l, now) ==
    CASE b.lane[Other(l)].phase # "finished" -> Then("startLane", Other(l))
      [] b.lane[Other(l)].phase = "finished" /\ now = NoClock -> Unsettled
      [] OTHER -> IF Remaining(b.lane[l], now) > 0 THEN Then("laneAgain", l)
                  ELSE DeadEnd("battleOver")

QualiRoute(b) ==
    LET live == RunningLane(b)
        verb == IF b.lane[1].phase = "onBreak" \/ b.lastRan # 0 THEN "RESUME" ELSE "START"
    IN  CASE live # 0 /\ CanTakeBreak(b, live) -> Press("TAKE BREAK", live, Then("resumeRun", 0))
          [] live # 0 /\ ~CanTakeBreak(b, live) -> Noop("noBreaksLeft")
          [] live = 0 /\ b.lane[1].phase = "finished" -> Noop("qualiFinished")
          [] OTHER -> Press(verb, 1, AfterQualiStart(b.lane[1].left))

BattleRoute(b) ==
    LET target == AdvanceTarget(b)
    IN  IF target = 0 THEN Noop("battleOver") ELSE Press("START", target, Then("endsTurn", 0))

\* The event a press dispatches never hangs on the clock; what follows a turn's
\* end may.
Route(mode, b) ==
    LET live == RunningLane(b)
    IN  CASE mode = "quali" -> QualiRoute(b)
          [] mode # "quali" /\ live # 0 -> Press("STOP", live, AfterStop(b, live, NoClock))
          [] OTHER -> BattleRoute(b)

\* The plate ticks: it settles what the route leaves open.
SettleThen(route, b, now) ==
    IF route.then # Unsettled THEN route ELSE [route EXCEPT !.then = AfterStop(b, route.lane, now)]

\* The press: the machine's own event, stamped with the clock.
Dispatched(route, b, at) ==
    CASE route.verb \in {"START", "RESUME"} -> Start(b, route.lane, at)
      [] route.verb = "STOP" -> Stop(b, route.lane, at)
      [] route.verb = "TAKE BREAK" -> TakeBreak(b, route.lane, at)
      [] route.verb = "NOOP" -> b

\* Whether a route is the press that a follow-up announced.
Keeps(then, route) ==
    CASE then.kind \in {"startLane", "laneAgain"} -> route.verb = "START" /\ route.lane = then.lane
      [] then.kind = "endsTurn" -> route.verb = "STOP"
      [] then.kind = "takeBreak" -> route.verb = "TAKE BREAK"
      [] then.kind = "resumeRun" -> route.verb = "RESUME"
      [] OTHER -> route.verb = "NOOP" /\ route.then = then

\* The machine accepts the press, and the plate announced the one that follows.
PromiseKept(mode, b, now) ==
    LET route == SettleThen(Route(mode, b), b, now)
    IN  route.verb # "NOOP" =>
          /\ route.verb \in {"START", "RESUME"} => CanStart(b, route.lane)
          /\ Keeps(route.then, Route(mode, Dispatched(route, b, now)))
=============================================================================
