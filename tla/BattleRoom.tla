----------------------------- MODULE BattleRoom -----------------------------
(***************************************************************************)
(* Freestyle panels on one board (web/src/app/hooks/useFreestyleBoard.ts): *)
(* each runs the machine of BattleMachine, sends its own events, mirrors   *)
(* the others', and lets its own expiry timers fire off mirrored clocks.   *)
(* A panel that opens asks the room and hydrates off the answer: the mode  *)
(* and the next-up hint from the selection, the lanes from the snapshot.   *)
(* A page that was reloaded and hears nobody falls back on the copy of its *)
(* own board it keeps on the device (web/src/app/state/selfSnapshotMemory).*)
(*                                                                         *)
(* Wall clocks agree.  Pushes of the selection leave with the event that   *)
(* caused them, and a panel acts once it is on the link: SelectionSync has *)
(* the rest of that protocol.                                              *)
(***************************************************************************)
EXTENDS AdvanceRoute, SelectionLww

CONSTANTS
    Preset,       \* per mode, the run budget of its format
    Drafts,       \* budgets an operator may set both lanes to
    Patient,      \* operators act only when nothing at all is in flight
    MaxTime,      \* bound: the clock
    MaxStarts, MaxBreakTakes, MaxArms,  \* bounds: operator presses
    MaxReloads,   \* bound: reloads of a page
    MaxAll        \* bound: breaks, re-arms and reloads together

Modes == {"quali", "battle"}

ASSUME PresetAssumption == Preset \in [Modes -> Nat \ {0}]
ASSUME DraftsAssumption == Drafts \subseteq Nat
ASSUME PatientAssumption == Patient \in BOOLEAN
ASSUME BattleBoundsAssumption == {MaxTime, MaxStarts, MaxBreakTakes, MaxArms, MaxReloads, MaxAll} \subseteq Nat

VARIABLES
    panel,   \* per page: on the link?, live frame in or out since?, being reloaded?,
             \* may its own copy still be restored?, stamp, mode, board
    stored,  \* per page: the device's copy of its board, a set of at most one
    net,     \* frames in flight, one copy per recipient
    now,     \* the wall clock
    truth,   \* history: lanes on turn, time they ran since armed, last turn
    count    \* the counters the bounds cap

vars == <<panel, stored, net, now, truth, count>>

Page(mode) ==
    [link |-> FALSE, live |-> FALSE, away |-> FALSE, offer |-> TRUE,
     stamp |-> InitialStamp, mode |-> mode, board |-> InitialBoard(Preset[mode])]

NoTurns == [on |-> {}, ran |-> [l \in Lanes |-> 0], turn |-> 0]

\* Pages about to open, each in the mode it last showed.
Init ==
    /\ panel \in [Panels -> {Page(m) : m \in Modes}]
    /\ stored = [p \in Panels |-> {}]
    /\ net = {}
    /\ now = 0
    /\ truth = NoTurns
    /\ count = [starts |-> 0, breaks |-> 0, arms |-> 0, reloads |-> 0]

-----------------------------------------------------------------------------
(* Frames.                                                                 *)

StartFrame(l, b) == [kind |-> "start", lane |-> l, remaining |-> b.lane[l].budget, at |-> b.lane[l].at]
StopFrame(l, b) == [kind |-> "stop", lane |-> l, remaining |-> b.lane[l].budget]
ResetFrame(l, b) == [kind |-> "reset", lane |-> l, remaining |-> b.lane[l].budget]
BreakFrame(l, b) ==
    [kind |-> "break", lane |-> l, remaining |-> b.lane[l].budget, at |-> b.lane[l].at,
     rest |-> b.lane[l].rest, left |-> b.lane[l].left]
BreakEndFrame(l, b) == [kind |-> "breakEnd", lane |-> l, remaining |-> b.lane[l].budget]

\* The part of the selection the machine moves: nextUp is 0 while a lane runs,
\* and outside a battle.
View(s) ==
    [mode |-> s.mode,
     nextUp |-> IF s.mode = "battle" /\ ~LaneLive(s.board) THEN AdvanceTarget(s.board) ELSE 0]

SelectionFrame(stamp, s) == [kind |-> "selection", stamp |-> stamp, view |-> View(s)]
AskFrame(p) == [kind |-> "ask", by |-> p]
Rows(s) == [l \in Lanes |-> Row(s.board.lane[l], now)]
SnapshotFrame(s) == [kind |-> "snapshot", rows |-> Rows(s)]

Countdowns == {"start", "stop", "reset", "break", "breakEnd"}

Fanout(p, frames) ==
    {[to |-> q, frame |-> f] : q \in {r \in Panels \ {p} : panel[r].link}, f \in frames}

\* When a clock of a board next crosses zero.
Deadlines(b) ==
    {b.lane[l].at + b.lane[l].budget : l \in {x \in Lanes : Runs(b, x)}}
        \union {b.lane[l].at + b.lane[l].rest : l \in {x \in Lanes : b.lane[x].phase = "onBreak"}}

DueBy(t) == \E p \in Panels : panel[p].link /\ \E d \in Deadlines(panel[p].board) : d <= t

-----------------------------------------------------------------------------
(* The copy on the device.  It is written 250 ms after the frame or push   *)
(* that queued it; here, with it.                                          *)

HasRun(rows) ==
    \E l \in Lanes : rows[l].phase \in {"running", "onBreak"} \/ rows[l].budget < rows[l].armed

\* A board without a run drops the copy.
Copy(s) == IF HasRun(Rows(s)) THEN {[rows |-> Rows(s), view |-> View(s)]} ELSE {}

-----------------------------------------------------------------------------
(* A panel's own event: its frames go out, and what it moved of the        *)
(* selection is claimed.                                                   *)

\* A press leaves the copy on offer.
MutClosed(s) == [s EXCEPT !.live = TRUE]
\* Live truth: no snapshot and no copy goes over it.
Closed(s) == [s EXCEPT !.live = TRUE, !.offer = FALSE]

Act(p, s, frames) ==
    LET moved == View(s) # View(panel[p])
        claim == Minted(p, s.stamp, TRUE, 0)
        sent  == frames \union IF moved THEN {SelectionFrame(claim, s)} ELSE {}
        acted == Closed(s)
    IN  /\ panel' = [panel EXCEPT ![p] = IF moved THEN [acted EXCEPT !.stamp = claim] ELSE acted]
        /\ stored' = [stored EXCEPT ![p] = Copy(s)]
        /\ net' = net \union Fanout(p, sent)
        /\ UNCHANGED now

\* Presses are a relay flight apart, and not in the instant of a crossing: the
\* decision record accepts the race of two actions inside one flight.  At the
\* least an operator acts on a page that has caught up.
Paced(p) ==
    IF Patient THEN net = {} /\ ~DueBy(now)
    ELSE \A m \in net : m.to # p /\ m.frame # AskFrame(p) /\ m.frame.kind \notin Countdowns

\* A press on a page still blank after its reload starts the match over: the
\* operator outranks the copy on the device.
Ground(p) == IF panel[p].offer THEN NoTurns ELSE truth

Counted(what, bound) ==
    /\ count[what] < bound
    /\ what # "starts" => count.breaks + count.arms + count.reloads < MaxAll
    /\ count' = [count EXCEPT ![what] = @ + 1]

Pressed(p, what, bound) == panel[p].link /\ Paced(p) /\ Counted(what, bound)

\* The lanes a mode shows; lane 2 is hidden in quali.
Recorded(mode) == IF mode = "quali" THEN {1} ELSE Lanes

StartLane(p, l) ==
    /\ l \in Recorded(panel[p].mode)
    /\ CanStart(panel[p].board, l)
    /\ Pressed(p, "starts", MaxStarts)
    /\ LET b == Start(panel[p].board, l, now)
       IN  Act(p, [panel[p] EXCEPT !.board = b], {StartFrame(l, b)})
    /\ truth' = [Ground(p) EXCEPT !.on = @ \union {l}, !.turn = l]

\* A turn takes a while before its stop or break.
Underway(b, l) == Runs(b, l) /\ now > b.lane[l].at

\* Stop, Break and Timeout are off the other lane's turn.
OffTurn(l) == [truth EXCEPT !.on = @ \ {l}]

StopLane(p, l) ==
    /\ panel[p].link /\ Paced(p)
    /\ Underway(panel[p].board, l) /\ ~Runs(panel[p].board, Other(l))
    /\ LET b == Stop(panel[p].board, l, now)
       IN  Act(p, [panel[p] EXCEPT !.board = b], {StopFrame(l, b)})
    /\ truth' = OffTurn(l)
    /\ UNCHANGED count

TakeABreak(p, l) ==
    /\ panel[p].mode = "quali" /\ l = 1
    /\ CanTakeBreak(panel[p].board, l) /\ Underway(panel[p].board, l)
    /\ ~Runs(panel[p].board, Other(l))
    /\ Pressed(p, "breaks", MaxBreakTakes)
    /\ LET b == TakeBreak(panel[p].board, l, now)
       IN  Act(p, [panel[p] EXCEPT !.board = b], {BreakFrame(l, b)})
    /\ truth' = OffTurn(l)

\* The lanes re-armed have run nothing and the cycle starts over.
ReArm(past, lanes) ==
    [on |-> past.on \ lanes, ran |-> [l \in Lanes |-> IF l \in lanes THEN 0 ELSE past.ran[l]],
     turn |-> 0]

\* Reset on a lane's card: back to what it was last armed to, also mid-turn.
Reset(p, l) ==
    /\ l \in Recorded(panel[p].mode)
    /\ ~Runs(panel[p].board, Other(l))
    /\ Pressed(p, "arms", MaxArms)
    /\ LET b == ResetLane(panel[p].board, l, panel[p].board.lane[l].armed)
       IN  Act(p, [panel[p] EXCEPT !.board = b], {ResetFrame(l, b)})
    /\ truth' = ReArm(Ground(p), {l})

\* The rail's re-arm for the next match: a Reset of every lane the mode records.
ResetRecorded(p) ==
    LET b == panel[p].board
        lanes == Recorded(panel[p].mode)
        after == [b EXCEPT !.lane = [l \in Lanes |-> IF l \in lanes
                                        THEN Idle(@[l].armed, @[l].armed, MaxBreaks) ELSE @[l]],
                           !.pause = NoPause, !.lastRan = 0]
    IN  /\ \A l \in lanes : ~Runs(b, Other(l))
        /\ Pressed(p, "arms", MaxArms)
        /\ Act(p, [panel[p] EXCEPT !.board = after], {ResetFrame(l, after) : l \in lanes})
        /\ truth' = ReArm(Ground(p), lanes)

\* What a re-arm of both lanes would discard (boardHold; warm-up and best
\* trick aside).
Holds(s) ==
    \/ \E l \in Lanes : ~Pristine(s.board.lane[l])
    \/ s.mode = "battle" /\ s.board.pause # NoPause

\* Set both lanes, and the mode toggle, which brings its format along.
Format(p, mode, budget) ==
    /\ ~Holds(panel[p])
    /\ Pressed(p, "arms", MaxArms)
    /\ LET lanes == ReArmed(panel[p].board)
           b == SetBudgets(panel[p].board, budget)
       IN  /\ Act(p, [panel[p] EXCEPT !.mode = mode, !.board = b], {ResetFrame(l, b) : l \in lanes})
           /\ truth' = ReArm(Ground(p), lanes)

ApplyRunBudget(p) == \E budget \in Drafts : Format(p, panel[p].mode, budget)
ApplyMode(p) == \E mode \in Modes \ {panel[p].mode} : Format(p, mode, Preset[mode])

-----------------------------------------------------------------------------
(* What happens to a panel.                                                *)

\* useLaneExpiry: each panel's own timer, off the clock it shows.
Expire(p, l) ==
    /\ panel[p].link
    /\ LET lane == panel[p].board.lane[l]
           b == IF lane.phase = "running" THEN Timeout(panel[p].board, l, now)
                ELSE BreakZero(panel[p].board, l)
       IN  \/ /\ lane.phase = "running" /\ now >= lane.at + lane.budget
              /\ Act(p, [panel[p] EXCEPT !.board = b], {StopFrame(l, b)})
              /\ truth' = OffTurn(l)
           \/ /\ lane.phase = "onBreak" /\ now >= lane.at + lane.rest
              /\ Act(p, [panel[p] EXCEPT !.board = b], {BreakEndFrame(l, b)})
              /\ UNCHANGED truth
    /\ UNCHANGED count

\* One page opens, or is away, at a time, and while nothing is under way.
Calm(p) ==
    Patient => /\ net = {} /\ ~DueBy(now)
               /\ \A q \in Panels \ {p} : ~panel[q].away /\ (panel[q].link => ~panel[q].offer)

\* Reloaded: the page is as new, but for the mode it last showed and its copy.
Reload(p) ==
    /\ panel[p].link /\ Calm(p)
    /\ Counted("reloads", MaxReloads)
    /\ panel' = [panel EXCEPT ![p] = [Page(@.mode) EXCEPT !.away = TRUE]]
    /\ UNCHANGED <<stored, net, now, truth>>

\* The selection, then the snapshot of a copy.
Recalled(s, copy) ==
    [s EXCEPT !.mode = copy.view.mode,
              !.board = PeerSnapshot(PeerHint(@, copy.view.nextUp, copy.view.mode), copy.rows)]

\* A page on the link claims what the copy moved of its selection.
Claiming(p, s) ==
    IF panel[p].link /\ View(s) # View(panel[p]) THEN
        [state |-> [s EXCEPT !.stamp = Minted(p, s.stamp, FALSE, 0)],
         sent  |-> {SelectionFrame(Minted(p, s.stamp, FALSE, 0), s)}]
    ELSE [state |-> s, sent |-> {}]

\* The grace for an answer is over, or the link has not come up: the copy goes
\* on the board, unless a frame came or the operator acted meanwhile.
Restore(p) ==
    /\ panel[p].offer
    /\ panel[p].link \/ panel[p].away
    /\ Patient => net = {} /\ (panel[p].link \/ \A q \in Panels : ~panel[q].link)
    /\ LET s == [panel[p] EXCEPT !.offer = FALSE]
       IN  \/ /\ stored[p] = {}
              /\ panel' = [panel EXCEPT ![p] = s]
              /\ UNCHANGED <<stored, net>>
           \/ \E copy \in stored[p] :
                LET done == Claiming(p, Recalled(s, copy))
                IN  /\ panel' = [panel EXCEPT ![p] = done.state]
                    /\ stored' = [stored EXCEPT ![p] = IF done.sent = {} THEN @ ELSE Copy(done.state)]
                    /\ net' = net \union Fanout(p, done.sent)
    /\ UNCHANGED <<now, truth, count>>

\* The first OPEN: the ask, and a push only of a board restored before it.
Open(p) ==
    /\ ~panel[p].link
    /\ Calm(p)
    /\ LET s == [panel[p] EXCEPT !.link = TRUE, !.away = FALSE]
           restored == ~s.offer /\ stored[p] # {}
           claim == Minted(p, s.stamp, FALSE, 0)
       IN  /\ panel' = [panel EXCEPT ![p] = IF restored THEN [s EXCEPT !.stamp = claim] ELSE s]
           /\ net' = net \union Fanout(p, {AskFrame(p)} \union
                                            IF restored THEN {SelectionFrame(claim, s)} ELSE {})
           /\ stored' = IF restored THEN [stored EXCEPT ![p] = Copy(s)] ELSE stored
    /\ UNCHANGED <<now, truth, count>>

\* The answer: the selection under the stamp held, or claimed by a panel that
\* holds none, and the snapshot.
Answer(p) ==
    LET s == panel[p]
        stamp == IF s.stamp.seq > 0 THEN Restated(p, s.stamp) ELSE Minted(p, s.stamp, FALSE, 0)
    IN  [state |-> IF s.stamp.seq > 0 THEN s ELSE [s EXCEPT !.stamp = stamp],
         sent  |-> {SelectionFrame(stamp, s), SnapshotFrame(s)}]

\* A countdown frame on the board (peerBattleEvent).
Mirrored(b, f) ==
    CASE f.kind = "start" -> PeerStart(b, f.lane, f.remaining, f.at, now)
      [] f.kind = "stop" -> PeerStop(b, f.lane, f.remaining, now)
      [] f.kind = "reset" -> ResetLane(b, f.lane, f.remaining)
      [] f.kind = "break" -> PeerBreakStart(b, f.lane, f.remaining, f.at, f.rest, f.left)
      [] f.kind = "breakEnd" -> PeerBreakEnd(b, f.lane, f.remaining)

\* A peer's selection: its stamp, its mode, its hint.
Followed(s, f) ==
    IF ~Outranks(f.stamp, s.stamp) THEN s
    ELSE [s EXCEPT !.stamp = f.stamp, !.mode = f.view.mode,
                   !.board = PeerHint(@, f.view.nextUp, f.view.mode)]

\* A snapshot, unless a live frame came in or went out since the page opened.
Hydrated(s, f) == IF s.live THEN s ELSE [s EXCEPT !.board = PeerSnapshot(@, f.rows)]

\* A frame handled: the page after it, and what it sends.  What the frame
\* moved of the selection is re-stated under the stamp held.
Handled(p, f) ==
    LET s == panel[p]
        heard == [s EXCEPT !.offer = FALSE]
        t == CASE f.kind \in Countdowns -> [Closed(s) EXCEPT !.board = Mirrored(@, f)]
               [] f.kind = "selection" -> Followed(heard, f)
               [] f.kind = "snapshot" -> Hydrated(heard, f)
    IN  IF f.kind = "ask" THEN Answer(p)
        ELSE [state |-> t,
              sent  |-> IF View(t) = View(s) THEN {} ELSE {SelectionFrame(Restated(p, t.stamp), t)}]

Deliver(p) ==
    /\ \E m \in net :
         /\ m.to = p
         /\ LET done == Handled(p, m.frame)
            IN  /\ panel' = [panel EXCEPT ![p] = done.state]
                /\ net' = (net \ {m}) \union Fanout(p, done.sent)
                /\ stored' = IF m.frame.kind \in Countdowns \/ View(done.state) # View(panel[p])
                             THEN [stored EXCEPT ![p] = Copy(done.state)] ELSE stored
    /\ UNCHANGED <<now, truth, count>>

\* Time passes.  Frames may take a while, but land before the next crossing:
\* the stop of a turn in the last flight before zero is a race of two stops.
Tick ==
    /\ now < MaxTime
    /\ net = {} \/ ~DueBy(now + 1)
    /\ now' = now + 1
    /\ truth' = [truth EXCEPT !.ran = [l \in Lanes |-> IF l \in truth.on THEN @[l] + 1 ELSE @[l]]]
    /\ UNCHANGED <<panel, stored, net, count>>

-----------------------------------------------------------------------------
Next ==
    \/ \E p \in Panels :
         \/ \E l \in Lanes :
              StartLane(p, l) \/ StopLane(p, l) \/ TakeABreak(p, l) \/ Reset(p, l) \/ Expire(p, l)
         \/ ResetRecorded(p) \/ ApplyRunBudget(p) \/ ApplyMode(p)
         \/ Reload(p) \/ Restore(p) \/ Open(p) \/ Deliver(p)
    \/ Tick

Spec == Init /\ [][Next]_vars

-----------------------------------------------------------------------------
(* Properties.                                                             *)

Landed == net = {}
Joined == {p \in Panels : panel[p].link /\ ~panel[p].offer}

\* When no frame is in flight the boards of the room show the same lanes: phase,
\* time left on every clock, armed budget and breaks left, whatever order events,
\* twin expiries, hints and snapshots came in.
LanesAgree ==
    Landed => \A p, q \in Joined, l \in Lanes :
        Row(panel[p].board.lane[l], now) = Row(panel[q].board.lane[l], now)

\* A turn spends its time and nothing gives time back: what a lane has left, on
\* every board, is the budget it was armed to less the time it was on turn since.
BudgetIsSpentOnce ==
    Landed => \A p \in Joined, l \in Lanes :
        Remaining(panel[p].board.lane[l], now)
            = RemainingFrom(panel[p].board.lane[l].armed, 0, truth.ran[l])

\* Turns of a battle alternate on every board, a joiner's included: after a turn
\* the next press starts the other lane unless it is spent (ADVANCE reads
\* lastRan, which no frame carries).
TurnsAlternate ==
    Landed /\ truth.turn # 0 => \A p \in Joined :
        LET b == panel[p].board
        IN  panel[p].mode = "battle" /\ ~LaneLive(b) =>
                AdvanceTarget(b) = AdvanceTarget([b EXCEPT !.lastRan = truth.turn])

\* The frame of a press on board b after it.
PressFrame(route, b) ==
    CASE route.verb \in {"START", "RESUME"} -> StartFrame(route.lane, b)
      [] route.verb = "STOP" -> StopFrame(route.lane, b)
      [] route.verb = "TAKE BREAK" -> BreakFrame(route.lane, b)

\* "The board cannot promise something the press does not do": in a quiet room an
\* ADVANCE press is one its machine accepts, and the press its plate announced for
\* afterwards is the one that every board of the room then offers, the presser's
\* and those that mirror it, joined, restored or re-armed whenever.
PlateKeepsItsPromise ==
    Landed => \A p \in Joined :
        LET b     == panel[p].board
            route == SettleThen(Route(panel[p].mode, b), b, now)
            after == Dispatched(route, b, now)
        IN  /\ PromiseKept(panel[p].mode, b, now)
            /\ route.verb # "NOOP" => \A q \in Joined \ {p} :
                 Keeps(route.then, Route(panel[q].mode,
                                         Mirrored(panel[q].board, PressFrame(route, after))))

\* The changeover pause counts from one moment: once anchored it is never
\* re-anchored, only cleared by a start or a re-arm (the duplicate stop of the
\* other panel's expiry timer).
PauseIsNotReanchored ==
    [][\A p \in Panels :
          LET before == panel[p].board.pause after == panel'[p].board.pause
          IN  before # NoPause /\ after # NoPause => after = before]_vars
=============================================================================
