---------------------------- MODULE StartLights ----------------------------
(***************************************************************************)
(* The start of a Speedline race across its surfaces: the control panels   *)
(* (web/src/app/pages/Speedline/ControlPage.tsx) and one display           *)
(* (SpeedlineTimerDisplay.tsx, util/previewLanes.ts).  A Start resets the  *)
(* board and arms the lights a moment later; only the SEED of the sequence *)
(* travels, with its anchor, and every other surface derives the lights    *)
(* from it; the driving panel's GO sends the authoritative start, while    *)
(* the display ignites its clocks from the seed alone.                     *)
(*                                                                         *)
(* The machines' wall clocks agree and every surface is on the link.  The  *)
(* two lanes ignite together; stops are RaceRoom's.                        *)
(***************************************************************************)
EXTENDS SignalTimer, Sequences, TLC

CONSTANTS
    Panels,
    Throttled,    \* the surfaces whose timers may fire late,
    MaxLate,      \* bound: how late
    StartDelay,   \* the pause between a Start and its lights
    Latency,      \* the longest flight of a frame
    Hasty,        \* operators press Start and Reset in the middle of things
    MaxStarts, MaxAborts, MaxResets,   \* bounds: presses
    MaxPress      \* bound: the last instant of a press

Display == 0
Surfaces == Panels \union {Display}

ASSUME SurfacesAssumption == Panels \subseteq Nat \ {0} /\ Throttled \subseteq Surfaces
ASSUME TimesAssumption == {StartDelay, Latency, MaxLate, MaxPress} \subseteq Nat
ASSUME PressesAssumption == {MaxStarts, MaxAborts, MaxResets} \subseteq Nat /\ Hasty \in BOOLEAN

VARIABLES
    now,       \* the wall clock
    local,     \* the sequence a panel drives
    mirror,    \* the sequence a surface mirrors
    static,    \* reactivePeerPhase of a panel, signalPhase of the display
    clock,     \* the start epoch of a panel's running clocks; 0 when idle
    pending,   \* the setTimeouts of a panel's Start presses, by their instants
    shown,     \* the display's lanes: [run, start, seeded]
    net,       \* frames in flight, by sender and recipient
    seed,      \* history: the anchor a panel broadcast last
    goes,      \* history: the GOs a panel issued
    count      \* the counters the bounds cap

vars == <<now, local, mirror, static, clock, pending, shown, net, seed, goes, count>>

Init ==
    /\ now = 1
    /\ local = [p \in Panels |-> IdleHook]
    /\ mirror = [s \in Surfaces |-> IdleHook]
    /\ static = [s \in Surfaces |-> "idle"]
    /\ clock = [p \in Panels |-> 0]
    /\ pending = [p \in Panels |-> {}]
    /\ shown = [run |-> FALSE, start |-> 0, seeded |-> FALSE]
    /\ net = [p \in Panels |-> [s \in Surfaces |-> <<>>]]
    /\ seed = [p \in Panels |-> 0]
    /\ goes = [p \in Panels |-> <<>>]
    /\ count = [starts |-> 0, aborts |-> 0, resets |-> 0]

-----------------------------------------------------------------------------
(* What a panel shows, and which controls it offers.                       *)

\* A mirrored sequence stands before a static phase ...
peerSignalPhase(s) == IF mirror[s].phase # "idle" THEN mirror[s].phase ELSE static[s]

\* ... and a local one before both.
effectiveSignalPhase(p) == IF local[p].phase # "idle" THEN local[p].phase ELSE peerSignalPhase(p)

\* speedlineLocks, on an open link.
StartOffered(p) == clock[p] = 0 /\ effectiveSignalPhase(p) = "idle"
AbortOffered(p) == clock[p] = 0 /\ Burning(effectiveSignalPhase(p))

\* A sequence that still owes its GO.
Owed(p) == local[p].index # 0 /\ ~local[p].latched

Armed(p) == pending[p] # {} \/ Owed(p)

Landed == \A p \in Panels, s \in Surfaces : net[p][s] = <<>>

\* A fan-out reaches its recipients together, next to an operator's reaction.
SeedLanded ==
    \A p \in Panels, s \in Surfaces : \A i \in DOMAIN net[p][s] : net[p][s][i].kind # "seed"

\* Nobody is in the middle of a start and every frame has landed.
Calm == Landed /\ \A p \in Panels : ~Armed(p)

\* A frame to every other surface.  Those of one panel are a press or a light
\* apart and land in order; those of two panels cross.
Send(p, kind, at) ==
    LET frame == [kind |-> kind, at |-> at, sent |-> now]
    IN  net' = [net EXCEPT ![p] = [s \in Surfaces |->
                   IF s = p THEN <<>> ELSE Append(net[p][s], frame)]]

\* A press of `what`, within its bound.
Pressed(what, bound) ==
    /\ now <= MaxPress
    /\ count[what] < bound
    /\ count' = [count EXCEPT ![what] = @ + 1]

-----------------------------------------------------------------------------
(* The operator.                                                           *)

\* reset(): the board and both sequences, here and by a frame everywhere else.
ClearBoard(p) ==
    /\ local' = [local EXCEPT ![p] = resetSignal(@, FALSE)]
    /\ mirror' = [mirror EXCEPT ![p] = resetSignal(@, FALSE)]
    /\ static' = [static EXCEPT ![p] = "idle"]
    /\ clock' = [clock EXCEPT ![p] = 0]
    /\ Send(p, "reset", 0)

\* startWithSignal: nothing takes the timeout back.
Start(p) ==
    /\ StartOffered(p)
    /\ Hasty \/ Calm
    /\ Pressed("starts", MaxStarts)
    /\ ClearBoard(p)
    /\ pending' = [pending EXCEPT ![p] = @ \union {now + StartDelay}]
    /\ UNCHANGED <<now, shown, seed, goes>>

\* Reset, confirmed when the board is live.
Reset(p) ==
    /\ Hasty \/ Calm
    /\ Pressed("resets", MaxResets)
    /\ ClearBoard(p)
    /\ UNCHANGED <<now, pending, shown, seed, goes>>

\* abortStart: the local hook takes the abort, whoever drives the sequence.
Abort(p) ==
    /\ AbortOffered(p) /\ SeedLanded
    /\ Pressed("aborts", MaxAborts)
    /\ local' = [local EXCEPT ![p] = resetSignal(@, TRUE)]
    /\ Send(p, "abort", 0)
    /\ UNCHANGED <<now, mirror, static, clock, pending, shown, seed, goes>>

-----------------------------------------------------------------------------
(* Timers.                                                                 *)

\* The seed carries the anchor of the render before.
MutLightsOn(p) ==
    \E at \in pending[p] :
        /\ at <= now
        /\ pending' = [pending EXCEPT ![p] = @ \ {at}]
        /\ local' = [local EXCEPT ![p] = startSignal(@, now, now)]
        /\ Send(p, "seed", local[p].anchor)
        /\ seed' = [seed EXCEPT ![p] = local[p].anchor]
        /\ UNCHANGED <<now, mirror, static, clock, shown, goes, count>>

\* The delayed startSignal.  The seed leaves from an effect on the phase, so a
\* sequence armed anew while it is still armed is not announced.
LightsOn(p) ==
    \E at \in pending[p] :
        /\ at <= now
        /\ pending' = [pending EXCEPT ![p] = @ \ {at}]
        /\ local' = [local EXCEPT ![p] = startSignal(@, now, now)]
        /\ IF local[p].phase = "armed" THEN UNCHANGED <<net, seed>>
           ELSE /\ Send(p, "seed", now)
                /\ seed' = [seed EXCEPT ![p] = now]
        /\ UNCHANGED <<now, mirror, static, clock, shown, goes, count>>

DueNow(h) == h.due # NoTimer /\ h.due <= now

\* The driving sequence steps; its GO edge is the page's start().
LocalTimer(p) ==
    LET h == local[p]
        epoch == h.anchor + GoOffset
    IN  /\ DueNow(h)
        /\ local' = [local EXCEPT ![p] = Advance(@, now)]
        /\ IF Fires(h, now)
           THEN /\ clock' = [clock EXCEPT ![p] = epoch]
                /\ Send(p, "start", epoch)
                /\ goes' = [goes EXCEPT ![p] = Append(@, epoch)]
           ELSE UNCHANGED <<clock, net, goes>>
        /\ UNCHANGED <<now, mirror, static, pending, shown, seed, count>>

\* The display's lanes take a run that is newer than any they have seen.
Ignited(d, epoch) ==
    [d EXCEPT !.run = @ \/ epoch > d.start,
              !.start = IF epoch > @ THEN epoch ELSE @, !.seeded = FALSE]

\* A mirrored sequence steps: its GO starts nothing on a panel, and ignites the
\* seeded lanes of the display.
MirrorTimer(s) ==
    LET h == mirror[s]
    IN  /\ DueNow(h)
        /\ mirror' = [mirror EXCEPT ![s] = Advance(@, now)]
        /\ shown' = IF s = Display /\ shown.seeded /\ Fires(h, now)
                    THEN Ignited(shown, h.anchor + GoOffset) ELSE shown
        /\ UNCHANGED <<now, local, static, clock, pending, net, seed, goes, count>>

\* How late a surface's timers may fire.
Lag(s) == IF s \in Throttled THEN MaxLate ELSE 0

\* Past the last race nothing is left to time.
Horizon == MaxPress + StartDelay + AtMs[5] + Latency + 2 * MaxLate

\* Time passes unless something would be later than it may.
Tick ==
    /\ \A p \in Panels, s \in Surfaces :
         net[p][s] # <<>> => now < Head(net[p][s]).sent + Latency
    /\ \A p \in Panels : \A at \in pending[p] : now < at + Lag(p)
    /\ \A p \in Panels : local[p].due # NoTimer => now < local[p].due + Lag(p)
    /\ \A s \in Surfaces : mirror[s].due # NoTimer => now < mirror[s].due + Lag(s)
    /\ now < Horizon
    /\ now' = now + 1
    /\ UNCHANGED <<local, mirror, static, clock, pending, shown, net, seed, goes, count>>

-----------------------------------------------------------------------------
(* Frames.                                                                 *)

\* A peer's abort does not reach the sequence this panel drives.
MutInterrupted(h, m) == IF m.kind = "reset" THEN resetSignal(h, FALSE) ELSE h

\* The sequence a panel drives, after a peer's frame.
Interrupted(h, m) ==
    CASE m.kind = "reset" -> resetSignal(h, FALSE)
      [] m.kind = "abort" /\ Burning(h.phase) -> resetSignal(h, TRUE)
      [] OTHER -> h

\* The sequence a surface mirrors: seeded, or cancelled.
Mirrored(h, m) ==
    CASE m.kind = "seed" -> startSignal(h, m.at, now)
      [] m.kind \in {"reset", "abort"} -> resetSignal(h, m.kind = "abort")
      [] OTHER -> h

Static(phase, m) ==
    CASE m.kind = "reset" -> "idle" [] m.kind = "abort" -> "cleared" [] OTHER -> phase

\* The display's lanes; a start only confirms what a seed ignited.
MutLanes(d, m) ==
    CASE m.kind = "start" -> [d EXCEPT !.start = IF d.run THEN m.at ELSE @]
      [] m.kind = "reset" -> [d EXCEPT !.run = FALSE, !.seeded = FALSE]
      [] m.kind = "abort" -> [d EXCEPT !.seeded = FALSE]
      [] m.kind = "seed" -> [d EXCEPT !.seeded = TRUE]

\* The display's lanes: a start sets them off, an abort only disarms the ignition.
Lanes(d, m) ==
    CASE m.kind = "start" -> [d EXCEPT !.run = TRUE, !.start = m.at]
      [] m.kind = "reset" -> [d EXCEPT !.run = FALSE, !.seeded = FALSE]
      [] m.kind = "abort" -> [d EXCEPT !.seeded = FALSE]
      [] m.kind = "seed" -> [d EXCEPT !.seeded = TRUE]

\* applyPeerMessage
PanelApplies(p, m) ==
    /\ local' = [local EXCEPT ![p] = Interrupted(@, m)]
    /\ mirror' = [mirror EXCEPT ![p] = Mirrored(@, m)]
    /\ static' = [static EXCEPT ![p] = Static(@, m)]
    /\ clock' = [clock EXCEPT ![p] =
         CASE m.kind = "start" -> m.at [] m.kind = "reset" -> 0 [] OTHER -> @]
    /\ UNCHANGED shown

\* handleFrame and previewLanesReducer; a seed past its GO ignites at once.
DisplayApplies(m) ==
    LET late == m.kind = "seed" /\ Fires(Anchored(mirror[Display], m.at), now)
    IN  /\ mirror' = [mirror EXCEPT ![Display] = Mirrored(@, m)]
        /\ static' = [static EXCEPT ![Display] = Static(@, m)]
        /\ shown' = IF late THEN Ignited(shown, m.at + GoOffset) ELSE Lanes(shown, m)
        /\ UNCHANGED <<local, clock>>

Deliver(s) ==
    \E p \in Panels :
        /\ net[p][s] # <<>>
        /\ LET m == Head(net[p][s])
           IN  IF s = Display THEN DisplayApplies(m) ELSE PanelApplies(s, m)
        /\ net' = [net EXCEPT ![p][s] = Tail(@)]
        /\ UNCHANGED <<now, pending, seed, goes, count>>

-----------------------------------------------------------------------------
Next ==
    \/ Tick
    \/ \E p \in Panels : Start(p) \/ Reset(p) \/ Abort(p) \/ LightsOn(p) \/ LocalTimer(p)
    \/ \E s \in Surfaces : MirrorTimer(s) \/ Deliver(s)

\* Time goes on, browsers run their timers and frames land; operators owe nothing.
Fairness ==
    /\ WF_vars(Tick)
    /\ \A p \in Panels : WF_vars(LightsOn(p)) /\ WF_vars(LocalTimer(p))
    /\ \A s \in Surfaces : WF_vars(MirrorTimer(s)) /\ WF_vars(Deliver(s))

Spec == Init /\ [][Next]_vars
FairSpec == Spec /\ Fairness

-----------------------------------------------------------------------------
(* Properties.                                                             *)

\* No frame is in flight and no timer is behind.
Quiet ==
    /\ Landed
    /\ \A p \in Panels : pending[p] = {} /\ ~DueNow(local[p])
    /\ \A s \in Surfaces : ~DueNow(mirror[s])

\* When no frame is in flight and no timer behind, every panel and the display
\* show the same light and the panels the same race clock, whoever started or
\* aborted (an abort may cross the GO) and however late the seed and the tabs
\* were.
SurfacesAgree ==
    Quiet => \A p \in Panels :
        /\ effectiveSignalPhase(p) = peerSignalPhase(Display)
        /\ \A q \in Panels :
             clock[p] = clock[q] /\ effectiveSignalPhase(p) = effectiveSignalPhase(q)

\* ... and while the panels' clocks run the display's do, from the same epoch: its
\* ignition from the seed, the start that confirms it and the resets in between
\* never leave it on another run, or on none.
DisplayRunsTheRace ==
    Quiet => \A p \in Panels : clock[p] # 0 => shown.run /\ shown.start = clock[p]

\* Recorded times are "exact vs the GO the athletes saw": the sequence a panel
\* drives is anchored where the seed it broadcast last says, so that its GO is
\* the GO of every light derived from that seed.
GoIsTheSeeds == \A p \in Panels : Owed(p) => local[p].anchor = seed[p]

\* A hook whose timer is not behind shows the phase the pure schedule gives for
\* the time since its anchor: stepping off the anchor loses no edge and gains none.
StepsOnSchedule ==
    \A h \in {local[p] : p \in Panels} \union {mirror[s] : s \in Surfaces} :
        h.index # 0 /\ ~DueNow(h) => h.phase = signalPhaseAt(now - h.anchor)

\* The panels' sequences as what they owe the race.
Owing == INSTANCE StartSequence
    WITH owed <- [p \in Panels |-> Owed(p)], anchor <- [p \in Panels |-> local[p].anchor]

\* A panel's hook implements the abstract sequence: one GO per arming, at the
\* scheduled epoch even when the timer is late or jumped the GO step, and none
\* once an abort or a reset, own or a peer's, cancelled it.
SequencesKept == Owing!Spec

\* "The race never fails to begin": an armed sequence is cancelled or lets its GO
\* out, on a throttled tab too.
GoComes == \A p \in Panels : Owed(p) ~> ~Owed(p)
=============================================================================
