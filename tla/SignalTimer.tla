---------------------------- MODULE SignalTimer ----------------------------
(***************************************************************************)
(* The start-light sequence of web/src/app/hooks/useStartSignalTimer.tsx   *)
(* as functions of a hook's state: five named phases stepped off a wall    *)
(* clock anchor by one pending timeout, and a latch that lets the GO edge  *)
(* out once.  Every surface runs this hook: the panel that drives a start, *)
(* the panels and displays that mirror it.                                 *)
(***************************************************************************)
EXTENDS Integers, FiniteSetsExt

CONSTANTS
    PreBeepGap,   \* PRE_BEEP_GAP_MS: from the pre-beep to the first light
    LightStep     \* LIGHT_STEP_MS: from each light to the next

ASSUME ScheduleAssumption == PreBeepGap \in Nat \ {0} /\ LightStep \in Nat \ {0}

NoTimer == -1

\* PHASE_SCHEDULE
PhaseName == <<"armed", "set1", "set2", "go", "cleared">>
AtMs == <<0, PreBeepGap, PreBeepGap + LightStep, PreBeepGap + 2 * LightStep,
          PreBeepGap + 3 * LightStep>>
Steps == 1..5
GoStep == 4

GoOffset == PreBeepGap + 2 * LightStep   \* GO_OFFSET_MS

\* The pure schedule: the phase at a given time since the anchor.
signalPhaseAt(elapsed) ==
    LET reached == {i \in Steps : AtMs[i] <= elapsed}
    IN  IF reached = {} THEN "idle" ELSE PhaseName[Max(reached)]

\* A positive currentSignalPhase: lights, or the pre-beep, are on.
Burning(phase) == phase \in {"armed", "set1", "set2", "go"}

IdleHook == [phase |-> "idle", aborted |-> FALSE, anchor |-> 0, index |-> 0,
             due |-> NoTimer, latched |-> FALSE]

\* The steps advance() crosses at `now`.
Crossed(h, now) == {i \in Steps : h.index < i /\ AtMs[i] <= now - h.anchor}

\* The latch is forgotten.
MutFires(h, now) == \E i \in Crossed(h, now) : i >= GoStep

\* Only the step landed on lets the edge out.
MutFiresOnGo(h, now) == ~h.latched /\ Crossed(h, now) # {} /\ Max(Crossed(h, now)) = GoStep

\* The GO edge is let out: by `go`, or by `cleared` when a late timer jumped it.
Fires(h, now) == ~h.latched /\ \E i \in Crossed(h, now) : i >= GoStep

\* One step per timer, however late: a tick counter.
MutAdvance(h, now) ==
    [h EXCEPT !.index = @ + 1,
              !.phase = PhaseName[h.index + 1],
              !.latched = @ \/ h.index + 1 >= GoStep,
              !.due = IF h.index + 1 = 5 THEN NoTimer
                      ELSE now + AtMs[h.index + 2] - AtMs[h.index + 1]]

\* advance(): all crossed steps, then the timeout for the next one.
Advance(h, now) ==
    LET crossed == Crossed(h, now)
        index   == IF crossed = {} THEN h.index ELSE Max(crossed)
    IN  [h EXCEPT !.index = index,
                  !.phase = IF crossed = {} THEN @ ELSE PhaseName[index],
                  !.latched = @ \/ Fires(h, now),
                  !.due = IF index = 5 THEN NoTimer ELSE h.anchor + AtMs[index + 1]]

\* startSignal, up to its advance().
Anchored(h, at) ==
    [h EXCEPT !.due = NoTimer, !.latched = FALSE, !.aborted = FALSE,
              !.anchor = at, !.index = 0]

startSignal(h, at, now) == Advance(Anchored(h, at), now)

\* resetSignal: an abort lands on `cleared`, anything else on `idle`.
resetSignal(h, abort) ==
    [h EXCEPT !.due = NoTimer, !.index = 0, !.latched = FALSE,
              !.phase = IF abort THEN "cleared" ELSE "idle", !.aborted = abort]
=============================================================================
