---------------------------- MODULE BestTrickSeries ----------------------------
(***************************************************************************)
(* The best-trick series of a Freestyle battle                             *)
(* (web/src/app/util/bestTrickSeries.ts) as functions of the state one     *)
(* panel keeps: a number of tries a side, each with a window of its own.   *)
(*                                                                         *)
(* A window is known by the wall-clock instant it opened at, which every   *)
(* surface shares; the instants of a day are the naturals.  The numeral a  *)
(* resting clock shows and the beeps are left out, and so is               *)
(* PEER_TRY_STOP: no page sends the frame it answers.                      *)
(***************************************************************************)
EXTENDS Integers

CONSTANTS
    DefaultCap, FinalCap,     \* DEFAULT_CAP, FINAL_CAP
    DefaultTryMs, Windows     \* DEFAULT_TRY_MS, and the windows operators set

ASSUME CapAssumption == {DefaultCap, FinalCap} \subseteq Nat \ {0}
ASSUME WindowAssumption == Windows \subseteq Nat \ {0} /\ DefaultTryMs \in Windows

Sides == {1, 2}
OtherSide(x) == 3 - x
NoSide == 0

NoTries == [x \in Sides |-> 0]

\* side    whose try is open, 0 between tries     at   when its window opened
Resting == [side |-> NoSide, at |-> 0]

InitialSeries(cap) ==
    [armed |-> TRUE, cap |-> cap, tryMs |-> DefaultTryMs, used |-> NoTries,
     clock |-> Resting, last |-> NoSide, rev |-> 0]

Disarmed == [InitialSeries(0) EXCEPT !.armed = FALSE]

IsOpen(series) == series.clock.side # NoSide
HasTriesLeft(series, x) == series.used[x] < series.cap

\* suggestedNext: side 1 first, then in turn, a spent side passed over.
SuggestedNext(series) ==
    LET left == {x \in Sides : HasTriesLeft(series, x)}
        next == IF series.last = NoSide THEN 1 ELSE OtherSide(series.last)
    IN  IF left = {} THEN NoSide ELSE IF next \in left THEN next ELSE OtherSide(next)

CurrentTurn(series) == IF IsOpen(series) THEN series.clock.side ELSE SuggestedNext(series)

\* bestTrickWire: what the selection says of the series.
Wire(series) ==
    [armed |-> series.armed, cap |-> series.cap, tries |-> series.used,
     turn |-> CurrentTurn(series), open |-> IsOpen(series), rev |-> series.rev]

-----------------------------------------------------------------------------
(* The operator's transitions: each bumps the revision.                    *)

Bumped(series) == [series EXCEPT !.rev = @ + 1]

\* The try is spent whoever wins it: it is consumed on start, or passed.
Spent(series, x) == [Bumped(series) EXCEPT !.used[x] = @ + 1, !.last = x]

CanTry(series, x) == series.armed /\ ~IsOpen(series) /\ HasTriesLeft(series, x)

StartTry(series, x, at) == [Spent(series, x) EXCEPT !.clock = [side |-> x, at |-> at]]

\* END_TRY and TRY_TIMEOUT differ in the numeral they leave.
Closed(series) == [Bumped(series) EXCEPT !.clock = Resting]

WithCap(series, cap) == [Bumped(series) EXCEPT !.cap = cap]
WithTryMs(series, tryMs) == [Bumped(series) EXCEPT !.tryMs = tryMs]

Cleared(series) ==
    [Bumped(series) EXCEPT !.used = NoTries, !.clock = Resting, !.last = NoSide]

\* ARM: a fresh tally, its revision anchored at the wall clock.
Armed(series, cap, at) ==
    [InitialSeries(cap) EXCEPT !.rev = IF at > series.rev + 1 THEN at ELSE series.rev + 1]

-----------------------------------------------------------------------------
(* The mirror of a peer's series.                                          *)

\* The clock of the wire taken with the tally.
MutMirroredClock(current, wire) ==
    IF ~wire.open THEN Resting
    ELSE IF IsOpen(current) /\ wire.turn # NoSide THEN [current.clock EXCEPT !.side = wire.turn]
    ELSE current.clock

\* The selection corrects the side of an open window, and never closes one.
MirroredClock(current, wire) ==
    IF IsOpen(current) /\ wire.open /\ wire.turn # NoSide
    THEN [current.clock EXCEPT !.side = wire.turn] ELSE current.clock

\* A turn read as an alternation though nothing has been tried.
MutMirroredLast(current, clock, wire) ==
    IF clock.side # NoSide THEN clock.side
    ELSE IF wire.turn = NoSide THEN current.last ELSE OtherSide(wire.turn)

\* The side the wire's turn follows.
MirroredLast(current, clock, wire) ==
    CASE clock.side # NoSide -> clock.side
      [] clock.side = NoSide /\ wire.open ->
             IF wire.turn = NoSide THEN current.last ELSE wire.turn
      [] clock.side = NoSide /\ ~wire.open /\ wire.tries = NoTries -> NoSide
      [] OTHER -> IF wire.turn = NoSide THEN current.last ELSE OtherSide(wire.turn)

\* While both ends have a window open, a lower count of its side is a lag.
MirroredUsed(current, clock, wire) ==
    LET x == clock.side
    IN  IF x # NoSide /\ wire.open /\ current.used[x] > wire.tries[x]
        THEN [wire.tries EXCEPT ![x] = current.used[x]] ELSE wire.tries

\* A wire of any revision is taken.
MutIsStale(current, wire) == FALSE

\* The revision gate: a wire sent before its panel applied a later transition.
IsStale(current, wire) == wire.rev < current.rev

\* PEER_SELECTION
PeerSelection(series, wire) ==
    LET current == IF series.armed THEN series ELSE InitialSeries(wire.cap)
        clock   == MirroredClock(current, wire)
    IN  CASE ~wire.armed -> Disarmed
          [] wire.armed /\ IsStale(current, wire) -> series
          [] OTHER ->
               [current EXCEPT !.cap = wire.cap, !.rev = wire.rev, !.clock = clock,
                               !.used = MirroredUsed(current, clock, wire),
                               !.last = MirroredLast(current, clock, wire)]

\* PEER_TRY_START: the side is a guess the selection corrects; arms a store
\* that is not.
PeerTryStart(series, at) ==
    LET current == IF series.armed THEN series ELSE InitialSeries(DefaultCap)
        guess   == IF current.last # NoSide THEN current.last ELSE SuggestedNext(current)
        side    == IF IsOpen(current) THEN current.clock.side
                   ELSE IF guess = NoSide THEN 1 ELSE guess
    IN  [current EXCEPT !.clock = [side |-> side, at |-> at], !.last = side]

\* PEER_TRY_RESET: never arms; 0 is the reset of a disarm.
PeerTryReset(series, tryMs) ==
    IF ~series.armed THEN series
    ELSE [series EXCEPT !.clock = Resting, !.tryMs = IF tryMs > 0 THEN tryMs ELSE @]
=============================================================================
