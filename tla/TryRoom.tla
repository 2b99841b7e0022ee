-------------------------------- MODULE TryRoom --------------------------------
(***************************************************************************)
(* Freestyle panels in their best-trick phase                              *)
(* (web/src/app/hooks/useFreestyleBoard.ts): each keeps the series of      *)
(* BestTrickSeries, sends its own transitions, mirrors the others' and     *)
(* closes a window that runs out by itself.  A transition travels as two   *)
(* frames nothing orders: the selection, with the tally, and the countdown *)
(* of the try clock.                                                       *)
(*                                                                         *)
(* Both lanes of the battle are spent or idle.  Pushes of the selection    *)
(* leave with the event that caused them: SelectionSync has that protocol  *)
(* whole.  The board is in battle mode; a change of mode leaves the phase  *)
(* the way a change of match does.                                         *)
(***************************************************************************)
EXTENDS BestTrickSeries, SelectionLww

CONSTANTS
    Abreast,     \* no window runs out while a panel is behind on the series
    OpenResets,  \* the tally may be reset under an open try
    InOrder,     \* an answer's snapshot never overtakes its selection
    MaxTries,    \* bound: tries started or passed
    MaxArms,     \* bound: the phase begun
    MaxLeaves,   \* bound: the phase left, for another match or not
    MaxTweaks,   \* bound: cap, window and tally changed
    MaxNotes,    \* bound: edits of anything else in the selection
    MaxAll       \* bound: all of these together

ASSUME PacingAssumption == {Abreast, OpenResets, InOrder} \subseteq BOOLEAN
ASSUME TryBoundsAssumption ==
    {MaxTries, MaxArms, MaxLeaves, MaxTweaks, MaxNotes, MaxAll} \subseteq Nat

VARIABLES
    panel,   \* per page: open?, live frame in or out since?, selection, series, stamp
    net,     \* frames in flight, one copy per recipient
    due,     \* windows that have run out
    room,    \* history: what the operators have made of the series
    count    \* the counters the bounds cap

vars == <<panel, net, due, room, count>>

\* note stands for the rest of the selection: athletes, round, hints.
Page == [open |-> FALSE, live |-> FALSE, match |-> 0, note |-> 0,
         series |-> Disarmed, stamp |-> InitialStamp]

\* The first panel is on the board; others open in their own time.
Init ==
    /\ panel = [p \in Panels |-> [Page EXCEPT !.open = p = 1]]
    /\ net = {}
    /\ due = {}
    /\ room = [match |-> 0, armed |-> FALSE, used |-> NoTries, open |-> Resting,
               act |-> InitialStamp, by |-> 1, crossed |-> FALSE]
    /\ count = [tries |-> 0, arms |-> 0, leaves |-> 0, tweaks |-> 0, notes |-> 0]

-----------------------------------------------------------------------------
(* Frames.                                                                 *)

Selected(s) == [match |-> s.match, note |-> s.note, series |-> Wire(s.series)]

SelectionFrame(stamp, s) == [kind |-> "selection", stamp |-> stamp, value |-> Selected(s)]
StartFrame(at) == [kind |-> "start", at |-> at]
ResetFrame(tryMs) == [kind |-> "reset", tryMs |-> tryMs]
AskFrame(p) == [kind |-> "ask", by |-> p]
SnapshotFrame(s) ==
    [kind |-> "snapshot", at |-> s.series.clock.at, open |-> IsOpen(s.series),
     tryMs |-> s.series.tryMs]

Fanout(p, frames) ==
    {[to |-> q, frame |-> f] : q \in {r \in Panels \ {p} : panel[r].open}, f \in frames}

IsClaim(f) == f.kind = "selection" /\ ~f.stamp.echo

\* A claim minted over one this panel has not heard: each is the last word
\* somewhere until the stamps are compared.  Two expiries of one window say
\* the same.
Crossed(p, value) ==
    \E m \in net : m.to = p /\ IsClaim(m.frame) /\ m.frame.value # value

\* A selection that its recipient has left behind is dropped when it lands, and
\* here as soon as it is stale: stamps only climb.
Current(frames, pages) ==
    {m \in frames : m.frame.kind = "selection" => Outranks(m.frame.stamp, pages[m.to].stamp)}

\* A panel's own step: what it moved of the selection is claimed.
Claimed(p, s) ==
    IF Selected(s) = Selected(panel[p]) THEN s
    ELSE [s EXCEPT !.stamp = Minted(p, s.stamp, FALSE, 0)]

Own(p, s, frames) ==
    LET t == Claimed(p, s)
    IN  /\ panel' = [panel EXCEPT ![p] = t]
        /\ net' = Current(net \union Fanout(p, frames \union
                      IF t.stamp = s.stamp THEN {} ELSE {SelectionFrame(t.stamp, t)}), panel')

-----------------------------------------------------------------------------
(* The operators.                                                          *)

\* No re-statement is on its way to tell p something new.
Told(p) ==
    \A m \in net : m.to = p /\ m.frame.kind = "selection" => ~m.frame.stamp.echo

\* Every surface times its own window off the shared anchor.
Expires(p) == IsOpen(panel[p].series) /\ panel[p].series.clock.at \in due

\* Everyone has the frames of the last act, and a panel that opened its answer;
\* re-statements, and claims of something else, may still be under way.
Landed ==
    /\ \A m \in net : m.frame.kind = "selection" /\ m.frame.stamp # room.act
    /\ \A p \in Panels : Told(p)

\* No panel missed a transition of the series or has one to make.
InStep ==
    \A p, q \in {r \in Panels : panel[r].open} :
        ~Expires(p) /\ panel[p].series.rev = panel[q].series.rev

\* Operators act on a room in step.
Ready(p) == panel[p].open /\ Landed /\ InStep

Counted(what, bound) ==
    /\ count[what] < bound
    /\ count.tries + count.arms + count.leaves + count.tweaks + count.notes < MaxAll
    /\ count' = [count EXCEPT ![what] = @ + 1]

Press(p, what, bound) ==
    /\ Ready(p)
    /\ Counted(what, bound)

\* The instants of a room's acts: later than any revision a series has by then.
Instant == 100 * (count.arms + count.tries + 1)

\* An act of the operator of p on the series.
Act(p, series, frames) ==
    /\ Own(p, [panel[p] EXCEPT !.series = series, !.live = @ \/ frames # {}], frames)
    /\ UNCHANGED due

\* What the act made of the series.
Made(p, match, series) ==
    room' = [match |-> match, armed |-> series.armed, used |-> series.used,
             open |-> series.clock, act |-> panel'[p].stamp, by |-> p,
             crossed |-> room.crossed \/ Crossed(p, Selected(panel'[p]))]

\* Begin best trick, offered while the phase is off.
Begin(p) ==
    /\ ~panel[p].series.armed
    /\ Press(p, "arms", MaxArms)
    /\ \E cap \in {DefaultCap, FinalCap} :
         LET series == Armed(panel[p].series, cap, Instant)
         IN  Act(p, series, {ResetFrame(series.tryMs)}) /\ Made(p, panel[p].match, series)

Start(p, x) ==
    /\ CanTry(panel[p].series, x)
    /\ Press(p, "tries", MaxTries)
    /\ LET series == StartTry(panel[p].series, x, Instant)
       IN  Act(p, series, {StartFrame(series.clock.at)}) /\ Made(p, panel[p].match, series)

Skip(p, x) ==
    /\ CanTry(panel[p].series, x)
    /\ Press(p, "tries", MaxTries)
    /\ LET series == Spent(panel[p].series, x)
       IN  Act(p, series, {}) /\ Made(p, panel[p].match, series)

End(p) ==
    /\ Ready(p) /\ IsOpen(panel[p].series)
    /\ LET series == Closed(panel[p].series)
       IN  Act(p, series, {ResetFrame(series.tryMs)}) /\ Made(p, panel[p].match, series)
    /\ UNCHANGED count

SetCap(p) ==
    /\ panel[p].series.armed /\ ~IsOpen(panel[p].series)
    /\ Press(p, "tweaks", MaxTweaks)
    /\ \E cap \in {DefaultCap, FinalCap} \ {panel[p].series.cap} :
         LET series == WithCap(panel[p].series, cap)
         IN  Act(p, series, {}) /\ Made(p, panel[p].match, series)

\* The window of the next tries.  Everyone is on the board: a panel that opens
\* later arms with the default one.
SetTryMs(p) ==
    /\ panel[p].series.armed /\ ~IsOpen(panel[p].series)
    /\ \A q \in Panels : panel[q].open
    /\ Press(p, "tweaks", MaxTweaks)
    /\ \E tryMs \in Windows \ {panel[p].series.tryMs} :
         LET series == WithTryMs(panel[p].series, tryMs)
         IN  Act(p, series, {ResetFrame(tryMs)}) /\ Made(p, panel[p].match, series)

Reset(p) ==
    /\ panel[p].series.armed /\ (OpenResets \/ ~IsOpen(panel[p].series))
    /\ Press(p, "tweaks", MaxTweaks)
    /\ LET series == Cleared(panel[p].series)
       IN  Act(p, series, {ResetFrame(series.tryMs)}) /\ Made(p, panel[p].match, series)

Leave(p) ==
    /\ panel[p].series.armed
    /\ Press(p, "leaves", MaxLeaves)
    /\ Act(p, Disarmed, {ResetFrame(0)})
    /\ Made(p, panel[p].match, Disarmed)

\* Another match: the commit is pushed with the series of the match left, then
\* the observation of the new context disarms and the panel pushes again.
SelectMatch(p) ==
    /\ Press(p, "leaves", MaxLeaves)
    /\ LET moved == Claimed(p, [panel[p] EXCEPT !.match = room.match + 1])
           left  == IF moved.series.armed
                    THEN [moved EXCEPT !.series = Disarmed, !.live = TRUE,
                                       !.stamp = Minted(p, moved.stamp, FALSE, 0)]
                    ELSE moved
           sent  == {SelectionFrame(moved.stamp, moved), SelectionFrame(left.stamp, left)}
                        \union (IF moved.series.armed THEN {ResetFrame(0)} ELSE {})
       IN  /\ panel' = [panel EXCEPT ![p] = left]
           /\ net' = Current(net \union Fanout(p, sent), panel')
    /\ Made(p, room.match + 1, Disarmed)
    /\ UNCHANGED due

\* Anything else of the selection is edited, whatever is under way but the
\* answer to a panel that opens.
Note(p) ==
    /\ panel[p].open /\ Told(p)
    /\ \A m \in net : m.frame # AskFrame(p) /\ (m.to = p => m.frame.kind # "snapshot")
    /\ Counted("notes", MaxNotes)
    /\ Own(p, [panel[p] EXCEPT !.note = count.notes + 1], {})
    /\ room' = [room EXCEPT !.crossed = @ \/ Crossed(p, Selected(panel'[p]))]
    /\ UNCHANGED due

-----------------------------------------------------------------------------
(* The windows, and a panel that opens.                                    *)

\* Nobody ends a try: its window runs out, long after its frames landed.
RunOut ==
    /\ room.open # Resting /\ Landed /\ (Abreast => InStep)
    /\ due' = due \union {room.open.at}
    /\ room' = [room EXCEPT !.open = Resting]
    /\ UNCHANGED <<panel, net, count>>

\* TRY_TIMEOUT
TimeOut(p) ==
    /\ panel[p].open /\ Expires(p)
    /\ Act(p, Closed(panel[p].series), {})
    /\ room' = [room EXCEPT !.crossed = @ \/ Crossed(p, Selected(panel'[p]))]
    /\ UNCHANGED count

\* The first OPEN of a page says nothing but the ask.
Open(p) ==
    /\ ~panel[p].open /\ Landed /\ InStep
    /\ panel' = [panel EXCEPT ![p].open = TRUE]
    /\ net' = net \union Fanout(p, {AskFrame(p)})
    /\ UNCHANGED <<due, room, count>>

-----------------------------------------------------------------------------
(* What a panel receives.                                                  *)

\* request_state: the selection is re-stated, or claimed by a panel that holds
\* no stamp; the try clock rides the snapshot while the phase is on.
Answered(p) ==
    LET s     == panel[p]
        stamp == IF s.stamp.seq > 0 THEN Restated(p, s.stamp) ELSE Minted(p, s.stamp, FALSE, 0)
    IN  [state |-> IF s.stamp.seq > 0 THEN s ELSE [s EXCEPT !.stamp = stamp],
         sent  |-> {SelectionFrame(stamp, s)}
                       \union (IF s.series.armed THEN {SnapshotFrame(s)} ELSE {})]

\* PEER_CONTEXT: another match drops the mirrored series before the frame's own
\* is read.
WithContext(s, match) ==
    IF match = s.match THEN s ELSE [s EXCEPT !.match = match, !.series = Disarmed]

Adopted(s, f) ==
    CASE f.kind = "selection" ->
           IF ~Outranks(f.stamp, s.stamp) THEN s
           ELSE LET t == WithContext(s, f.value.match)
                IN  [t EXCEPT !.stamp = f.stamp, !.note = f.value.note,
                              !.series = PeerSelection(t.series, f.value.series)]
      [] f.kind = "start" -> [s EXCEPT !.series = PeerTryStart(@, f.at), !.live = TRUE]
      [] f.kind = "reset" -> [s EXCEPT !.series = PeerTryReset(@, f.tryMs), !.live = TRUE]
      [] f.kind = "snapshot" ->
           IF s.live THEN s
           ELSE IF f.open THEN [s EXCEPT !.series = PeerTryStart(@, f.at)]
           ELSE [s EXCEPT !.series = PeerTryReset(@, f.tryMs)]

\* An adoption that moved the selection is pushed on under the stamp held.
Received(p, f) ==
    LET t == Adopted(panel[p], f)
    IN  [state |-> t,
         sent  |-> IF Selected(t) = Selected(panel[p]) THEN {}
                   ELSE {SelectionFrame(Restated(p, t.stamp), t)}]

Deliver(m) ==
    LET p    == m.to
        step == IF m.frame.kind = "ask" THEN Answered(p) ELSE Received(p, m.frame)
    IN  /\ InOrder /\ m.frame.kind = "snapshot" => Told(p)
        /\ panel' = [panel EXCEPT ![p] = step.state]
        /\ net' = Current((net \ {m}) \union Fanout(p, step.sent), panel')
        /\ UNCHANGED <<due, room, count>>

-----------------------------------------------------------------------------
Next ==
    \/ \E p \in Panels :
         \/ Begin(p) \/ End(p) \/ SetCap(p) \/ SetTryMs(p) \/ Reset(p) \/ Leave(p)
         \/ SelectMatch(p) \/ Note(p) \/ TimeOut(p) \/ Open(p)
         \/ \E x \in Sides : Start(p, x) \/ Skip(p, x)
    \/ RunOut
    \/ \E m \in net : Deliver(m)

Spec == Init /\ [][Next]_vars

-----------------------------------------------------------------------------
(* Properties.                                                             *)

\* Nothing left to deliver and no window left to close.
Quiet == net = {} /\ \A p \in Panels : panel[p].open => ~Expires(p)

\* Once the room is quiet every open panel shows the series the operators made,
\* try for try, whichever order the two frames of an act took, whoever opened
\* meanwhile and whatever was re-stated on the way - unless two panels' claims
\* crossed.
QuietRoomShowsTheSeries ==
    Quiet /\ ~room.crossed =>
        \A p \in Panels : panel[p].open =>
            LET s == panel[p].series
            IN  /\ panel[p].match = room.match /\ s.armed = room.armed
                /\ s.armed => s.used = room.used /\ s.clock = room.open
                              /\ Selected(panel[p]) = Selected(panel[room.by])
                              /\ s.tryMs = panel[room.by].series.tryMs

\* "Neither can regress the acting panel's own state": no frame gives a try back
\* on the panel that spent it last, a claim of a page that lags included.
SpentTriesStaySpent ==
    [][\A p \in Panels :
         (/\ room.by = p /\ panel[p].series.armed /\ panel[p].series.used = room.used
          /\ panel'[p].series.armed /\ UNCHANGED <<room, count>>)
         => panel'[p].series.used = room.used]_vars

\* No frame closes the window of the panel that opened it before it is ended or
\* runs out, nor hands it to the other side.
OwnWindowStaysOpen ==
    [][\A p \in Panels :
         (/\ room.by = p /\ room.open # Resting /\ panel[p].series.clock = room.open
          /\ UNCHANGED <<room, count>>)
         => panel'[p].series.clock = room.open]_vars
=============================================================================
