---------------------------- MODULE SelectionSync ----------------------------
(***************************************************************************)
(* Control panels as mirroring peers (web/src/app/hooks/                   *)
(* useControlSession.tsx).  Every panel of a room holds its own copy of    *)
(* the board's selection and keeps the others up to date over a relay      *)
(* that fans a frame out to the other open sockets, in any order and at    *)
(* most once.                                                              *)
(*                                                                         *)
(* A selection has two parts.  `choice` is what an operator picks (round,  *)
(* match, athletes, tallies) and is adopted whole from a peer's frame;     *)
(* every edit gets a number of its own, and 0 is the default of a fresh    *)
(* page.  `clock` is the part a selection only REPORTS: the timer channel  *)
(* installs it, so a peer's timer frame moves this panel's selection too.  *)
(***************************************************************************)
EXTENDS SelectionLww, FiniteSets

CONSTANTS
    Clock,        \* the readings Date.now() may return, panel by panel
    MaxEdits,     \* bound: operator edits of the choice
    MaxTurns,     \* bound: operator actions on the clock
    MaxDrops,     \* bound: connections lost after they opened
    MaxLost       \* bound: frames the relay never delivers

\* Skewed clocks are allowed, and clocks that stand still or run back.
ASSUME ClockAssumption == Clock \in [Panels -> SUBSET Nat]
ASSUME BoundsAssumption == {MaxEdits, MaxTurns, MaxDrops, MaxLost} \subseteq Nat

VARIABLES
    panel,   \* each page's own state, one record per panel
    net,     \* frames in flight, one copy per recipient
    tally    \* the counters the bounds cap

vars == <<panel, net, tally>>

Selection == [choice : Nat, clock : BOOLEAN]

\* The frames of the wire that matter to a selection.
Body ==
    [kind : {"selection"}, stamp : Stamp, choice : Nat]
        \union [kind : {"timer"}, clock : BOOLEAN]
        \union [kind : {"ask"}]

\* link      the socket reads OPEN
\* sel       the selection as last rendered
\* stamp     selectionStampRef            anchored  stampAnchoredRef
\* announced selectionAnnouncedRef
\* dirty     an edit is committed and its push effect has not run yet
\* outbox    frames sent with the link down, held by the socket library
\* acted     history: an operator moved this selection and no claim says so yet
PanelState ==
    [link : BOOLEAN, sel : Selection, stamp : Stamp, anchored : BOOLEAN,
     announced : BOOLEAN, dirty : BOOLEAN,
     outbox : SUBSET Body, acted : BOOLEAN]

FreshPanel ==
    [link |-> FALSE, sel |-> [choice |-> 0, clock |-> FALSE], stamp |-> InitialStamp,
     anchored |-> FALSE, announced |-> FALSE, dirty |-> FALSE,
     outbox |-> {}, acted |-> FALSE]

Init ==
    /\ panel = [p \in Panels |-> FreshPanel]
    /\ net = {}
    /\ tally = [edits |-> 0, turns |-> 0, drops |-> 0, lost |-> 0]

-----------------------------------------------------------------------------
(* Frames.  A body is what a page sends; a frame in flight adds sender and  *)
(* recipient.                                                              *)

SelectionBody(stamp, sel) == [kind |-> "selection", stamp |-> stamp, choice |-> sel.choice]
TimerBody(sel) == [kind |-> "timer", clock |-> sel.clock]
AskBody == [kind |-> "ask"]

\* The relay excludes the sending connection and reaches the open ones.
Fanout(p, bodies) ==
    {[to |-> q, body |-> b] : q \in {r \in Panels \ {p} : panel[r].link}, b \in bodies}

\* One step of a page: the state it ends in and what it sent on the way.
Step(s, bodies) == [state |-> s, sent |-> bodies]

\* sendSelection with nothing to re-state: the panel claims its selection.
Claim(p, s, now) ==
    LET stamp == Minted(p, s.stamp, s.anchored, now)
    IN  Step([s EXCEPT !.stamp = stamp, !.dirty = FALSE, !.acted = FALSE],
             {SelectionBody(stamp, s.sel)})

\* sendSelection under a held stamp: the stamp the panel stores is left alone.
Restate(p, s, held) == Step(s, {SelectionBody(Restated(p, held), s.sel)})

\* A second piece of work done in the same step.
Then(step, next) == Step(next.state, step.sent \union next.sent)

\* The page takes a step: what it sends goes out, or waits in the socket
\* library's queue while the link is down.
Take(p, step) ==
    IF step.state.link
    THEN /\ panel' = [panel EXCEPT ![p] = step.state]
         /\ net' = net \union Fanout(p, step.sent)
    ELSE /\ panel' = [panel EXCEPT ![p] = [step.state EXCEPT !.outbox = @ \union step.sent]]
         /\ UNCHANGED net

-----------------------------------------------------------------------------
(* What the operator does.                                                 *)

\* Any edit of the selection: a pick, a swap, a flag, a tally.  With the link
\* open its push effect is queued behind the commit; with the link down the
\* effect runs and returns.
Edit(p) ==
    /\ tally.edits < MaxEdits
    /\ panel' = [panel EXCEPT ![p].sel.choice = tally.edits + 1,
                              ![p].dirty = @ \/ panel[p].link,
                              ![p].acted = TRUE]
    /\ tally' = [tally EXCEPT !.edits = @ + 1]
    /\ UNCHANGED net

\* A local clock action: the timer frame leaves at once (or waits in the
\* library's queue while the link is down) and the reported clock flips.
TurnClock(p) ==
    /\ tally.turns < MaxTurns
    /\ LET s == [panel[p] EXCEPT !.sel.clock = ~@,
                                 !.dirty = @ \/ panel[p].link, !.acted = TRUE]
       IN  Take(p, Step(s, {TimerBody(s.sel)}))
    /\ tally' = [tally EXCEPT !.turns = @ + 1]

-----------------------------------------------------------------------------
(* What the page does on its own.                                          *)

\* The push effect of a committed edit.
Push(p) ==
    /\ panel[p].dirty
    /\ \E now \in Clock[p] : Take(p, Claim(p, panel[p], now))
    /\ UNCHANGED tally

\* The socket reaches OPEN: ask for the room's state, let the library flush
\* its queue, and push the selection - except at the first OPEN of the page,
\* which is consumed silently.
Opened(p, s, now) ==
    LET asked == Step([s EXCEPT !.link = TRUE, !.outbox = {}], {AskBody} \union s.outbox)
    IN  IF s.announced THEN Then(asked, Claim(p, asked.state, now))
        ELSE Step([asked.state EXCEPT !.announced = TRUE], asked.sent)

Open(p) ==
    /\ ~panel[p].link
    /\ \E now \in Clock[p] : Take(p, Opened(p, panel[p], now))
    /\ UNCHANGED tally

\* The connection drops; frames on their way to it are gone.  A queued push
\* effect runs before the render that sees the link down.
Drop(p) ==
    /\ panel[p].link /\ ~panel[p].dirty
    /\ tally.drops < MaxDrops
    /\ panel' = [panel EXCEPT ![p].link = FALSE]
    /\ net' = {m \in net : m.to # p}
    /\ tally' = [tally EXCEPT !.drops = @ + 1]

\* Every answer mints, as a mirror's once did.
MutAnswer(p, s, now) == [Claim(p, s, now) EXCEPT !.state.dirty = s.dirty]

\* The answer to request_state: the selection under the stamp held, or a claim
\* from a panel that holds none.  Two things are left out.  The coalescing of a
\* burst of asks: an answer owed at the end of the window is an ask delivered
\* that much later.  And the snapshot: it moves a joiner's selection the way a
\* timer frame still in flight does.
Answer(p, s, now) ==
    IF s.stamp.seq > 0 THEN Restate(p, s, s.stamp)
    ELSE [Claim(p, s, now) EXCEPT !.state.dirty = s.dirty, !.state.acted = s.acted /\ s.dirty]

-----------------------------------------------------------------------------
(* handlePeer: one frame, delivered in one flushed commit.                 *)

\* The last frame in wins.
MutNoted(s, b) ==
    IF b.kind = "selection" THEN [s EXCEPT !.stamp = b.stamp, !.anchored = TRUE] ELSE s

\* The frame's bookkeeping, before anything is rendered: the stamp accepted.
Noted(s, b) ==
    IF b.kind = "selection" /\ Outranks(b.stamp, s.stamp)
    THEN [s EXCEPT !.stamp = b.stamp, !.anchored = TRUE]
    ELSE s

\* The value of a stale frame applied all the same.
MutAdopted(s, b) ==
    CASE b.kind = "timer" -> [s.sel EXCEPT !.clock = b.clock]
      [] b.kind = "selection" -> [s.sel EXCEPT !.choice = b.choice]
      [] OTHER -> s.sel

\* What the frame does to the selection this panel shows.
Adopted(s, b) ==
    CASE b.kind = "timer" -> [s.sel EXCEPT !.clock = b.clock]
      [] b.kind = "selection" /\ Outranks(b.stamp, s.stamp) -> [s.sel EXCEPT !.choice = b.choice]
      [] OTHER -> s.sel

\* A queued push effect that takes the forward of the frame behind it.
MutReceived(p, s, b, now) ==
    LET noted == Noted(s, b)
        shown == [noted EXCEPT !.sel = Adopted(s, b), !.dirty = FALSE,
                               !.acted = @ /\ noted.stamp = s.stamp]
    IN  IF s.dirty \/ Adopted(s, b) # s.sel THEN Restate(p, shown, noted.stamp)
        ELSE Step(shown, {})

\* A push effect without the value guard: every frame is answered with one.
MutReechoed(p, s, b, now) ==
    LET noted == Noted(s, b)
    IN  Restate(p, [noted EXCEPT !.sel = Adopted(s, b)], noted.stamp)

\* A peer frame.  A push effect still queued runs first: its value is the one
\* held when the frame landed, so it is the operator's own and it is claimed.
\* The adoption then commits, and if it moved the selection the panel pushes
\* again: re-stating the stamp, unless that one-shot forward is already spent.
Received(p, s, b, now) ==
    LET noted   == Noted(s, b)
        flushed == IF s.dirty THEN Claim(p, noted, now) ELSE Step(noted, {})
        moved   == Adopted(s, b) # s.sel
        shown   == [flushed.state EXCEPT !.sel = Adopted(s, b),
                                         !.acted = @ /\ noted.stamp = s.stamp]
    IN  Then(flushed,
             IF ~moved THEN Step(shown, {})
             ELSE IF s.dirty THEN Claim(p, shown, now)
             ELSE Restate(p, shown, noted.stamp))

Handled(p, s, b, now) ==
    IF b.kind = "ask" THEN Answer(p, s, now) ELSE Received(p, s, b, now)

Deliver(p) ==
    /\ \E m \in net, now \in Clock[p] :
         /\ m.to = p
         /\ LET step == Handled(p, panel[p], m.body, now)
            IN  /\ panel' = [panel EXCEPT ![p] = step.state]
                /\ net' = (net \ {m}) \union Fanout(p, step.sent)
    /\ UNCHANGED tally

\* The relay posts a frame to a connection at most once.
Lose(p) ==
    /\ tally.lost < MaxLost
    /\ \E m \in net : m.to = p /\ net' = net \ {m}
    /\ tally' = [tally EXCEPT !.lost = @ + 1]
    /\ UNCHANGED panel

-----------------------------------------------------------------------------
Next ==
    \E p \in Panels :
        \/ Edit(p) \/ TurnClock(p)
        \/ Push(p) \/ Open(p) \/ Drop(p)
        \/ Deliver(p) \/ Lose(p)

Spec == Init /\ [][Next]_vars

\* The event loop of an open page runs: effects flush, timeouts fire, and a
\* frame in flight is either delivered or lost.  Nothing obliges an operator
\* to act or a link to come back.  All that is assumed is that some page goes
\* on while any has work to do.
Fairness == WF_vars(\E p \in Panels : Push(p) \/ Deliver(p))

FairSpec == Spec /\ Fairness

-----------------------------------------------------------------------------
(* Properties.                                                             *)

\* Every variable keeps its type.
TypeOK ==
    /\ panel \in [Panels -> PanelState]
    /\ net \subseteq [to : Panels, body : Body]
    /\ tally \in [edits : Nat, turns : Nat, drops : Nat, lost : Nat]

IsClaim(stamp) == stamp.seq > 0 /\ ~stamp.echo

\* Two panels that hold the same claim and have nothing unsaid of their own
\* show the same choice, whatever was lost, reordered or dropped on the way
\* (the stamp and the value it stands for are accepted together, lines 569-580).
SameClaimSameChoice ==
    \A p, q \in Panels :
        (/\ IsClaim(panel[p].stamp) /\ panel[p].stamp = panel[q].stamp
         /\ ~panel[p].acted /\ ~panel[q].acted)
        => panel[p].sel.choice = panel[q].sel.choice

\* A panel's stamp only ever climbs: no interleaving of local claims, echoes
\* and late frames makes a panel fall back to a stamp it had left
\* (acceptSelectionStamp, and the mint past everything seen).
StampsClimb ==
    [][\A p \in Panels : panel'[p].stamp = panel[p].stamp
                            \/ Outranks(panel'[p].stamp, panel[p].stamp)]_vars

\* A re-statement never leads the room: the highest stamp any panel holds is
\* held by some panel as a claim (the echo flag of sendSelection).
EchoNeverLeads ==
    \A p \in Panels :
        panel[p].stamp.seq > 0 =>
            \E q \in Panels : IsClaim(panel[q].stamp)
                               /\ panel[q].stamp.seq >= panel[p].stamp.seq

\* Nothing left to do in the room.
Quiet ==
    /\ net = {}
    /\ \A p \in Panels : ~panel[p].dirty

\* Two claims minted at the same count: the tie the sender id breaks.
Rivals(s, t) == IsClaim(s) /\ IsClaim(t) /\ s.seq = t.seq /\ s.by # t.by

\* The panels on the link, less those whose only edits came before the page's
\* first OPEN: the silent first push leaves such an edit unsaid.
Settled == {p \in Panels : panel[p].link /\ (panel[p].acted => panel[p].stamp # InitialStamp)}

\* When the room is quiet and lost nothing, its settled panels show one choice,
\* unless their claims are rivals: two first claims of one count, of which the
\* higher sender's reached the other panel as an echo only.
QuietRoomAgrees ==
    Quiet /\ tally.lost = 0 =>
        \A p, q \in Settled :
            \/ panel[p].sel.choice = panel[q].sel.choice
            \/ Rivals(panel[p].stamp, panel[q].stamp)

\* The panel p has just minted a claim.
Claims(p) ==
    /\ panel'[p].stamp # panel[p].stamp
    /\ panel'[p].stamp.by = p /\ ~panel'[p].stamp.echo

\* A mirror never turns what it adopted into a claim of its own.  Apart from
\* an operator's act, only two things mint: a panel that holds no stamp
\* answering an ask, and a link that opens again (forwardFor, lines 400-404).
ClaimsFollowActs ==
    [][\A p \in Panels :
          Claims(p) => \/ panel[p].acted
                       \/ panel[p].stamp = InitialStamp
                       \/ ~panel[p].link]_vars

\* The echo between mirrors dies out: once operators and links are left
\* alone, the room comes to rest (the value guard and the one-shot forward).
RoomSettles == <>[]Quiet
=============================================================================
