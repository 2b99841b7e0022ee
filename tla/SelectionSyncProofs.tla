------------------------- MODULE SelectionSyncProofs -------------------------
(***************************************************************************)
(* Proofs about SelectionSync, for any set of panels, any clocks and any   *)
(* number of edits, drops and losses: the types, that a panel's stamp only *)
(* climbs, and that one claim stands for one choice everywhere.            *)
(***************************************************************************)
EXTENDS SelectionSync, TLAPS

-----------------------------------------------------------------------------
(* The rank of stamps is a strict order, and minting climbs it.            *)

\* A sender id, or the empty one of a fresh page, is a number.
LEMMA PageIdIsNat ==
    ASSUME NEW x \in Panels \union {0}
    PROVE  x \in Nat
BY PanelsAssumption, SMT

\* The fields of a stamp and their types.
LEMMA StampFields ==
    ASSUME NEW s \in Stamp
    PROVE  s.seq \in Nat /\ s.by \in Nat /\ s.echo \in BOOLEAN
<1>1. s.seq \in Nat /\ s.echo \in BOOLEAN /\ s.by \in Panels \union {0}
  BY SMT DEF Stamp
<1> QED
  BY <1>1, PageIdIsNat, Zenon

\* A stamp outranks no stamp equal to it (acceptSelectionStamp drops a frame
\* that carries the stamp already held).
LEMMA OutranksIrreflexive ==
    ASSUME NEW s \in Stamp
    PROVE  ~Outranks(s, s)
BY StampFields, SMT DEF Outranks

\* Rank is transitive, so accepting frame after frame only ever climbs.
LEMMA OutranksTransitive ==
    ASSUME NEW s \in Stamp, NEW t \in Stamp, NEW u \in Stamp,
           Outranks(s, t), Outranks(t, u)
    PROVE  Outranks(s, u)
BY StampFields, SMT DEF Outranks

\* A stamp that outranks another is not behind it.
LEMMA OutranksSeq ==
    ASSUME NEW s \in Stamp, NEW t \in Stamp, Outranks(s, t)
    PROVE  s.seq >= t.seq
BY StampFields, SMT DEF Outranks

\* A freshly minted stamp is a claim by its page, numbered past the stamp held.
LEMMA MintedIsFresh ==
    ASSUME NEW p \in Panels, NEW last \in Stamp, NEW anchored \in BOOLEAN, NEW now \in Nat
    PROVE  /\ Minted(p, last, anchored, now) \in Stamp
           /\ Minted(p, last, anchored, now).seq > last.seq
           /\ Minted(p, last, anchored, now).by = p
           /\ ~Minted(p, last, anchored, now).echo
           /\ Outranks(Minted(p, last, anchored, now), last)
BY PanelsAssumption, SMT DEF Minted, Outranks, Stamp

\* A re-statement is a well-formed stamp at the count held.
LEMMA RestatedType ==
    ASSUME NEW p \in Panels, NEW held \in Stamp
    PROVE  Restated(p, held) \in Stamp /\ Restated(p, held).echo
BY PanelsAssumption, SMT DEF Restated, Stamp

-----------------------------------------------------------------------------
(* Types.                                                                  *)

\* What a page does in one step is well formed: the state it ends in, and
\* every frame it sends.
StepType == [state : PanelState, sent : SUBSET Body]

\* The stamp of a page that has seen none is well-formed.
LEMMA InitialStampType == InitialStamp \in Stamp
BY SMT DEF InitialStamp, Stamp

\* The three frames a page sends are frames of the wire.
LEMMA BodyTypes ==
    ASSUME NEW stamp \in Stamp, NEW sel \in Selection
    PROVE  /\ SelectionBody(stamp, sel) \in Body
           /\ TimerBody(sel) \in Body
           /\ AskBody \in Body
BY SMT DEF SelectionBody, TimerBody, AskBody, Body, Selection

\* A step built from a page state and frames is a step, and gives both back.
LEMMA StepIsTyped ==
    ASSUME NEW s \in PanelState, NEW bodies \in SUBSET Body
    PROVE  /\ Step(s, bodies) \in StepType
           /\ Step(s, bodies).state = s
           /\ Step(s, bodies).sent = bodies
BY SMT DEF Step, StepType

\* Two pieces of work done in a row make one step that sends what both send.
LEMMA ThenIsTyped ==
    ASSUME NEW one \in StepType, NEW two \in StepType
    PROVE  /\ Then(one, two) \in StepType
           /\ Then(one, two).state = two.state
           /\ Then(one, two).sent = one.sent \union two.sent
BY SMT DEF Then, Step, StepType

\* A claim leaves a well-formed page and well-formed frames.
LEMMA ClaimIsTyped ==
    ASSUME NEW p \in Panels, NEW s \in PanelState, NEW now \in Nat
    PROVE  Claim(p, s, now) \in StepType
<1> DEFINE stamp == Minted(p, s.stamp, s.anchored, now)
           t == [s EXCEPT !.stamp = stamp, !.dirty = FALSE, !.acted = FALSE]
<1>1. stamp \in Stamp
  BY MintedIsFresh, SMT DEF PanelState
<1>2. t \in PanelState
  BY <1>1, Zenon DEF PanelState
<1>3. s.sel \in Selection
  BY SMT DEF PanelState
<1>4. {SelectionBody(stamp, s.sel)} \in SUBSET Body
  BY <1>1, <1>3, BodyTypes
<1> QED
  BY <1>2, <1>4, StepIsTyped DEF Claim

\* So does a re-statement.
LEMMA RestateIsTyped ==
    ASSUME NEW p \in Panels, NEW s \in PanelState, NEW held \in Stamp
    PROVE  Restate(p, s, held) \in StepType
<1>1. {SelectionBody(Restated(p, held), s.sel)} \in SUBSET Body
  BY RestatedType, BodyTypes, SMT DEF PanelState
<1> QED
  BY <1>1, StepIsTyped DEF Restate

\* What a frame of each kind carries.
LEMMA BodyFields ==
    ASSUME NEW b \in Body
    PROVE  /\ b.kind \in {"selection", "timer", "ask"}
           /\ b.kind = "selection" => b.stamp \in Stamp /\ b.choice \in Nat
           /\ b.kind = "timer" => b.clock \in BOOLEAN
BY SMT DEF Body

\* Noting a frame keeps the page well-formed.
LEMMA NotedIsTyped ==
    ASSUME NEW s \in PanelState, NEW b \in Body
    PROVE  Noted(s, b) \in PanelState
<1>1. CASE b.kind = "selection" /\ Outranks(b.stamp, s.stamp)
  <2>1. b.stamp \in Stamp
    BY <1>1, BodyFields
  <2>2. [s EXCEPT !.stamp = b.stamp, !.anchored = TRUE] \in PanelState
    BY <2>1, Zenon DEF PanelState
  <2> QED
    BY <1>1, <2>2 DEF Noted
<1>2. CASE ~(b.kind = "selection" /\ Outranks(b.stamp, s.stamp))
  BY <1>2 DEF Noted
<1> QED
  BY <1>1, <1>2

\* What a frame makes a page show is a selection.
LEMMA AdoptedIsTyped ==
    ASSUME NEW s \in PanelState, NEW b \in Body
    PROVE  Adopted(s, b) \in Selection
<1>1. s.sel \in Selection
  BY SMT DEF PanelState
<1>2. CASE b.kind = "timer"
  <2>1. b.clock \in BOOLEAN
    BY <1>2, BodyFields
  <2>2. [s.sel EXCEPT !.clock = b.clock] \in Selection
    BY <1>1, <2>1, Zenon DEF Selection
  <2> QED
    BY <1>2, <2>2 DEF Adopted
<1>3. CASE b.kind = "selection" /\ Outranks(b.stamp, s.stamp)
  <2>1. b.choice \in Nat
    BY <1>3, BodyFields
  <2>2. [s.sel EXCEPT !.choice = b.choice] \in Selection
    BY <1>1, <2>1, Zenon DEF Selection
  <2> QED
    BY <1>3, <2>2 DEF Adopted
<1>4. CASE b.kind # "timer" /\ ~(b.kind = "selection" /\ Outranks(b.stamp, s.stamp))
  BY <1>1, <1>4 DEF Adopted
<1> QED
  BY <1>2, <1>3, <1>4

\* The answer to request_state keeps the page well-formed.
LEMMA AnswerIsTyped ==
    ASSUME NEW p \in Panels, NEW s \in PanelState, NEW now \in Nat
    PROVE  Answer(p, s, now) \in StepType
<1>1. CASE s.stamp.seq > 0
  <2>1. s.stamp \in Stamp
    BY SMT DEF PanelState
  <2> QED
    BY <1>1, <2>1, RestateIsTyped DEF Answer
<1>2. CASE ~(s.stamp.seq > 0)
  <2> DEFINE step == Claim(p, s, now)
  <2>1. step \in StepType
    BY ClaimIsTyped
  <2>2. s.dirty \in BOOLEAN /\ (s.acted /\ s.dirty) \in BOOLEAN
    BY Zenon DEF PanelState
  <2>3. [step EXCEPT !.state.dirty = s.dirty, !.state.acted = s.acted /\ s.dirty] \in StepType
    BY <2>1, <2>2, Zenon DEF StepType, PanelState
  <2> QED
    BY <1>2, <2>3, Zenon DEF Answer
<1> QED
  BY <1>1, <1>2

\* So does a peer frame, with or without a queued push ahead of it.
LEMMA ReceivedIsTyped ==
    ASSUME NEW p \in Panels, NEW s \in PanelState, NEW b \in Body, NEW now \in Nat
    PROVE  Received(p, s, b, now) \in StepType
<1> DEFINE noted   == Noted(s, b)
           flushed == IF s.dirty THEN Claim(p, noted, now) ELSE Step(noted, {})
           shown   == [flushed.state EXCEPT !.sel = Adopted(s, b),
                                            !.acted = @ /\ noted.stamp = s.stamp]
           last    == IF ~(Adopted(s, b) # s.sel) THEN Step(shown, {})
                      ELSE IF s.dirty THEN Claim(p, shown, now)
                      ELSE Restate(p, shown, noted.stamp)
<1>1. noted \in PanelState /\ noted.stamp \in Stamp
  BY NotedIsTyped, SMT DEF PanelState
<1>2. flushed \in StepType
  BY <1>1, ClaimIsTyped, StepIsTyped
<1>3. shown \in PanelState
  <2>1. flushed.state \in PanelState
    BY <1>2, SMT DEF StepType
  <2>2. (flushed.state.acted /\ noted.stamp = s.stamp) \in BOOLEAN
    BY Zenon
  <2> HIDE DEF flushed, noted
  <2> QED
    BY <2>1, <2>2, AdoptedIsTyped, Zenon DEF PanelState
<1>4. last \in StepType
  <2> HIDE DEF shown, noted
  <2> QED
    BY <1>1, <1>3, ClaimIsTyped, RestateIsTyped, StepIsTyped
<1>5. Received(p, s, b, now) = Then(flushed, last)
  BY Zenon DEF Received
<1> QED
  BY <1>2, <1>4, <1>5, ThenIsTyped

\* So does any delivered frame.
LEMMA HandledIsTyped ==
    ASSUME NEW p \in Panels, NEW s \in PanelState, NEW b \in Body, NEW now \in Nat
    PROVE  Handled(p, s, b, now) \in StepType
BY AnswerIsTyped, ReceivedIsTyped DEF Handled

\* So does a socket that reaches OPEN.
LEMMA OpenedIsTyped ==
    ASSUME NEW p \in Panels, NEW s \in PanelState, NEW now \in Nat
    PROVE  Opened(p, s, now) \in StepType
<1> DEFINE open == [s EXCEPT !.link = TRUE, !.outbox = {}]
           sent == {AskBody} \union s.outbox
<1>1. open \in PanelState
  BY Zenon DEF PanelState
<1>2. sent \in SUBSET Body
  <2>1. AskBody \in Body
    BY SMT DEF AskBody, Body
  <2> QED
    BY <2>1, Zenon DEF PanelState
<1>3. [open EXCEPT !.announced = TRUE] \in PanelState
  BY <1>1, Zenon DEF PanelState
<1> HIDE DEF open, sent
<1>4. CASE s.announced
  BY <1>1, <1>2, <1>4, StepIsTyped, ClaimIsTyped, ThenIsTyped DEF Opened, open, sent
<1>5. CASE ~s.announced
  BY <1>1, <1>2, <1>3, <1>5, StepIsTyped DEF Opened, open, sent
<1> QED
  BY <1>4, <1>5

\* The relay turns frames into frames in flight.
LEMMA FanoutIsTyped ==
    ASSUME NEW p \in Panels, NEW bodies \in SUBSET Body
    PROVE  Fanout(p, bodies) \subseteq [to : Panels, body : Body]
BY SMT DEF Fanout

\* A page that takes a well-formed step leaves a well-formed room.
LEMMA TakeIsTyped ==
    ASSUME TypeOK, NEW p \in Panels, NEW step \in StepType, Take(p, step)
    PROVE  /\ panel' \in [Panels -> PanelState]
           /\ net' \subseteq [to : Panels, body : Body]
<1>1. step.state \in PanelState /\ step.sent \in SUBSET Body
  BY SMT DEF StepType
<1>2. CASE step.state.link
  BY <1>1, <1>2, FanoutIsTyped, Zenon DEF Take, TypeOK
<1>3. CASE ~step.state.link
  <2>1. [step.state EXCEPT !.outbox = @ \union step.sent] \in PanelState
    BY <1>1, Zenon DEF PanelState
  <2> QED
    BY <1>3, <2>1, Zenon DEF Take, TypeOK
<1> QED
  BY <1>2, <1>3

\* A delivery leaves a well-formed room.
LEMMA DeliverIsTyped ==
    ASSUME TypeOK, NEW p \in Panels, Deliver(p)
    PROVE  /\ panel' \in [Panels -> PanelState]
           /\ net' \subseteq [to : Panels, body : Body]
<1> DEFINE step(m, now) == Handled(p, panel[p], m.body, now)
<1>1. PICK m \in net, now \in Clock[p] :
          /\ panel' = [panel EXCEPT ![p] = step(m, now).state]
          /\ net' = (net \ {m}) \union Fanout(p, step(m, now).sent)
  BY Zenon DEF Deliver
<1>2. m.body \in Body /\ now \in Nat /\ panel[p] \in PanelState
  BY ClockAssumption, SMT DEF TypeOK
<1>3. step(m, now) \in StepType
  BY <1>2, HandledIsTyped
<1>4. step(m, now).state \in PanelState /\ step(m, now).sent \in SUBSET Body
  BY <1>3, SMT DEF StepType
<1> QED
  BY <1>1, <1>4, FanoutIsTyped, Zenon DEF TypeOK

\* A page just loaded is a well-formed page.
LEMMA FreshPanelType == FreshPanel \in PanelState
<1>1. [choice |-> 0, clock |-> FALSE] \in Selection
  BY SMT DEF Selection
<1> QED
  BY <1>1, InitialStampType, Zenon DEF FreshPanel, PanelState

\* The room starts well-typed.
LEMMA InitTypeOK == Init => TypeOK
<1> SUFFICES ASSUME Init PROVE TypeOK
  OBVIOUS
<1>1. panel \in [Panels -> PanelState]
  BY FreshPanelType, Zenon DEF Init
<1>2. net \subseteq [to : Panels, body : Body]
  BY Zenon DEF Init
<1>3. tally \in [edits : Nat, turns : Nat, drops : Nat, lost : Nat]
  BY SMT DEF Init
<1> QED
  BY <1>1, <1>2, <1>3 DEF TypeOK

\* Every step of the room keeps it well-typed, action by action.
LEMMA StepTypeOK == TypeOK /\ [Next]_vars => TypeOK'
<1> SUFFICES ASSUME TypeOK, [Next]_vars PROVE TypeOK'
  OBVIOUS
<1> USE DEF TypeOK
<1>1. ASSUME NEW p \in Panels, Edit(p) PROVE TypeOK'
  <2>1. panel[p] \in PanelState /\ panel[p].sel \in Selection
    BY SMT DEF PanelState
  <2>2. tally.edits + 1 \in Nat
    BY SMT
  <2>3. (panel[p].dirty \/ panel[p].link) \in BOOLEAN
    BY Zenon
  <2>4. [panel[p].sel EXCEPT !.choice = tally.edits + 1] \in Selection
    BY <2>1, <2>2, Zenon DEF Selection
  <2>5. [panel[p] EXCEPT !.sel.choice = tally.edits + 1,
                         !.dirty = @ \/ panel[p].link, !.acted = TRUE] \in PanelState
    BY <2>1, <2>3, <2>4, Zenon DEF PanelState
  <2>6. panel' \in [Panels -> PanelState]
    BY <1>1, <2>5, Zenon DEF Edit
  <2>7. tally' \in [edits : Nat, turns : Nat, drops : Nat, lost : Nat]
    BY <1>1, <2>2, Zenon DEF Edit
  <2> QED
    BY <1>1, <2>6, <2>7 DEF Edit
<1>2. ASSUME NEW p \in Panels, TurnClock(p) PROVE TypeOK'
  <2> DEFINE s == [panel[p] EXCEPT !.sel.clock = ~@,
                                   !.dirty = @ \/ panel[p].link, !.acted = TRUE]
  <2>1. panel[p] \in PanelState /\ panel[p].sel \in Selection
    BY SMT DEF PanelState
  <2>2. [panel[p].sel EXCEPT !.clock = ~@] \in Selection
    BY <2>1, Zenon DEF Selection
  <2>3. (panel[p].dirty \/ panel[p].link) \in BOOLEAN
    BY Zenon
  <2>4. s \in PanelState
    BY <2>1, <2>2, <2>3, Zenon DEF PanelState
  <2>5. TimerBody(s.sel) \in Body
    <3> HIDE DEF s
    <3>1. s.sel \in Selection
      BY <2>4, SMT DEF PanelState
    <3> QED
      BY <3>1, BodyTypes, InitialStampType
  <2>6. Step(s, {TimerBody(s.sel)}) \in StepType
    BY <2>4, <2>5, StepIsTyped
  <2>7. Take(p, Step(s, {TimerBody(s.sel)}))
    BY <1>2 DEF TurnClock
  <2>8. tally' \in [edits : Nat, turns : Nat, drops : Nat, lost : Nat]
    <3>1. tally.turns + 1 \in Nat
      BY SMT
    <3> QED
      BY <1>2, <3>1, Zenon DEF TurnClock
  <2> QED
    BY <2>6, <2>7, <2>8, TakeIsTyped
<1>3. ASSUME NEW p \in Panels, Push(p) PROVE TypeOK'
  <2>1. PICK now \in Clock[p] : Take(p, Claim(p, panel[p], now))
    BY <1>3 DEF Push
  <2>2. now \in Nat /\ panel[p] \in PanelState
    BY ClockAssumption, Zenon
  <2> QED
    BY <1>3, <2>1, <2>2, ClaimIsTyped, TakeIsTyped DEF Push
<1>4. ASSUME NEW p \in Panels, Open(p) PROVE TypeOK'
  <2>1. PICK now \in Clock[p] : Take(p, Opened(p, panel[p], now))
    BY <1>4 DEF Open
  <2>2. now \in Nat /\ panel[p] \in PanelState
    BY ClockAssumption, Zenon
  <2> QED
    BY <1>4, <2>1, <2>2, OpenedIsTyped, TakeIsTyped DEF Open
<1>5. ASSUME NEW p \in Panels, Drop(p) PROVE TypeOK'
  <2>1. [panel[p] EXCEPT !.link = FALSE] \in PanelState
    BY Zenon DEF PanelState
  <2>2. tally.drops + 1 \in Nat
    BY SMT
  <2> QED
    BY <1>5, <2>1, <2>2, Zenon DEF Drop
<1>6. ASSUME NEW p \in Panels, Deliver(p) PROVE TypeOK'
  <2> QED
    BY <1>6, DeliverIsTyped, Zenon DEF Deliver
<1>7. ASSUME NEW p \in Panels, Lose(p) PROVE TypeOK'
  <2>1. tally.lost + 1 \in Nat
    BY SMT
  <2> QED
    BY <1>7, <2>1, Zenon DEF Lose
<1>8. CASE UNCHANGED vars
  BY <1>8, Zenon DEF vars
<1> QED
  BY <1>1, <1>2, <1>3, <1>4, <1>5, <1>6, <1>7, <1>8, Zenon DEF Next

\* Every variable of the room keeps its type.
THEOREM TypeCorrect == Spec => []TypeOK
BY InitTypeOK, StepTypeOK, PTL DEF Spec
-----------------------------------------------------------------------------
(* Stamps climb.                                                           *)

Climbs(new, old) == new = old \/ Outranks(new, old)

\* Stamps that climb twice have climbed.
LEMMA ClimbsTransitive ==
    ASSUME NEW s \in Stamp, NEW t \in Stamp, NEW u \in Stamp, Climbs(s, t), Climbs(t, u)
    PROVE  Climbs(s, u)
BY OutranksTransitive DEF Climbs

\* What a claim does to the page that makes it.
LEMMA ClaimEffect ==
    ASSUME NEW p \in Panels, NEW s \in PanelState, NEW now \in Nat
    PROVE  LET t == Claim(p, s, now).state
           IN  /\ t \in PanelState /\ t.stamp \in Stamp
               /\ Outranks(t.stamp, s.stamp) /\ Climbs(t.stamp, s.stamp)
               /\ t.stamp.seq > s.stamp.seq /\ t.stamp.by = p /\ ~t.stamp.echo
               /\ t.sel = s.sel /\ ~t.acted /\ t.outbox = s.outbox /\ t.link = s.link
               /\ Claim(p, s, now).sent = {SelectionBody(t.stamp, s.sel)}
<1> DEFINE stamp == Minted(p, s.stamp, s.anchored, now)
           t == [s EXCEPT !.stamp = stamp, !.dirty = FALSE, !.acted = FALSE]
<1>1. /\ stamp \in Stamp /\ Outranks(stamp, s.stamp)
      /\ stamp.seq > s.stamp.seq /\ stamp.by = p /\ ~stamp.echo
  BY MintedIsFresh, SMT DEF PanelState
<1>2. Claim(p, s, now).state = t /\ Claim(p, s, now).sent = {SelectionBody(stamp, s.sel)}
  BY Zenon DEF Claim, Step
<1>3. /\ t.stamp = stamp /\ t.sel = s.sel /\ ~t.acted
      /\ t.outbox = s.outbox /\ t.link = s.link
  BY Zenon DEF PanelState
<1>4. t \in PanelState
  BY <1>1, Zenon DEF PanelState
<1> HIDE DEF stamp, t
<1> QED
  BY <1>1, <1>2, <1>3, <1>4, Zenon DEF Climbs

\* A re-statement leaves the page alone and sends one frame.
LEMMA RestateEffect ==
    ASSUME NEW p \in Panels, NEW s \in PanelState, NEW held \in Stamp
    PROVE  /\ Restate(p, s, held).state = s
           /\ Restate(p, s, held).sent = {SelectionBody(Restated(p, held), s.sel)}
BY Zenon DEF Restate, Step

\* Noting a frame touches the stamp and the anchor, nothing an operator did.
LEMMA NotedEffect ==
    ASSUME NEW s \in PanelState, NEW b \in Body
    PROVE  LET noted == Noted(s, b)
           IN  /\ noted \in PanelState /\ noted.stamp \in Stamp /\ s.stamp \in Stamp
               /\ Climbs(noted.stamp, s.stamp)
               /\ noted.sel = s.sel /\ noted.acted = s.acted
               /\ noted.outbox = s.outbox /\ noted.link = s.link
               /\ \/ /\ b.kind = "selection" /\ Outranks(b.stamp, s.stamp)
                     /\ noted.stamp = b.stamp /\ Adopted(s, b).choice = b.choice
                  \/ noted.stamp = s.stamp /\ Adopted(s, b).choice = s.sel.choice
<1> DEFINE noted == Noted(s, b)
<1>0. noted \in PanelState /\ noted.stamp \in Stamp /\ s.stamp \in Stamp /\ s.sel \in Selection
  BY NotedIsTyped, SMT DEF PanelState
<1>1. CASE b.kind = "selection" /\ Outranks(b.stamp, s.stamp)
  <2>1. noted = [s EXCEPT !.stamp = b.stamp, !.anchored = TRUE]
    BY <1>1 DEF Noted
  <2>2. Adopted(s, b) = [s.sel EXCEPT !.choice = b.choice]
    BY <1>1 DEF Adopted
  <2>3. Adopted(s, b).choice = b.choice
    BY <1>0, <2>2, Zenon DEF Selection
  <2>4. /\ noted.stamp = b.stamp /\ noted.sel = s.sel /\ noted.acted = s.acted
        /\ noted.outbox = s.outbox /\ noted.link = s.link
    BY <2>1, Zenon DEF PanelState
  <2> HIDE DEF noted
  <2> QED
    BY <1>0, <1>1, <2>3, <2>4, Zenon DEF Climbs, noted
<1>2. CASE ~(b.kind = "selection" /\ Outranks(b.stamp, s.stamp))
  <2>1. noted = s
    BY <1>2 DEF Noted
  <2>2. Adopted(s, b).choice = s.sel.choice
    <3>1. CASE b.kind = "timer"
      <4>1. Adopted(s, b) = [s.sel EXCEPT !.clock = b.clock]
        BY <3>1 DEF Adopted
      <4> QED
        BY <1>0, <4>1, Zenon DEF Selection
    <3>2. CASE b.kind # "timer"
      BY <1>2, <3>2 DEF Adopted
    <3> QED
      BY <3>1, <3>2
  <2> QED
    BY <1>0, <2>1, <2>2, Zenon DEF Climbs
<1> QED
  BY <1>1, <1>2
-----------------------------------------------------------------------------
(* What any step of a page may do to its stamp, its choice and the claims  *)
(* on the wire.                                                            *)

ClaimFrames(bodies) == {b \in bodies : b.kind = "selection" /\ ~b.stamp.echo}

\* The claims among `sent` that do not come out of the page's old outbox.
NewClaims(s, sent) == ClaimFrames(sent) \ s.outbox

Kept(s, t) ==
    /\ t.stamp = s.stamp
    /\ t.acted \/ (~s.acted /\ t.sel.choice = s.sel.choice)

Took(t, known) ==
    \E k \in known : k.kind = "selection" /\ t.stamp = k.stamp /\ t.sel.choice = k.choice

Claimed(p, s, t) == t.stamp.by = p /\ ~t.stamp.echo /\ t.stamp.seq > s.stamp.seq

\* What the page puts on the wire does not lead the stamp it ends with.
Covered(s, t, sent) ==
    \A x \in sent \ s.outbox : x.kind = "selection" => t.stamp.seq >= x.stamp.seq

\* The page p goes from s to t, having seen the frames `known`.
Lawful(p, s, known, t, sent) ==
    /\ Climbs(t.stamp, s.stamp)
    /\ Covered(s, t, sent)
    /\ \A x \in NewClaims(s, sent) :
          /\ x.stamp.by = p /\ x.stamp.seq > s.stamp.seq /\ t.stamp.seq >= x.stamp.seq
          /\ x.stamp = t.stamp => x.choice = t.sel.choice
          /\ \A y \in NewClaims(s, sent) : x.stamp = y.stamp => x.choice = y.choice
    /\ Kept(s, t) \/ Took(t, known) \/ Claimed(p, s, t)

\* What a selection frame carries.
LEMMA SelectionBodyFields ==
    ASSUME NEW stamp, NEW sel
    PROVE  /\ SelectionBody(stamp, sel).kind = "selection"
           /\ SelectionBody(stamp, sel).stamp = stamp
           /\ SelectionBody(stamp, sel).choice = sel.choice
BY Zenon DEF SelectionBody

\* One frame that carries the count held leads nothing.
LEMMA OneFrameCovered ==
    ASSUME NEW s, NEW t, t.stamp \in Stamp, NEW x, x.stamp.seq = t.stamp.seq
    PROVE  Covered(s, t, {x})
<1>1. t.stamp.seq \in Nat
  BY StampFields
<1>2. t.stamp.seq >= x.stamp.seq
  BY <1>1, SMT
<1> QED
  BY <1>2, Zenon DEF Covered

\* Nor does the re-statement of a stamp.
LEMMA RestatedSeq ==
    ASSUME NEW p, NEW held, NEW sel
    PROVE  SelectionBody(Restated(p, held), sel).stamp.seq = held.seq
<1>1. SelectionBody(Restated(p, held), sel).stamp = Restated(p, held)
  BY SelectionBodyFields
<1>2. Restated(p, held).seq = held.seq
  BY Zenon DEF Restated
<1> QED
  BY <1>1, <1>2

\* Re-statements put no claim on the wire.
LEMMA RestatedIsNoClaim ==
    ASSUME NEW p \in Panels, NEW held \in Stamp, NEW sel
    PROVE  ClaimFrames({SelectionBody(Restated(p, held), sel)}) = {}
<1> DEFINE b == SelectionBody(Restated(p, held), sel)
<1>1. b.stamp.echo
  BY SelectionBodyFields, RestatedType
<1> HIDE DEF b
<1>2. ClaimFrames({b}) = {}
  BY <1>1, Zenon DEF ClaimFrames
<1> QED
  BY <1>2 DEF b

\* A claim is a lawful step: its one new claim stands for the choice shown.
LEMMA ClaimIsLawful ==
    ASSUME NEW p \in Panels, NEW s \in PanelState, NEW known, NEW now \in Nat
    PROVE  Lawful(p, s, known, Claim(p, s, now).state, Claim(p, s, now).sent)
<1> DEFINE t == Claim(p, s, now).state
           sent == Claim(p, s, now).sent
<1>1. /\ t.stamp \in Stamp /\ Climbs(t.stamp, s.stamp)
      /\ t.stamp.seq > s.stamp.seq /\ t.stamp.by = p /\ ~t.stamp.echo
      /\ t.sel = s.sel /\ sent = {SelectionBody(t.stamp, s.sel)}
  BY ClaimEffect
<1>2. t.stamp.seq >= t.stamp.seq
  BY <1>1, StampFields, SMT
<1> HIDE DEF t, sent
<1>3. \A x \in NewClaims(s, sent) : x.stamp = t.stamp /\ x.choice = t.sel.choice
  <2>1. NewClaims(s, sent) \subseteq {SelectionBody(t.stamp, s.sel)}
    BY <1>1, Zenon DEF NewClaims, ClaimFrames
  <2> QED
    BY <1>1, <2>1, SelectionBodyFields
<1>5. Covered(s, t, sent)
  BY <1>1, SelectionBodyFields, OneFrameCovered
<1>4. Lawful(p, s, known, t, sent)
  BY <1>1, <1>2, <1>3, <1>5, Zenon DEF Lawful, Claimed
<1> QED
  BY <1>4 DEF t, sent

\* The answer to request_state is a lawful step.
LEMMA AnswerIsLawful ==
    ASSUME NEW p \in Panels, NEW s \in PanelState, NEW known, NEW now \in Nat
    PROVE  Lawful(p, s, known, Answer(p, s, now).state, Answer(p, s, now).sent)
<1>0. s.stamp \in Stamp
  BY SMT DEF PanelState
<1>1. CASE s.stamp.seq > 0
  <2>1. Answer(p, s, now) = Restate(p, s, s.stamp)
    BY <1>1 DEF Answer
  <2>2. /\ Answer(p, s, now).state = s
        /\ Answer(p, s, now).sent = {SelectionBody(Restated(p, s.stamp), s.sel)}
    BY <1>0, <2>1, RestateEffect
  <2>3. NewClaims(s, Answer(p, s, now).sent) = {}
    BY <1>0, <2>2, RestatedIsNoClaim DEF NewClaims
  <2>4. Covered(s, s, Answer(p, s, now).sent)
    BY <1>0, <2>2, RestatedSeq, OneFrameCovered
  <2> QED
    BY <2>2, <2>3, <2>4, Zenon DEF Lawful, Climbs, Kept
<1>2. CASE ~(s.stamp.seq > 0)
  <2> DEFINE c == Claim(p, s, now)
             a == Answer(p, s, now)
  <2>1. a = [c EXCEPT !.state.dirty = s.dirty, !.state.acted = s.acted /\ s.dirty]
    BY <1>2 DEF Answer
  <2>2. c \in StepType /\ c.state \in PanelState
    BY ClaimIsTyped, SMT DEF StepType
  <2> HIDE DEF a, c
  <2>3. a.sent = c.sent /\ a.state.stamp = c.state.stamp /\ a.state.sel = c.state.sel
    BY <2>1, <2>2, Zenon DEF StepType, PanelState
  <2>4. Lawful(p, s, known, c.state, c.sent) /\ Claimed(p, s, c.state)
    BY ClaimIsLawful, ClaimEffect DEF Claimed, c
  <2>5. Lawful(p, s, known, a.state, a.sent)
    BY <2>3, <2>4, Zenon DEF Lawful, Claimed, Covered
  <2> QED
    BY <2>5 DEF a
<1> QED
  BY <1>1, <1>2

\* A socket that reaches OPEN takes a lawful step.
LEMMA OpenedIsLawful ==
    ASSUME NEW p \in Panels, NEW s \in PanelState, NEW known, NEW now \in Nat
    PROVE  Lawful(p, s, known, Opened(p, s, now).state, Opened(p, s, now).sent)
<1> DEFINE open == [s EXCEPT !.link = TRUE, !.outbox = {}]
           c == Claim(p, open, now)
<1>1. /\ open \in PanelState /\ open.stamp = s.stamp /\ open.sel = s.sel /\ open.acted = s.acted
  BY Zenon DEF PanelState
<1>2. AskBody.kind # "selection"
  BY Zenon DEF AskBody
<1>3. CASE s.announced
  <2>1. Opened(p, s, now) = Step(c.state, ({AskBody} \union s.outbox) \union c.sent)
    BY <1>3, Zenon DEF Opened, Then, Step
  <2>2. /\ Opened(p, s, now).state = c.state
        /\ Opened(p, s, now).sent = ({AskBody} \union s.outbox) \union c.sent
    <3> HIDE DEF open, c
    <3> QED
      BY <2>1, SMT DEF Step
  <2> HIDE DEF open, c
  <2>3. Lawful(p, open, known, c.state, c.sent) /\ Claimed(p, open, c.state)
    BY <1>1, ClaimIsLawful, ClaimEffect, Zenon DEF Claimed, c
  <2>4. NewClaims(s, Opened(p, s, now).sent) \subseteq NewClaims(open, c.sent)
    <3>1. open.outbox = {}
      BY Zenon DEF open, PanelState
    <3> QED
      BY <1>2, <2>2, <3>1, Zenon DEF NewClaims, ClaimFrames
  <2>5. Covered(s, c.state, Opened(p, s, now).sent)
    <3>1. open.outbox = {}
      BY Zenon DEF open, PanelState
    <3>2. Covered(open, c.state, c.sent)
      BY <2>3, Zenon DEF Lawful
    <3> QED
      BY <1>2, <2>2, <3>1, <3>2, Zenon DEF Covered
  <2> QED
    BY <1>1, <2>2, <2>3, <2>4, <2>5, Zenon DEF Lawful, Claimed
<1>4. CASE ~s.announced
  <2> DEFINE t == [open EXCEPT !.announced = TRUE]
  <2>1. /\ Opened(p, s, now).state = t
        /\ Opened(p, s, now).sent = {AskBody} \union s.outbox
    BY <1>4, Zenon DEF Opened, Step
  <2>2. t.stamp = s.stamp /\ t.sel = s.sel /\ t.acted = s.acted
    BY Zenon DEF PanelState
  <2>3. NewClaims(s, Opened(p, s, now).sent) = {}
    BY <1>2, <2>1, Zenon DEF NewClaims, ClaimFrames
  <2>4. Covered(s, t, Opened(p, s, now).sent)
    BY <1>2, <2>1, Zenon DEF Covered
  <2> HIDE DEF t
  <2> QED
    BY <2>1, <2>2, <2>3, <2>4, Zenon DEF Lawful, Climbs, Kept
<1> QED
  BY <1>3, <1>4
\* A page that showed `s`, noted the frame b and shows what it adopted.
Shown(s, b, from) == [from EXCEPT !.sel = Adopted(s, b), !.acted = @ /\ Noted(s, b).stamp = s.stamp]

\* What committing an adopted frame does to the page.
LEMMA ShownEffect ==
    ASSUME NEW s \in PanelState, NEW b \in Body, NEW from \in PanelState
    PROVE  /\ Shown(s, b, from) \in PanelState
           /\ Shown(s, b, from).stamp = from.stamp
           /\ Shown(s, b, from).sel = Adopted(s, b)
           /\ Shown(s, b, from).acted <=> (from.acted /\ Noted(s, b).stamp = s.stamp)
<1> DEFINE a == from.acted /\ Noted(s, b).stamp = s.stamp
<1>1. Adopted(s, b) \in Selection
  BY AdoptedIsTyped
<1>2. a \in BOOLEAN
  BY Zenon
<1>3. Shown(s, b, from) = [from EXCEPT !.sel = Adopted(s, b), !.acted = a]
  BY DEF Shown
<1> HIDE DEF a
<1>4. /\ Shown(s, b, from) \in PanelState
      /\ Shown(s, b, from).stamp = from.stamp
      /\ Shown(s, b, from).sel = Adopted(s, b)
      /\ Shown(s, b, from).acted = a
  BY <1>1, <1>2, <1>3, Zenon DEF PanelState
<1> QED
  BY <1>4 DEF a

\* A frame that finds nothing to flush: re-stated, or silent.
LEMMA IdleReceivedIsLawful ==
    ASSUME NEW p \in Panels, NEW s \in PanelState, NEW b \in Body, NEW now \in Nat, ~s.dirty
    PROVE  Lawful(p, s, {b}, Received(p, s, b, now).state, Received(p, s, b, now).sent)
<1> DEFINE noted == Noted(s, b)
           shown == Shown(s, b, noted)
           r == Received(p, s, b, now)
<1>1. /\ noted \in PanelState /\ noted.stamp \in Stamp /\ Climbs(noted.stamp, s.stamp)
      /\ noted.acted = s.acted
  BY NotedEffect
<1>2. /\ shown.stamp = noted.stamp /\ shown.sel = Adopted(s, b)
      /\ shown.acted <=> (noted.acted /\ noted.stamp = s.stamp)
  BY <1>1, ShownEffect
<1>3. /\ r.state = shown
      /\ r.sent = {} \/ r.sent = {SelectionBody(Restated(p, noted.stamp), shown.sel)}
  <2>1. CASE Adopted(s, b) = s.sel
    <3>1. r = Then(Step(noted, {}), Step(shown, {}))
      BY <2>1, Zenon DEF Received, Step, Shown
    <3> HIDE DEF noted, shown, r
    <3> QED
      BY <3>1, SMT DEF Then, Step
  <2>2. CASE Adopted(s, b) # s.sel
    <3>1. r = Then(Step(noted, {}), Restate(p, shown, noted.stamp))
      BY <2>2, Zenon DEF Received, Step, Shown
    <3> HIDE DEF noted, shown, r
    <3> QED
      BY <3>1, SMT DEF Then, Step, Restate
  <2> QED
    BY <2>1, <2>2
<1>4. NewClaims(s, r.sent) = {}
  <2>1. ClaimFrames(r.sent) = {}
    <3>1. CASE r.sent = {}
      BY <3>1, Zenon DEF ClaimFrames
    <3>2. CASE r.sent = {SelectionBody(Restated(p, noted.stamp), shown.sel)}
      BY <1>1, <3>2, RestatedIsNoClaim
    <3> QED
      BY <1>3, <3>1, <3>2
  <2> QED
    BY <2>1, Zenon DEF NewClaims
<1>5. Kept(s, r.state) \/ Took(r.state, {b})
  <2>1. \/ b.kind = "selection" /\ noted.stamp = b.stamp /\ Adopted(s, b).choice = b.choice
        \/ noted.stamp = s.stamp /\ Adopted(s, b).choice = s.sel.choice
    BY NotedEffect
  <2> HIDE DEF noted, shown, r
  <2> QED
    BY <1>1, <1>2, <1>3, <2>1, Zenon DEF Kept, Took
<1>7. Covered(s, r.state, r.sent)
  <2>1. CASE r.sent = {}
    BY <2>1, Zenon DEF Covered
  <2>2. CASE r.sent = {SelectionBody(Restated(p, noted.stamp), shown.sel)}
    <3> HIDE DEF noted, shown, r
    <3> QED
      BY <1>1, <1>2, <1>3, <2>2, RestatedSeq, OneFrameCovered
  <2> QED
    BY <1>3, <2>1, <2>2
<1> HIDE DEF noted, shown, r
<1>6. Lawful(p, s, {b}, r.state, r.sent)
  BY <1>1, <1>2, <1>3, <1>4, <1>5, <1>7, Zenon DEF Lawful
<1> QED
  BY <1>6 DEF r

\* A frame that lands behind a queued push: the page's own value is claimed
\* first, and what it then adopts is claimed after it.
LEMMA FlushedReceivedIsLawful ==
    ASSUME NEW p \in Panels, NEW s \in PanelState, NEW b \in Body, NEW now \in Nat, s.dirty
    PROVE  Lawful(p, s, {b}, Received(p, s, b, now).state, Received(p, s, b, now).sent)
<1> DEFINE noted == Noted(s, b)
           first == Claim(p, noted, now)
           f == first.state
           shown == Shown(s, b, f)
           second == Claim(p, shown, now)
           r == Received(p, s, b, now)
<1>1. /\ noted \in PanelState /\ noted.stamp \in Stamp /\ s.stamp \in Stamp
      /\ Climbs(noted.stamp, s.stamp) /\ noted.sel = s.sel
  BY NotedEffect
<1>2. /\ f \in PanelState /\ f.stamp \in Stamp /\ Climbs(f.stamp, noted.stamp)
      /\ f.stamp.seq > noted.stamp.seq /\ f.stamp.by = p /\ ~f.stamp.echo
      /\ first.sent = {SelectionBody(f.stamp, s.sel)}
  BY <1>1, ClaimEffect
<1>3. shown \in PanelState /\ shown.stamp = f.stamp /\ shown.sel = Adopted(s, b)
  BY <1>2, ShownEffect
<1>4. noted.stamp.seq >= s.stamp.seq
  BY <1>1, OutranksSeq, StampFields, SMT DEF Climbs
<1>5. Climbs(f.stamp, s.stamp) /\ f.stamp.seq > s.stamp.seq /\ f.stamp.seq >= f.stamp.seq
  <2>1. Climbs(f.stamp, s.stamp)
    BY <1>1, <1>2, ClimbsTransitive
  <2>2. f.stamp.seq \in Nat /\ noted.stamp.seq \in Nat /\ s.stamp.seq \in Nat
    BY <1>1, <1>2, StampFields
  <2> HIDE DEF noted, first, f
  <2> QED
    BY <1>2, <1>4, <2>1, <2>2, SMT
<1>6. CASE Adopted(s, b) = s.sel
  <2>1. r = Then(first, Step(shown, {}))
    BY <1>6, Zenon DEF Received, Step, Shown
  <2>2. r.state = shown /\ r.sent = {SelectionBody(f.stamp, s.sel)}
    <3> HIDE DEF noted, first, f, shown, r
    <3>1. r.state = shown /\ r.sent = first.sent
      BY <2>1, SMT DEF Then, Step
    <3> QED
      BY <1>2, <3>1
  <2>3. \A x \in NewClaims(s, r.sent) : x.stamp = f.stamp /\ x.choice = s.sel.choice
    <3>1. NewClaims(s, r.sent) \subseteq {SelectionBody(f.stamp, s.sel)}
      BY <2>2, Zenon DEF NewClaims, ClaimFrames
    <3> QED
      BY <3>1, SelectionBodyFields
  <2> HIDE DEF noted, first, f, shown, second, r
  <2>5. Covered(s, r.state, r.sent)
    <3>1. SelectionBody(f.stamp, s.sel).stamp.seq = shown.stamp.seq /\ shown.stamp \in Stamp
      BY <1>2, <1>3, SelectionBodyFields
    <3> QED
      BY <2>2, <3>1, OneFrameCovered
  <2>4. Lawful(p, s, {b}, r.state, r.sent)
    BY <1>2, <1>3, <1>5, <1>6, <2>2, <2>3, <2>5, Zenon DEF Lawful, Claimed
  <2> QED
    BY <2>4 DEF r
<1>7. CASE Adopted(s, b) # s.sel
  <2> DEFINE g == second.state
  <2>1. r = Then(first, second)
    BY <1>7, Zenon DEF Received, Step, Shown
  <2>2. /\ g.stamp \in Stamp /\ Climbs(g.stamp, f.stamp)
        /\ g.stamp.seq > f.stamp.seq /\ g.stamp.by = p /\ ~g.stamp.echo
        /\ g.sel = shown.sel /\ second.sent = {SelectionBody(g.stamp, g.sel)}
    BY <1>3, ClaimEffect
  <2>3. r.state = g /\ r.sent = {SelectionBody(f.stamp, s.sel), SelectionBody(g.stamp, g.sel)}
    <3>1. r.state = g /\ r.sent = first.sent \union second.sent
      <4> HIDE DEF noted, first, f, shown, second, r
      <4> QED
        BY <2>1, SMT DEF Then, Step
    <3> HIDE DEF noted, first, f, shown, second, g, r
    <3> QED
      BY <1>2, <2>2, <3>1, Zenon
  <2>4. /\ Climbs(g.stamp, s.stamp) /\ g.stamp.seq > s.stamp.seq
        /\ g.stamp.seq >= f.stamp.seq /\ g.stamp.seq >= g.stamp.seq /\ f.stamp # g.stamp
    <3>1. Climbs(g.stamp, s.stamp)
      BY <1>1, <1>2, <1>5, <2>2, ClimbsTransitive
    <3>2. g.stamp.seq \in Nat /\ f.stamp.seq \in Nat /\ s.stamp.seq \in Nat
      BY <1>1, <1>2, <2>2, StampFields
    <3> HIDE DEF noted, first, f, shown, second, g, r
    <3> QED
      BY <1>5, <2>2, <3>1, <3>2, SMT
  <2>5. \A x \in NewClaims(s, r.sent) :
          \/ x.stamp = f.stamp /\ x.choice = s.sel.choice
          \/ x.stamp = g.stamp /\ x.choice = g.sel.choice
    <3>1. NewClaims(s, r.sent) \subseteq {SelectionBody(f.stamp, s.sel), SelectionBody(g.stamp, g.sel)}
      BY <2>3, Zenon DEF NewClaims, ClaimFrames
    <3> HIDE DEF noted, first, f, shown, second, g, r
    <3> QED
      BY <3>1, SelectionBodyFields
  <2> HIDE DEF noted, first, f, shown, second, g, r
  <2>7. Covered(s, r.state, r.sent)
    <3>1. /\ SelectionBody(f.stamp, s.sel).stamp = f.stamp
          /\ SelectionBody(g.stamp, g.sel).stamp = g.stamp
      BY SelectionBodyFields
    <3> QED
      BY <2>3, <2>4, <3>1, Zenon DEF Covered
  <2>6. Lawful(p, s, {b}, r.state, r.sent)
    BY <1>2, <1>5, <2>2, <2>3, <2>4, <2>5, <2>7, Zenon DEF Lawful, Claimed
  <2> QED
    BY <2>6 DEF r
<1> QED
  BY <1>6, <1>7

\* Any delivered frame is handled by a lawful step.
LEMMA HandledIsLawful ==
    ASSUME NEW p \in Panels, NEW s \in PanelState, NEW b \in Body, NEW now \in Nat
    PROVE  Lawful(p, s, {b}, Handled(p, s, b, now).state, Handled(p, s, b, now).sent)
<1>1. CASE b.kind = "ask"
  BY <1>1, AnswerIsLawful DEF Handled
<1>2. CASE b.kind # "ask" /\ s.dirty
  BY <1>2, FlushedReceivedIsLawful DEF Handled
<1>3. CASE b.kind # "ask" /\ ~s.dirty
  BY <1>3, IdleReceivedIsLawful DEF Handled
<1> QED
  BY <1>1, <1>2, <1>3
-----------------------------------------------------------------------------
(* The invariant.  A claim, on the wire, in a queue or held by a panel, is *)
(* not ahead of the panel that made it, so a new claim carries a stamp no  *)
(* one has seen; and all that carries one claim carries one choice.        *)

Bodies == {m.body : m \in net} \union UNION {panel[q].outbox : q \in Panels}

Known(stamp) == stamp.by \in Panels /\ panel[stamp.by].stamp.seq >= stamp.seq

FramesKnown == \A x \in ClaimFrames(Bodies) : Known(x.stamp)

StampsKnown == \A q \in Panels : IsClaim(panel[q].stamp) => Known(panel[q].stamp)

FramesAgree ==
    \A x, y \in ClaimFrames(Bodies) : x.stamp = y.stamp => x.choice = y.choice

PanelsAgreeWithFrames ==
    \A x \in ClaimFrames(Bodies), q \in Panels :
        x.stamp = panel[q].stamp /\ ~panel[q].acted => x.choice = panel[q].sel.choice

ClaimsInv ==
    /\ FramesKnown /\ StampsKnown
    /\ FramesAgree /\ PanelsAgreeWithFrames /\ SameClaimSameChoice

\* What every action does to the room, seen from the page that takes it.
PageStep(p, known, sent) ==
    /\ known \subseteq Bodies
    /\ Lawful(p, panel[p], known, panel'[p], sent)
    /\ \A q \in Panels \ {p} : panel'[q] = panel[q]
    /\ Bodies' \subseteq Bodies \union sent

\* All frames queued or in flight are frames of the wire.
LEMMA BodiesType == TypeOK => Bodies \subseteq Body
BY SMT DEF TypeOK, Bodies, PanelState

\* A lawful step of one page keeps every part of the claims invariant.
LEMMA PageStepKeepsClaims ==
    ASSUME TypeOK, TypeOK', ClaimsInv, NEW p \in Panels, NEW known, NEW sent \in SUBSET Body,
           PageStep(p, known, sent)
    PROVE  ClaimsInv'
<1> DEFINE s == panel[p]
           t == panel'[p]
           new == NewClaims(s, sent)
           old == ClaimFrames(Bodies)
<1> USE DEF ClaimsInv
<1>1. /\ s \in PanelState /\ t \in PanelState /\ s.stamp \in Stamp /\ t.stamp \in Stamp
      /\ \A q \in Panels : panel[q].stamp \in Stamp /\ panel'[q].stamp \in Stamp
  BY SMT DEF TypeOK, PanelState
<1>2. /\ s.stamp.seq \in Nat /\ t.stamp.seq \in Nat
      /\ \A q \in Panels : panel[q].stamp.seq \in Nat /\ panel'[q].stamp.seq \in Nat
  BY <1>1, StampFields
<1>3. \A x \in old \union new : x.stamp \in Stamp /\ x.stamp.seq \in Nat
  BY BodiesType, BodyFields, StampFields, Zenon DEF ClaimFrames, NewClaims
<1>4. ClaimFrames(Bodies') \subseteq old \union new
  <2>1. s.outbox \subseteq Bodies
    BY Zenon DEF Bodies
  <2> QED
    BY <2>1, Zenon DEF PageStep, ClaimFrames, NewClaims
<1>5. t.stamp.seq >= s.stamp.seq
  <2>1. t.stamp = s.stamp \/ Outranks(t.stamp, s.stamp)
    BY Zenon DEF PageStep, Lawful, Climbs
  <2>2. CASE t.stamp = s.stamp
    BY <1>2, <2>2, SMT
  <2>3. CASE Outranks(t.stamp, s.stamp)
    BY <1>1, <2>3, OutranksSeq
  <2> QED
    BY <2>1, <2>2, <2>3
<1>6. \A q \in Panels : panel'[q].stamp.seq >= panel[q].stamp.seq
  BY <1>2, <1>5, SMT DEF PageStep
\* A stamp once known stays known, and what is by p and past p's count is new.
<1>7. ASSUME NEW stamp \in Stamp, Known(stamp)
      PROVE  Known(stamp)' /\ ~(stamp.by = p /\ stamp.seq > s.stamp.seq)
  <2>1. stamp.seq \in Nat /\ stamp.by \in Panels /\ panel[stamp.by].stamp.seq >= stamp.seq
    BY <1>7, StampFields DEF Known
  <2>2. panel'[stamp.by].stamp.seq >= stamp.seq
    BY <1>2, <1>6, <2>1, SMT
  <2>3. ~(stamp.by = p /\ stamp.seq > s.stamp.seq)
    BY <1>2, <2>1, SMT
  <2> QED
    BY <2>1, <2>2, <2>3 DEF Known
<1>8. \A x \in new : /\ x.stamp.by = p /\ x.stamp.seq > s.stamp.seq
                     /\ t.stamp.seq >= x.stamp.seq
                     /\ x.stamp = t.stamp => x.choice = t.sel.choice
                     /\ \A y \in new : x.stamp = y.stamp => x.choice = y.choice
  BY Zenon DEF PageStep, Lawful
<1>9. \A x \in old : Known(x.stamp)
  BY DEF FramesKnown
<1>10. \A x \in old, y \in new : x.stamp # y.stamp
  BY <1>3, <1>7, <1>8, <1>9, Zenon
<1>11. ASSUME NEW q \in Panels, IsClaim(panel[q].stamp)
       PROVE  Known(panel[q].stamp)
  BY <1>11 DEF StampsKnown
<1>12. Kept(s, t) \/ Took(t, known) \/ Claimed(p, s, t)
  BY Zenon DEF PageStep, Lawful
<1>13. \A q \in Panels \ {p} : panel'[q] = panel[q]
  BY DEF PageStep
<1>14. known \subseteq Bodies
  BY DEF PageStep
<1>15. FramesKnown'
  <2> SUFFICES ASSUME NEW x \in ClaimFrames(Bodies') PROVE Known(x.stamp)'
    BY Zenon DEF FramesKnown, ClaimFrames
  <2>1. CASE x \in old
    BY <1>3, <1>7, <1>9, <2>1, Zenon
  <2>2. CASE x \in new
    BY <1>8, <2>2, Zenon DEF Known
  <2> QED
    BY <1>4, <2>1, <2>2, Zenon<1>16. ASSUME NEW k \in known, k.kind = "selection", k.stamp = t.stamp, ~t.stamp.echo
       PROVE  k \in old
  BY <1>14, <1>16, Zenon DEF ClaimFrames
<1>17. StampsKnown'
  <2> SUFFICES ASSUME NEW q \in Panels, IsClaim(panel[q].stamp)'
               PROVE  Known(panel[q].stamp)'
    BY DEF StampsKnown
  <2>1. CASE q # p
    <3>1. panel'[q] = panel[q] /\ IsClaim(panel[q].stamp)
      BY <1>13, <2>1, Zenon DEF IsClaim
    <3>2. Known(panel[q].stamp)
      BY <1>11, <3>1
    <3> QED
      BY <1>1, <1>7, <3>1, <3>2, Zenon DEF Known
  <2>2. CASE q = p
    <3>1. ~t.stamp.echo /\ IsClaim(t.stamp)
      BY <2>2, Zenon DEF IsClaim
    <3>2. CASE Kept(s, t)
      <4>1. t.stamp = s.stamp /\ Known(s.stamp)
        BY <1>11, <3>1, <3>2 DEF Kept
      <4> QED
        BY <1>1, <1>7, <2>2, <4>1, Zenon DEF Known
    <3>3. CASE Took(t, known)
      <4>1. PICK k \in known : k.kind = "selection" /\ t.stamp = k.stamp
        BY <3>3, Zenon DEF Took
      <4>2. Known(k.stamp)
        BY <1>9, <1>16, <3>1, <4>1
      <4> QED
        BY <1>1, <1>7, <2>2, <4>1, <4>2, Zenon DEF Known
    <3>4. CASE Claimed(p, s, t)
      <4>1. panel'[p].stamp.seq >= t.stamp.seq
        BY <1>2, SMT
      <4> QED
        BY <2>2, <3>4, <4>1, Zenon DEF Known, Claimed
    <3> QED
      BY <1>12, <3>2, <3>3, <3>4
  <2> QED
    BY <2>1, <2>2
<1>18. FramesAgree'
  <2>1. \A x, y \in old \union new : x.stamp = y.stamp => x.choice = y.choice
    <3>1. \A x, y \in old : x.stamp = y.stamp => x.choice = y.choice
      BY Zenon DEF FramesAgree
    <3> HIDE DEF old, new
    <3> QED
      BY <1>8, <1>10, <3>1, Zenon
  <2> QED
    BY <1>4, <2>1, Zenon DEF FramesAgree, ClaimFrames
<1>19. ASSUME NEW q \in Panels \ {p}, NEW stamp \in Stamp, stamp = panel[q].stamp, ~stamp.echo
       PROVE  ~(stamp.by = p /\ stamp.seq > s.stamp.seq)
  <2> SUFFICES ASSUME stamp.seq > s.stamp.seq PROVE stamp.by # p
    OBVIOUS
  <2>1. stamp.seq > 0
    BY <1>2, <1>19, SMT
  <2>2. Known(stamp)
    BY <1>11, <1>19, <2>1 DEF IsClaim
  <2> QED
    BY <1>7, <2>2
<1>20. PanelsAgreeWithFrames'
  <2>1. ASSUME NEW x \in old \union new, NEW q \in Panels,
               x.stamp = panel'[q].stamp, ~panel'[q].acted
        PROVE  x.choice = panel'[q].sel.choice
    <3>1. CASE q # p /\ x \in old
      <4>1. panel'[q] = panel[q]
        BY <1>13, <3>1, Zenon
      <4> QED
        BY <2>1, <3>1, <4>1, Zenon DEF PanelsAgreeWithFrames
    <3>2. CASE q # p /\ x \in new
      <4>1. panel'[q] = panel[q] /\ q \in Panels \ {p}
        BY <1>13, <3>2, Zenon
      <4>2. ~x.stamp.echo /\ x.stamp \in Stamp
        BY <1>3, <3>2, Zenon DEF NewClaims, ClaimFrames
      <4>3. ~(x.stamp.by = p /\ x.stamp.seq > s.stamp.seq)
        BY <1>19, <2>1, <4>1, <4>2
      <4> QED
        BY <1>8, <3>2, <4>3
    <3>3. CASE q = p /\ x \in new
      BY <1>8, <2>1, <3>3
    <3>4. CASE q = p /\ x \in old
      <4>1. ~x.stamp.echo /\ x.stamp = t.stamp
        BY <2>1, <3>4, Zenon DEF ClaimFrames
      <4>2. CASE Kept(s, t)
        BY <2>1, <3>4, <4>2, Zenon DEF Kept, PanelsAgreeWithFrames
      <4>3. CASE Took(t, known)
        <5>1. PICK k \in known : /\ k.kind = "selection" /\ t.stamp = k.stamp
                                 /\ t.sel.choice = k.choice
          BY <4>3, Zenon DEF Took
        <5>2. k \in old
          BY <1>16, <4>1, <5>1
        <5>3. x.choice = k.choice
          BY <3>4, <4>1, <5>1, <5>2, Zenon DEF FramesAgree
        <5> QED
          BY <3>4, <5>1, <5>3
      <4>4. CASE Claimed(p, s, t)
        BY <1>3, <1>7, <1>9, <3>4, <4>1, <4>4, Zenon DEF Claimed
      <4> QED
        BY <1>12, <4>2, <4>3, <4>4
    <3> QED
      BY <2>1, <3>1, <3>2, <3>3, <3>4
  <2> QED
    BY <1>4, <2>1, Zenon DEF PanelsAgreeWithFrames, ClaimFrames
<1>21. SameClaimSameChoice'
  <2>1. ASSUME NEW q \in Panels \ {p}, panel[q].stamp = t.stamp, IsClaim(t.stamp),
               ~panel[q].acted, ~t.acted
        PROVE  panel[q].sel.choice = t.sel.choice
    <3>1. ~t.stamp.echo
      BY <2>1 DEF IsClaim
    <3>2. CASE Kept(s, t)
      BY <2>1, <3>2, Zenon DEF Kept, SameClaimSameChoice
    <3>3. CASE Took(t, known)
      <4>1. PICK k \in known : /\ k.kind = "selection" /\ t.stamp = k.stamp
                               /\ t.sel.choice = k.choice
        BY <3>3, Zenon DEF Took
      <4>2. k \in old
        BY <1>16, <3>1, <4>1
      <4> QED
        BY <2>1, <4>1, <4>2, Zenon DEF PanelsAgreeWithFrames
    <3>4. CASE Claimed(p, s, t)
      BY <1>1, <1>19, <2>1, <3>1, <3>4 DEF Claimed
    <3> QED
      BY <1>12, <3>2, <3>3, <3>4
  <2> SUFFICES ASSUME NEW q \in Panels, NEW r \in Panels,
                      IsClaim(panel'[q].stamp), panel'[q].stamp = panel'[r].stamp,
                      ~panel'[q].acted, ~panel'[r].acted
               PROVE  panel'[q].sel.choice = panel'[r].sel.choice
    BY Zenon DEF SameClaimSameChoice, IsClaim
  <2>2. CASE q # p /\ r # p
    <3>1. panel'[q] = panel[q] /\ panel'[r] = panel[r]
      BY <1>13, <2>2, Zenon
    <3> QED
      BY <3>1, Zenon DEF SameClaimSameChoice
  <2>3. CASE q # p /\ r = p
    BY <1>13, <2>1, <2>3, Zenon
  <2>4. CASE q = p /\ r # p
    BY <1>13, <2>1, <2>4, Zenon
  <2>5. CASE q = p /\ r = p
    BY <2>5
  <2> QED
    BY <2>2, <2>3, <2>4, <2>5
<1> QED
  BY <1>15, <1>17, <1>18, <1>20, <1>21

\* A socket that reaches OPEN leaves its queue empty.
LEMMA OpenedOutbox ==
    ASSUME NEW p \in Panels, NEW s \in PanelState, NEW now \in Nat
    PROVE  Opened(p, s, now).state.outbox \subseteq s.outbox
<1> DEFINE open == [s EXCEPT !.link = TRUE, !.outbox = {}]
           c == Claim(p, open, now)
           t == [open EXCEPT !.announced = TRUE]
<1>1. open \in PanelState /\ open.outbox = {} /\ t.outbox = {}
  BY Zenon DEF PanelState
<1> HIDE DEF t, open
<1>2. c.state.outbox = {}
  BY <1>1, ClaimEffect
<1> HIDE DEF c
<1>3. Opened(p, s, now).state = c.state \/ Opened(p, s, now).state = t
  <2>1. CASE s.announced
    <3>1. Opened(p, s, now) = Step(c.state, ({AskBody} \union s.outbox) \union c.sent)
      BY <2>1, Zenon DEF Opened, Then, Step, c, open
    <3> QED
      BY <3>1, SMT DEF Step
  <2>2. CASE ~s.announced
    BY <2>2, Zenon DEF Opened, Step, t, open
  <2> QED
    BY <2>1, <2>2
<1> QED
  BY <1>1, <1>2, <1>3, Zenon

\* Handling a frame leaves the queue of the socket library alone.
LEMMA HandledOutbox ==
    ASSUME NEW p \in Panels, NEW s \in PanelState, NEW b \in Body, NEW now \in Nat
    PROVE  Handled(p, s, b, now).state.outbox \subseteq s.outbox
<1>0. s.stamp \in Stamp
  BY SMT DEF PanelState
<1>1. Answer(p, s, now).state.outbox = s.outbox
  <2>1. CASE s.stamp.seq > 0
    BY <1>0, <2>1, RestateEffect DEF Answer
  <2>2. CASE ~(s.stamp.seq > 0)
    <3> DEFINE c == Claim(p, s, now)
    <3>1. c \in StepType /\ c.state \in PanelState /\ c.state.outbox = s.outbox
      BY ClaimIsTyped, ClaimEffect, SMT DEF StepType
    <3>2. Answer(p, s, now) = [c EXCEPT !.state.dirty = s.dirty, !.state.acted = s.acted /\ s.dirty]
      BY <2>2 DEF Answer
    <3> HIDE DEF c
    <3>3. Answer(p, s, now).state.outbox = c.state.outbox
      BY <3>1, <3>2, Zenon DEF StepType, PanelState
    <3> QED
      BY <3>1, <3>3
  <2> QED
    BY <2>1, <2>2
<1>2. Received(p, s, b, now).state.outbox = s.outbox
  <2> DEFINE noted   == Noted(s, b)
             flushed == IF s.dirty THEN Claim(p, noted, now) ELSE Step(noted, {})
             shown   == Shown(s, b, flushed.state)
             last    == IF ~(Adopted(s, b) # s.sel) THEN Step(shown, {})
                        ELSE IF s.dirty THEN Claim(p, shown, now)
                        ELSE Restate(p, shown, noted.stamp)
  <2>1. noted \in PanelState /\ noted.stamp \in Stamp /\ noted.outbox = s.outbox
    BY NotedEffect
  <2>2. flushed.state \in PanelState /\ flushed.state.outbox = s.outbox
    <3>1. CASE s.dirty
      BY <2>1, <3>1, ClaimEffect
    <3>2. CASE ~s.dirty
      BY <2>1, <3>2, StepIsTyped
    <3> QED
      BY <3>1, <3>2
  <2>3. shown \in PanelState /\ shown.outbox = s.outbox
    <3> HIDE DEF flushed, noted
    <3>1. shown \in PanelState
      BY <2>2, ShownEffect
    <3>2. shown.outbox = flushed.state.outbox
      BY <2>2, Zenon DEF Shown, PanelState
    <3> QED
      BY <2>2, <3>1, <3>2
  <2>4. last.state.outbox = s.outbox
    <3> HIDE DEF shown, noted
    <3>1. CASE ~(Adopted(s, b) # s.sel)
      BY <2>3, <3>1, StepIsTyped
    <3>2. CASE Adopted(s, b) # s.sel /\ s.dirty
      BY <2>3, <3>2, ClaimEffect
    <3>3. CASE Adopted(s, b) # s.sel /\ ~s.dirty
      BY <2>1, <2>3, <3>3, RestateEffect
    <3> QED
      BY <3>1, <3>2, <3>3
  <2>5. Received(p, s, b, now) = Then(flushed, last)
    BY Zenon DEF Received, Shown
  <2> HIDE DEF flushed, last
  <2>6. Received(p, s, b, now).state = last.state
    BY <2>5, SMT DEF Then, Step
  <2> QED
    BY <2>4, <2>6
<1> QED
  BY <1>1, <1>2, Zenon DEF Handled

\* Frames a page sends are the only new ones of the room.
LEMMA BodiesGrow ==
    ASSUME NEW sent,
           \A m \in net' : m.body \in Bodies \union sent,
           \A q \in Panels : panel'[q].outbox \subseteq Bodies \union sent
    PROVE  Bodies' \subseteq Bodies \union sent
<1> DEFINE known == Bodies \union sent
<1>1. Bodies' = {m.body : m \in net'} \union UNION {panel'[q].outbox : q \in Panels}
  BY DEF Bodies
<1>2. (\A m \in net' : m.body \in known) /\ (\A q \in Panels : panel'[q].outbox \subseteq known)
  OBVIOUS
<1> HIDE DEF known
<1>3. Bodies' \subseteq known
  BY <1>1, <1>2, SMT
<1> QED
  BY <1>3 DEF known

\* A frame in flight or in a queue is a frame of the room.
LEMMA OldBodies ==
    /\ \A m \in net : m.body \in Bodies
    /\ \A q \in Panels : panel[q].outbox \subseteq Bodies
BY SMT DEF Bodies

\* The relay invents no frame.
LEMMA FanoutBodies ==
    ASSUME NEW p, NEW bodies, NEW m \in Fanout(p, bodies)
    PROVE  m.body \in bodies
BY SMT DEF Fanout

\* A page that takes a lawful step makes a lawful step of the room.
LEMMA TakeIsPageStep ==
    ASSUME TypeOK, NEW p \in Panels, NEW step \in StepType, Take(p, step),
           Lawful(p, panel[p], {}, step.state, step.sent),
           step.state.outbox \subseteq panel[p].outbox
    PROVE  PageStep(p, {}, step.sent)
<1>1. step.state \in PanelState /\ step.sent \in SUBSET Body
  BY SMT DEF StepType
<1>2. \A q \in Panels \ {p} : panel'[q] = panel[q]
  BY Zenon DEF Take, TypeOK
<1>3. /\ Lawful(p, panel[p], {}, panel'[p], step.sent)
      /\ Bodies' \subseteq Bodies \union step.sent
  <2>1. CASE step.state.link
    <3>1. panel'[p] = step.state /\ net' = net \union Fanout(p, step.sent)
      BY <2>1, Zenon DEF Take, TypeOK
    <3>2. \A q \in Panels : panel'[q].outbox \subseteq Bodies \union step.sent
      BY <1>2, <3>1, OldBodies, Zenon
    <3>3. \A m \in net' : m.body \in Bodies \union step.sent
      BY <3>1, FanoutBodies, OldBodies, Zenon
    <3> QED
      BY <3>1, <3>2, <3>3, BodiesGrow
  <2>2. CASE ~step.state.link
    <3> DEFINE t == [step.state EXCEPT !.outbox = @ \union step.sent]
    <3>1. panel'[p] = t /\ net' = net
      BY <2>2, Zenon DEF Take, TypeOK
    <3>2. /\ t.stamp = step.state.stamp /\ t.sel = step.state.sel /\ t.acted = step.state.acted
          /\ t.outbox = step.state.outbox \union step.sent
      BY <1>1, Zenon DEF PanelState
    <3> HIDE DEF t
    <3>3. Lawful(p, panel[p], {}, t, step.sent)
      BY <3>2, Zenon DEF Lawful, Kept, Took, Claimed, Covered
    <3>4. \A q \in Panels : panel'[q].outbox \subseteq Bodies \union step.sent
      BY <1>2, <3>1, <3>2, OldBodies, Zenon
    <3>5. \A m \in net' : m.body \in Bodies \union step.sent
      BY <3>1, OldBodies, Zenon
    <3> QED
      BY <3>1, <3>3, <3>4, <3>5, BodiesGrow
  <2> QED
    BY <2>1, <2>2
<1> QED
  BY <1>2, <1>3, Zenon DEF PageStep

\* A page that moves its own board without touching stamp or wire.
LEMMA QuietEditIsLawful ==
    ASSUME NEW p, NEW s, NEW t, NEW sent,
           t.stamp = s.stamp, t.acted, \A x \in sent : x.kind # "selection"
    PROVE  Lawful(p, s, {}, t, sent)
BY Zenon DEF Lawful, Climbs, Kept, NewClaims, ClaimFrames, Covered

\* Every step of the room is a step of some page, or touches no panel's stamp,
\* choice or history and puts nothing on the wire.
LEMMA NextIsPageStep ==
    ASSUME TypeOK, TypeOK', [Next]_vars
    PROVE  \/ \E p \in Panels, known \in SUBSET Body, sent \in SUBSET Body : PageStep(p, known, sent)
           \/ /\ \A q \in Panels : /\ panel'[q].stamp = panel[q].stamp
                                   /\ panel'[q].sel = panel[q].sel
                                   /\ panel'[q].acted = panel[q].acted
              /\ Bodies' \subseteq Bodies
<1>0. \A q \in Panels : panel[q] \in PanelState
  BY SMT DEF TypeOK
<1>1. ASSUME NEW p \in Panels, Edit(p)
      PROVE  PageStep(p, {}, {})
  <2> DEFINE t == [panel[p] EXCEPT !.sel.choice = tally.edits + 1,
                                   !.dirty = @ \/ panel[p].link, !.acted = TRUE]
  <2>1. panel' = [panel EXCEPT ![p] = t] /\ net' = net
    BY <1>1, Zenon DEF Edit
  <2>2. t.stamp = panel[p].stamp /\ t.acted /\ t.outbox = panel[p].outbox
    BY <1>0, Zenon DEF PanelState
  <2> HIDE DEF t
  <2>3. panel'[p] = t /\ \A q \in Panels \ {p} : panel'[q] = panel[q]
    BY <2>1, Zenon DEF TypeOK
  <2>4. Bodies' \subseteq Bodies \union {}
    <3>1. \A q \in Panels : panel'[q].outbox \subseteq Bodies \union {}
      BY <2>2, <2>3, OldBodies, Zenon
    <3>2. \A m \in net' : m.body \in Bodies \union {}
      BY <2>1, OldBodies, Zenon
    <3> QED
      BY <3>1, <3>2, BodiesGrow
  <2>5. \A x \in {} : x.kind # "selection"
    OBVIOUS
  <2>6. Lawful(p, panel[p], {}, t, {})
    BY <2>2, <2>5, QuietEditIsLawful
  <2> QED
    BY <2>3, <2>4, <2>6, Zenon DEF PageStep
<1>2. ASSUME NEW p \in Panels, TurnClock(p)
      PROVE  \E sent \in SUBSET Body : PageStep(p, {}, sent)
  <2> DEFINE t == [panel[p] EXCEPT !.sel.clock = ~@,
                                   !.dirty = @ \/ panel[p].link, !.acted = TRUE]
             sent == {TimerBody(t.sel)}
             step == Step(t, sent)
  <2>1. Take(p, step)
    BY <1>2 DEF TurnClock
  <2>2. t \in PanelState
    <3>1. panel[p].sel \in Selection
      BY <1>0, SMT DEF PanelState
    <3>2. [panel[p].sel EXCEPT !.clock = ~@] \in Selection
      BY <3>1, Zenon DEF Selection
    <3>3. (panel[p].dirty \/ panel[p].link) \in BOOLEAN
      BY Zenon
    <3> QED
      BY <1>0, <3>2, <3>3, Zenon DEF PanelState
  <2>3. t.stamp = panel[p].stamp /\ t.acted /\ t.outbox = panel[p].outbox
    BY <1>0, Zenon DEF PanelState
  <2> HIDE DEF t
  <2>4. sent \in SUBSET Body
    <3>1. t.sel \in Selection
      BY <2>2, SMT DEF PanelState
    <3> QED
      BY <3>1, BodyTypes, InitialStampType
  <2>5. \A x \in sent : x.kind # "selection"
    BY SMT DEF TimerBody
  <2>6. Lawful(p, panel[p], {}, t, sent)
    BY <2>3, <2>5, QuietEditIsLawful
  <2>7. step \in StepType /\ step.state = t /\ step.sent = sent
    BY <2>2, <2>4, StepIsTyped
  <2> HIDE DEF sent, step
  <2>8. PageStep(p, {}, step.sent)
    BY <2>1, <2>3, <2>6, <2>7, TakeIsPageStep
  <2> QED
    BY <2>4, <2>7, <2>8
<1>3. ASSUME NEW p \in Panels, Push(p)
      PROVE  \E sent \in SUBSET Body : PageStep(p, {}, sent)
  <2>1. PICK now \in Clock[p] : Take(p, Claim(p, panel[p], now))
    BY <1>3 DEF Push
  <2>2. now \in Nat
    BY ClockAssumption, Zenon
  <2> DEFINE step == Claim(p, panel[p], now)
  <2>3. step \in StepType /\ step.sent \in SUBSET Body
    BY <1>0, <2>2, ClaimIsTyped, SMT DEF StepType
  <2>4. step.state.outbox = panel[p].outbox
    BY <1>0, <2>2, ClaimEffect
  <2>5. Lawful(p, panel[p], {}, step.state, step.sent)
    BY <1>0, <2>2, ClaimIsLawful
  <2> HIDE DEF step
  <2>6. PageStep(p, {}, step.sent)
    BY <2>1, <2>3, <2>4, <2>5, TakeIsPageStep DEF step
  <2> QED
    BY <2>3, <2>6
<1>4. ASSUME NEW p \in Panels, Open(p)
      PROVE  \E sent \in SUBSET Body : PageStep(p, {}, sent)
  <2>1. PICK now \in Clock[p] : Take(p, Opened(p, panel[p], now))
    BY <1>4 DEF Open
  <2>2. now \in Nat
    BY ClockAssumption, Zenon
  <2> DEFINE step == Opened(p, panel[p], now)
  <2>3. step \in StepType /\ step.sent \in SUBSET Body
    BY <1>0, <2>2, OpenedIsTyped, SMT DEF StepType
  <2>4. step.state.outbox \subseteq panel[p].outbox
    BY <1>0, <2>2, OpenedOutbox
  <2>5. Lawful(p, panel[p], {}, step.state, step.sent)
    BY <1>0, <2>2, OpenedIsLawful
  <2> HIDE DEF step
  <2>6. PageStep(p, {}, step.sent)
    BY <2>1, <2>3, <2>4, <2>5, TakeIsPageStep DEF step
  <2> QED
    BY <2>3, <2>6
<1>5. ASSUME NEW p \in Panels, Deliver(p)
      PROVE  \E known \in SUBSET Body, sent \in SUBSET Body : PageStep(p, known, sent)
  <2> DEFINE step(m, now) == Handled(p, panel[p], m.body, now)
  <2>1. PICK m \in net, now \in Clock[p] :
            /\ panel' = [panel EXCEPT ![p] = step(m, now).state]
            /\ net' = (net \ {m}) \union Fanout(p, step(m, now).sent)
    BY <1>5, Zenon DEF Deliver
  <2>2. m.body \in Body /\ now \in Nat
    BY ClockAssumption, SMT DEF TypeOK
  <2> DEFINE done == step(m, now)
  <2>3. done \in StepType /\ done.sent \in SUBSET Body
    BY <1>0, <2>2, HandledIsTyped, SMT DEF StepType
  <2>4. done.state.outbox \subseteq panel[p].outbox
    BY <1>0, <2>2, HandledOutbox
  <2>5. Lawful(p, panel[p], {m.body}, done.state, done.sent)
    BY <1>0, <2>2, HandledIsLawful
  <2> HIDE DEF done
  <2>6. panel'[p] = done.state /\ \A q \in Panels \ {p} : panel'[q] = panel[q]
    BY <2>1, Zenon DEF TypeOK, done
  <2>7. Bodies' \subseteq Bodies \union done.sent
    <3>1. net' = (net \ {m}) \union Fanout(p, done.sent)
      BY <2>1 DEF done
    <3>2. \A q \in Panels : panel'[q].outbox \subseteq Bodies \union done.sent
      BY <2>4, <2>6, OldBodies, Zenon
    <3>3. \A x \in net' : x.body \in Bodies \union done.sent
      BY <3>1, FanoutBodies, OldBodies, Zenon
    <3> QED
      BY <3>2, <3>3, BodiesGrow
  <2>8. {m.body} \in SUBSET Body /\ {m.body} \subseteq Bodies
    BY <2>2, Zenon DEF Bodies
  <2>9. PageStep(p, {m.body}, done.sent)
    BY <2>5, <2>6, <2>7, <2>8, Zenon DEF PageStep
  <2> QED
    BY <2>3, <2>8, <2>9
<1>6. ASSUME NEW p \in Panels, Drop(p)
      PROVE  /\ \A q \in Panels : /\ panel'[q].stamp = panel[q].stamp
                                   /\ panel'[q].sel = panel[q].sel
                                   /\ panel'[q].acted = panel[q].acted
             /\ Bodies' \subseteq Bodies
  <2> DEFINE t == [panel[p] EXCEPT !.link = FALSE]
  <2>1. panel' = [panel EXCEPT ![p] = t] /\ net' \subseteq net
    BY <1>6, Zenon DEF Drop
  <2>2. /\ t.stamp = panel[p].stamp /\ t.sel = panel[p].sel /\ t.acted = panel[p].acted
        /\ t.outbox = panel[p].outbox
    BY <1>0, Zenon DEF PanelState
  <2> HIDE DEF t
  <2>3. panel'[p] = t /\ \A q \in Panels \ {p} : panel'[q] = panel[q]
    BY <2>1, Zenon DEF TypeOK
  <2>4. \A q \in Panels : /\ panel'[q].stamp = panel[q].stamp
                           /\ panel'[q].sel = panel[q].sel
                           /\ panel'[q].acted = panel[q].acted
                           /\ panel'[q].outbox = panel[q].outbox
    BY <2>2, <2>3, Zenon
  <2> QED
    BY <2>1, <2>4, Zenon DEF Bodies
<1>7. ASSUME NEW p \in Panels, Lose(p)
      PROVE  panel' = panel /\ Bodies' \subseteq Bodies
  BY <1>7, Zenon DEF Lose, Bodies
<1>8. ASSUME UNCHANGED vars
      PROVE  panel' = panel /\ Bodies' \subseteq Bodies
  BY <1>8, Zenon DEF vars, Bodies
<1>9. CASE \E p \in Panels : Edit(p) \/ TurnClock(p) \/ Push(p) \/ Open(p) \/ Deliver(p)
  <2>1. {} \in SUBSET Body
    BY Zenon
  <2> QED
    BY <1>1, <1>2, <1>3, <1>4, <1>5, <1>9, <2>1, Zenon
<1> QED
  BY <1>6, <1>7, <1>8, <1>9, Zenon DEF Next
-----------------------------------------------------------------------------
(* The theorems.                                                           *)

\* The room starts with no claim at all.
LEMMA InitClaims == Init => ClaimsInv
<1> SUFFICES ASSUME Init PROVE ClaimsInv
  OBVIOUS
<1>1. \A q \in Panels : panel[q].stamp = InitialStamp /\ panel[q].outbox = {}
  BY SMT DEF Init, FreshPanel
<1>2. ~IsClaim(InitialStamp)
  BY SMT DEF IsClaim, InitialStamp
<1>3. \A q \in Panels : ~IsClaim(panel[q].stamp)
  BY <1>1, <1>2, Zenon
<1>4. ClaimFrames(Bodies) = {}
  <2>1. Bodies = {}
    BY <1>1, SMT DEF Init, Bodies
  <2> QED
    BY <2>1, Zenon DEF ClaimFrames
<1> QED
  BY <1>3, <1>4, Zenon DEF ClaimsInv, FramesKnown, StampsKnown, FramesAgree,
                            PanelsAgreeWithFrames, SameClaimSameChoice

\* A step that touches no stamp and no choice keeps the claims invariant.
LEMMA QuietStepKeepsClaims ==
    ASSUME ClaimsInv, Bodies' \subseteq Bodies,
           \A q \in Panels : /\ panel'[q].stamp = panel[q].stamp
                             /\ panel'[q].sel = panel[q].sel
                             /\ panel'[q].acted = panel[q].acted
    PROVE  ClaimsInv'
<1> USE DEF ClaimsInv
<1>1. ClaimFrames(Bodies') \subseteq ClaimFrames(Bodies)
  BY Zenon DEF ClaimFrames
<1>2. FramesKnown'
  <2> SUFFICES ASSUME NEW x \in ClaimFrames(Bodies') PROVE Known(x.stamp)'
    BY Zenon DEF FramesKnown, ClaimFrames
  <2>1. Known(x.stamp)
    BY <1>1, Zenon DEF FramesKnown
  <2> QED
    BY <2>1, Zenon DEF Known
<1>3. StampsKnown'
  <2> SUFFICES ASSUME NEW q \in Panels, IsClaim(panel'[q].stamp) PROVE Known(panel[q].stamp)'
    BY Zenon DEF StampsKnown, IsClaim
  <2>1. Known(panel[q].stamp)
    BY Zenon DEF StampsKnown
  <2> QED
    BY <2>1, Zenon DEF Known
<1>4. FramesAgree'
  BY <1>1, Zenon DEF FramesAgree, ClaimFrames
<1>5. PanelsAgreeWithFrames'
  <2> SUFFICES ASSUME NEW x \in ClaimFrames(Bodies'), NEW q \in Panels,
                      x.stamp = panel'[q].stamp, ~panel'[q].acted
               PROVE  x.choice = panel'[q].sel.choice
    BY Zenon DEF PanelsAgreeWithFrames, ClaimFrames
  <2> QED
    BY <1>1, Zenon DEF PanelsAgreeWithFrames
<1>6. SameClaimSameChoice'
  <2> SUFFICES ASSUME NEW q \in Panels, NEW r \in Panels,
                      IsClaim(panel'[q].stamp), panel'[q].stamp = panel'[r].stamp,
                      ~panel'[q].acted, ~panel'[r].acted
               PROVE  panel'[q].sel.choice = panel'[r].sel.choice
    BY Zenon DEF SameClaimSameChoice, IsClaim
  <2> QED
    BY Zenon DEF SameClaimSameChoice
<1> QED
  BY <1>2, <1>3, <1>4, <1>5, <1>6

\* The claims invariant is inductive.
LEMMA StepClaims ==
    ASSUME TypeOK, TypeOK', ClaimsInv, [Next]_vars
    PROVE  ClaimsInv'
BY NextIsPageStep, PageStepKeepsClaims, QuietStepKeepsClaims

\* Under the claims invariant every step makes stamps climb or leaves them.
LEMMA StepClimbs ==
    ASSUME TypeOK, TypeOK', [Next]_vars
    PROVE  \A p \in Panels : panel'[p].stamp = panel[p].stamp
                               \/ Outranks(panel'[p].stamp, panel[p].stamp)
<1>1. CASE \E p \in Panels, known \in SUBSET Body, sent \in SUBSET Body : PageStep(p, known, sent)
  BY <1>1, Zenon DEF PageStep, Lawful, Climbs
<1>2. CASE \A q \in Panels : panel'[q].stamp = panel[q].stamp
  BY <1>2
<1> QED
  BY <1>1, <1>2, NextIsPageStep

\* In every reachable state each claim of the room - held, queued or in flight -
\* is one its author has reached, and stands for one choice.
THEOREM ClaimsHold == Spec => []ClaimsInv
<1>1. TypeOK /\ TypeOK' /\ ClaimsInv /\ [Next]_vars => ClaimsInv'
  BY StepClaims
<1> QED
  BY InitClaims, TypeCorrect, <1>1, PTL DEF Spec

\* Two panels that hold the same claim and have nothing unsaid of their own show
\* the same choice, with any number of panels and any losses (the stamp and the
\* value it stands for are accepted together in handlePeer).
THEOREM OneClaimOneChoice == Spec => []SameClaimSameChoice
<1>1. ClaimsInv => SameClaimSameChoice
  BY DEF ClaimsInv
<1> QED
  BY ClaimsHold, <1>1, PTL

\* No step makes a panel fall back to a stamp it had left (acceptSelectionStamp
\* and the mint past everything seen).
THEOREM StampsOnlyClimb == Spec => StampsClimb
<1>1. TypeOK /\ TypeOK' /\ [Next]_vars =>
          [\A p \in Panels : panel'[p].stamp = panel[p].stamp
                               \/ Outranks(panel'[p].stamp, panel[p].stamp)]_vars
  BY StepClimbs
<1> QED
  BY TypeCorrect, <1>1, PTL DEF Spec, StampsClimb
-----------------------------------------------------------------------------
(* A re-statement never leads the room.                                    *)

\* Some panel of the room holds a claim of this count or a later one.
BackedIn(room, stamp) ==
    stamp.seq > 0 =>
        \E q \in Panels : IsClaim(room[q].stamp) /\ room[q].stamp.seq >= stamp.seq

\* The strengthening of EchoNeverLeads: what is in flight or in a queue does not lead
\* either, or adopting it would.
BackedInv ==
    /\ \A p \in Panels : BackedIn(panel, panel[p].stamp)
    /\ \A x \in Bodies : x.kind = "selection" => BackedIn(panel, x.stamp)

\* Nobody holds a stamp yet.
LEMMA InitBacked == Init => BackedInv
<1> SUFFICES ASSUME Init PROVE BackedInv
  OBVIOUS
<1>1. \A q \in Panels : panel[q].stamp = InitialStamp /\ panel[q].outbox = {}
  BY SMT DEF Init, FreshPanel
<1>2. Bodies = {}
  BY <1>1, SMT DEF Init, Bodies
<1>3. ~(InitialStamp.seq > 0)
  BY SMT DEF InitialStamp
<1> QED
  BY <1>1, <1>2, <1>3, Zenon DEF BackedInv, BackedIn

\* Whoever backs a stamp, a step of the room leaves it backed: a panel gives its
\* claim up only for a later claim of its own, or for a frame that someone else backs.
LEMMA StillBacked ==
    ASSUME TypeOK, TypeOK', BackedInv, NEW p \in Panels, NEW known, NEW sent \in SUBSET Body,
           PageStep(p, known, sent), NEW stamp \in Stamp, BackedIn(panel, stamp)
    PROVE  BackedIn(panel', stamp)
<1> DEFINE s == panel[p].stamp
           t == panel'[p].stamp
<1>1. /\ \A q \in Panels : panel[q].stamp \in Stamp /\ panel'[q].stamp \in Stamp
      /\ s \in Stamp /\ t \in Stamp
  BY SMT DEF TypeOK, PanelState
<1>2. /\ \A q \in Panels : panel[q].stamp.seq \in Nat /\ panel'[q].stamp.seq \in Nat
      /\ stamp.seq \in Nat
  BY <1>1, StampFields
<1> SUFFICES ASSUME stamp.seq > 0
             PROVE  \E q \in Panels : IsClaim(panel'[q].stamp) /\ panel'[q].stamp.seq >= stamp.seq
  BY Zenon DEF BackedIn, IsClaim
<1>3. PICK q \in Panels : IsClaim(panel[q].stamp) /\ panel[q].stamp.seq >= stamp.seq
  BY Zenon DEF BackedIn
<1>4. CASE q # p
  BY <1>3, <1>4, Zenon DEF PageStep, IsClaim
<1>5. CASE q = p
  <2>1. t = s \/ Outranks(t, s)
    BY Zenon DEF PageStep, Lawful, Climbs
  <2>2. IsClaim(s) /\ s.seq >= stamp.seq
    BY <1>3, <1>5
  <2>3. CASE IsClaim(t)
    <3>1. t.seq >= s.seq
      BY <1>1, <1>2, <2>1, OutranksSeq, SMT
    <3>2. t.seq >= stamp.seq
      BY <1>2, <2>2, <3>1, SMT
    <3> QED
      BY <2>3, <3>2
  <2>4. CASE ~IsClaim(t)
    <3>1. t # s /\ Outranks(t, s)
      BY <2>1, <2>2, <2>4
    <3>2. t.seq > s.seq
      BY <1>1, <2>2, <2>4, <3>1, StampFields, SMT DEF Outranks, IsClaim
    <3>3. ~Kept(panel[p], panel'[p])
      BY <3>1, Zenon DEF Kept
    <3>4. ~Claimed(p, panel[p], panel'[p])
      BY <1>1, <1>2, <2>4, <3>2, SMT DEF Claimed, IsClaim
    <3>5. PICK k \in known : k.kind = "selection" /\ t = k.stamp
      BY <3>3, <3>4, Zenon DEF PageStep, Lawful, Took
    <3>6. BackedIn(panel, t)
      BY <3>5, Zenon DEF BackedInv, PageStep
    <3>7. t.seq > 0
      BY <1>2, <3>2, SMT
    <3>8. PICK r \in Panels : IsClaim(panel[r].stamp) /\ panel[r].stamp.seq >= t.seq
      BY <3>6, <3>7, Zenon DEF BackedIn
    <3>9. r # p
      BY <1>2, <3>2, <3>8, SMT
    <3>10. panel[r].stamp.seq >= stamp.seq
      BY <1>2, <2>2, <3>2, <3>8, SMT
    <3> QED
      BY <3>8, <3>9, <3>10, Zenon DEF PageStep, IsClaim
  <2> QED
    BY <2>3, <2>4
<1> QED
  BY <1>4, <1>5

\* A lawful step of one page keeps every stamp of the room backed.
LEMMA PageStepKeepsBacked ==
    ASSUME TypeOK, TypeOK', BackedInv, NEW p \in Panels, NEW known, NEW sent \in SUBSET Body,
           PageStep(p, known, sent)
    PROVE  BackedInv'
<1> DEFINE s == panel[p]
           t == panel'[p]
<1>1. /\ \A q \in Panels : panel[q].stamp \in Stamp /\ panel'[q].stamp \in Stamp
      /\ \A x \in Bodies \union sent : x.kind = "selection" => x.stamp \in Stamp
  <2>1. \A q \in Panels : panel[q].stamp \in Stamp /\ panel'[q].stamp \in Stamp
    BY SMT DEF TypeOK, PanelState
  <2>2. Bodies \union sent \subseteq Body
    BY BodiesType
  <2> QED
    BY <2>1, <2>2, BodyFields
<1>2. \A q \in Panels : panel[q].stamp.seq \in Nat /\ panel'[q].stamp.seq \in Nat
  BY <1>1, StampFields
<1>3. BackedIn(panel', t.stamp)
  <2>1. CASE Kept(s, t)
    <3>1. t.stamp = s.stamp
      BY <2>1 DEF Kept
    <3>2. BackedIn(panel, s.stamp) /\ s.stamp \in Stamp
      BY <1>1, Zenon DEF BackedInv
    <3>3. BackedIn(panel', s.stamp)
      BY <3>2, StillBacked
    <3> QED
      BY <3>1, <3>3
  <2>2. CASE Took(t, known)
    <3>1. PICK k \in known : k.kind = "selection" /\ t.stamp = k.stamp
      BY <2>2, Zenon DEF Took
    <3>2. k.stamp \in Stamp /\ BackedIn(panel, k.stamp)
      BY <1>1, <3>1, Zenon DEF BackedInv, PageStep
    <3>3. BackedIn(panel', k.stamp)
      BY <3>2, StillBacked
    <3> QED
      BY <3>1, <3>3, Zenon DEF BackedIn
  <2>3. CASE Claimed(p, s, t)
    <3>1. IsClaim(t.stamp) /\ t.stamp.seq >= t.stamp.seq
      BY <1>2, <2>3, SMT DEF Claimed, IsClaim
    <3> QED
      BY <3>1, Zenon DEF BackedIn, IsClaim
  <2> QED
    BY <2>1, <2>2, <2>3, Zenon DEF PageStep, Lawful
<1>4. ASSUME NEW q \in Panels PROVE BackedIn(panel', panel'[q].stamp)
  <2>1. CASE q = p
    BY <1>3, <2>1
  <2>2. CASE q # p
    <3>1. panel'[q] = panel[q]
      BY <2>2, Zenon DEF PageStep
    <3>2. BackedIn(panel, panel[q].stamp) /\ panel[q].stamp \in Stamp
      BY <1>1, Zenon DEF BackedInv
    <3>3. BackedIn(panel', panel[q].stamp)
      BY <3>2, StillBacked
    <3> QED
      BY <3>1, <3>3
  <2> QED
    BY <2>1, <2>2
<1>5. ASSUME NEW x \in Bodies', x.kind = "selection" PROVE BackedIn(panel', x.stamp)
  <2>1. CASE x \in Bodies
    BY <1>1, <1>5, <2>1, StillBacked, Zenon DEF BackedInv
  <2>2. CASE x \notin Bodies
    <3>1. x \in sent /\ x \notin s.outbox
      BY <1>5, <2>2, Zenon DEF PageStep, Bodies
    <3>2. t.stamp.seq >= x.stamp.seq
      BY <1>5, <3>1, Zenon DEF PageStep, Lawful, Covered
    <3>3. x.stamp.seq \in Nat
      BY <1>1, <1>5, <3>1, StampFields
    <3> QED
      BY <1>2, <1>3, <3>2, <3>3, SMT DEF BackedIn
  <2> QED
    BY <2>1, <2>2
<1> QED
  BY <1>4, <1>5, Zenon DEF BackedInv

\* Every step of the room keeps every stamp backed.
LEMMA StepBacked ==
    ASSUME TypeOK, TypeOK', BackedInv, [Next]_vars
    PROVE  BackedInv'
<1>1. ASSUME \A q \in Panels : panel'[q].stamp = panel[q].stamp, Bodies' \subseteq Bodies
      PROVE  BackedInv'
  BY <1>1, Zenon DEF BackedInv, BackedIn
<1> QED
  BY <1>1, NextIsPageStep, PageStepKeepsBacked

\* A re-statement never leads the room, with any number of panels, links that drop and
\* frames that are lost (the echo flag and the stamp held of sendSelection).
THEOREM EchoesNeverLead == Spec => []EchoNeverLeads
<1>1. BackedInv => EchoNeverLeads
  BY Zenon DEF BackedInv, BackedIn, EchoNeverLeads
<1>2. TypeOK /\ TypeOK' /\ BackedInv /\ [Next]_vars => BackedInv'
  BY StepBacked
<1> QED
  BY InitBacked, TypeCorrect, <1>1, <1>2, PTL DEF Spec
=============================================================================
