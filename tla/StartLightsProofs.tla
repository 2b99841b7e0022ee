------------------------- MODULE StartLightsProofs -------------------------
(***************************************************************************)
(* What holds of the start lights for any set of panels, any light steps,  *)
(* any delays and however late a timer fires: a hook keeps to the          *)
(* schedule of its anchor; a panel's sequence implements StartSequence;    *)
(* and the sequence a panel drives is the one whose seed it broadcast.     *)
(***************************************************************************)
EXTENDS StartLights, TLAPS

Phases == {"idle", "armed", "set1", "set2", "go", "cleared"}

Hook == [phase : Phases, aborted : BOOLEAN, anchor : Nat, index : 0..5, due : Int, latched : BOOLEAN]

\* A frame, of which a seed names no anchor later than t.
FrameBy(t) ==
    {f \in [kind : {"reset", "abort", "seed", "start"}, at : Nat, sent : Nat] :
        f.kind = "seed" => f.at <= t}

\* A hook at time t keeps to the schedule of its anchor: its phase is the step it is
\* on, its timeout the next one, its latch set from the GO on.
Punctual(h, t) ==
    IF h.index = 0
    THEN h.due = NoTimer /\ h.phase \in {"idle", "cleared"}
    ELSE /\ h.phase = PhaseName[h.index]
         /\ h.due = IF h.index = 5 THEN NoTimer ELSE h.anchor + AtMs[h.index + 1]
         /\ h.latched <=> h.index >= GoStep
         /\ AtMs[h.index] <= t - h.anchor

\* Types, and every hook on its schedule.
LightsInv ==
    /\ now \in Nat
    /\ local \in [Panels -> Hook]
    /\ mirror \in [Surfaces -> Hook]
    /\ pending \in [Panels -> SUBSET Nat]
    /\ net \in [Panels -> [Surfaces -> Seq(FrameBy(now))]]
    /\ seed \in [Panels -> Nat]
    /\ goes \in [Panels -> Seq(Nat)]
    /\ \A p \in Panels : Punctual(local[p], now)
    /\ \A s \in Surfaces : Punctual(mirror[s], now)

-----------------------------------------------------------------------------
(* The schedule.                                                           *)

\* The steps of the schedule, in order.
LEMMA Offsets ==
    /\ AtMs[1] = 0 /\ AtMs[2] = PreBeepGap /\ AtMs[3] = PreBeepGap + LightStep
    /\ AtMs[4] = PreBeepGap + 2 * LightStep /\ AtMs[5] = PreBeepGap + 3 * LightStep
    /\ \A i \in Steps : AtMs[i] \in Nat /\ PhaseName[i] \in Phases \ {"idle"}
    /\ \A i, j \in Steps : i < j => AtMs[i] < AtMs[j]
    /\ GoOffset = AtMs[4] /\ GoOffset \in Nat
    /\ PhaseName[1] = "armed"
<1>1. PreBeepGap \in Nat \ {0} /\ LightStep \in Nat \ {0}
  BY ScheduleAssumption
<1>2. /\ AtMs[1] = 0 /\ AtMs[2] = PreBeepGap /\ AtMs[3] = PreBeepGap + LightStep
      /\ AtMs[4] = PreBeepGap + 2 * LightStep /\ AtMs[5] = PreBeepGap + 3 * LightStep
  BY <1>1, SMT DEF AtMs
<1>3. /\ PhaseName[1] = "armed" /\ PhaseName[2] = "set1" /\ PhaseName[3] = "set2"
      /\ PhaseName[4] = "go" /\ PhaseName[5] = "cleared"
  BY SMT DEF PhaseName
<1>4. \A i \in Steps : i = 1 \/ i = 2 \/ i = 3 \/ i = 4 \/ i = 5
  BY SMT DEF Steps
<1>5. \A i \in Steps : AtMs[i] \in Nat /\ PhaseName[i] \in Phases \ {"idle"}
  BY <1>1, <1>2, <1>3, <1>4, SMT DEF Phases
<1>6. \A i, j \in Steps : i < j => AtMs[i] < AtMs[j]
  BY <1>1, <1>2, <1>4, SMT
<1>7. GoOffset = AtMs[4] /\ GoOffset \in Nat
  BY <1>1, <1>2, SMT DEF GoOffset
<1> QED
  BY <1>2, <1>3, <1>5, <1>6, <1>7

\* A set of steps that is not empty has a greatest one.
LEMMA LastStep ==
    ASSUME NEW S \in SUBSET Steps, S # {}
    PROVE  Max(S) \in S /\ \A i \in S : i <= Max(S)
<1>1. \E x \in S : \A y \in S : x >= y
  <2>1. \A i \in S : i = 1 \/ i = 2 \/ i = 3 \/ i = 4 \/ i = 5
    BY SMT DEF Steps
  <2>2. CASE 5 \in S
    BY <2>1, <2>2, SMT
  <2>3. CASE 5 \notin S /\ 4 \in S
    BY <2>1, <2>3, SMT
  <2>4. CASE 5 \notin S /\ 4 \notin S /\ 3 \in S
    BY <2>1, <2>4, SMT
  <2>5. CASE 5 \notin S /\ 4 \notin S /\ 3 \notin S /\ 2 \in S
    BY <2>1, <2>5, SMT
  <2>6. CASE 5 \notin S /\ 4 \notin S /\ 3 \notin S /\ 2 \notin S
    BY <2>1, <2>6, SMT
  <2> QED
    BY <2>2, <2>3, <2>4, <2>5, <2>6
<1>2. Max(S) \in S /\ \A y \in S : Max(S) >= y
  BY <1>1, Zenon DEF Max
<1> QED
  BY <1>2, SMT DEF Steps

\* A hook that is on its schedule at some time still is later.
LEMMA LaterPunctual ==
    ASSUME NEW h \in Hook, NEW t \in Nat, NEW u \in Nat, t <= u, Punctual(h, t)
    PROVE  Punctual(h, u)
<1>1. h.index \in 0..5 /\ h.anchor \in Nat
  BY DEF Hook
<1>2. h.index # 0 => AtMs[h.index] \in Nat
  BY <1>1, Offsets, SMT DEF Steps
<1> QED
  BY <1>1, <1>2, SMT DEF Punctual

\* A hook with its step, phase, latch and timeout set anew.
LEMMA HookSet ==
    ASSUME NEW h \in Hook, NEW i \in 0..5, NEW f \in Phases, NEW b \in BOOLEAN, NEW d \in Int
    PROVE  [h EXCEPT !.index = i, !.phase = f, !.latched = b, !.due = d] \in Hook
BY Zenon DEF Hook

\* advance() of a hook whose anchor has come: it lands on the last step reached, and
\* the GO edge is let out with the step that passes it, once.
LEMMA AdvanceLands ==
    ASSUME NEW h \in Hook, NEW t \in Nat, h.anchor <= t,
           \/ h.index = 0 /\ ~h.latched
           \/ h.index # 0 /\ Punctual(h, t)
    PROVE  LET k == Advance(h, t)
           IN  /\ k \in Hook /\ Punctual(k, t) /\ k.index # 0 /\ k.anchor = h.anchor
               /\ Fires(h, t) => (~h.latched /\ k.latched)
               /\ ~Fires(h, t) => k.latched = h.latched
<1> DEFINE S == Crossed(h, t)
           k == Advance(h, t)
           i == IF S = {} THEN h.index ELSE Max(S)
<1>1. /\ h.index \in 0..5 /\ h.anchor \in Nat /\ h.latched \in BOOLEAN
      /\ h.phase \in Phases /\ h.aborted \in BOOLEAN /\ h.due \in Int
  BY DEF Hook
<1>2. /\ \A j \in Steps : j \in S <=> (h.index < j /\ AtMs[j] <= t - h.anchor)
      /\ S \subseteq Steps
  BY DEF Crossed
<1>3. S # {} => i \in S /\ \A j \in S : j <= i
  BY <1>2, LastStep
<1>4. i \in Steps /\ AtMs[i] <= t - h.anchor /\ i >= h.index
  <2>1. CASE S = {}
    <3>1. h.index # 0
      <4> SUFFICES ASSUME h.index = 0 PROVE FALSE
        OBVIOUS
      <4>1. 1 \in Steps /\ AtMs[1] = 0
        BY Offsets, SMT DEF Steps
      <4>2. 1 \in S
        BY <1>1, <1>2, <4>1, SMT
      <4> QED
        BY <2>1, <4>2
    <3> QED
      BY <1>1, <2>1, <3>1, SMT DEF Punctual, Steps
  <2>2. CASE S # {}
    BY <1>1, <1>2, <1>3, <2>2, SMT DEF Steps
  <2> QED
    BY <2>1, <2>2
<1>5. /\ k.index = i /\ k.anchor = h.anchor /\ k.aborted = h.aborted
      /\ k.phase = (IF S = {} THEN h.phase ELSE PhaseName[i])
      /\ k.latched = (h.latched \/ Fires(h, t))
      /\ k.due = (IF i = 5 THEN NoTimer ELSE h.anchor + AtMs[i + 1])
      /\ DOMAIN k = DOMAIN h
  BY SMT DEF Advance, Hook
<1>6. k.phase = PhaseName[i] /\ k.phase \in Phases
  BY <1>1, <1>4, <1>5, Offsets, SMT DEF Punctual, Steps
<1>7. i # 5 => AtMs[i + 1] \in Nat
  BY <1>4, Offsets, SMT DEF Steps
<1>8. k.due \in Int
  BY <1>1, <1>5, <1>7, SMT DEF NoTimer
<1>9. Fires(h, t) <=> (~h.latched /\ i >= GoStep /\ S # {})
  BY <1>1, <1>2, <1>3, <1>4, SMT DEF Fires, GoStep, Steps
<1>10. h.latched => (h.index >= GoStep /\ h.index # 0)
  BY <1>1, SMT DEF Punctual
<1>11. k.latched <=> i >= GoStep
  <2>1. (h.index # 0 /\ h.index >= GoStep) => h.latched
    BY SMT DEF Punctual
  <2>2. S = {} => (h.latched <=> i >= GoStep)
    BY <1>1, <1>4, <1>10, <2>1, SMT DEF Steps
  <2>3. h.latched => i >= GoStep
    BY <1>1, <1>4, <1>10, SMT DEF GoStep, Steps
  <2> QED
    BY <1>5, <1>9, <2>2, <2>3, Zenon
<1>12. k \in Hook
  <2> DEFINE f == IF S = {} THEN h.phase ELSE PhaseName[i]
             b == h.latched \/ Fires(h, t)
             d == IF i = 5 THEN NoTimer ELSE h.anchor + AtMs[i + 1]
  <2>1. k = [h EXCEPT !.index = i, !.phase = f, !.latched = b, !.due = d]
    BY Zenon DEF Advance
  <2>2. b \in BOOLEAN
    OBVIOUS
  <2>3. i \in 0..5
    BY <1>4, SMT DEF Steps
  <2>4. f \in Phases /\ d \in Int
    BY <1>5, <1>6, <1>8
  <2>5. [h EXCEPT !.index = i, !.phase = f, !.latched = b, !.due = d] \in Hook
    BY <2>2, <2>3, <2>4, HookSet
  <2> QED
    BY <2>1, <2>5
<1>13. Punctual(k, t)
  BY <1>1, <1>4, <1>5, <1>6, <1>11, SMT DEF Punctual, Steps
<1>14. k.index # 0
  BY <1>4, <1>5, SMT DEF Steps
<1>15. ~Fires(h, t) => k.latched = h.latched
  BY <1>1, <1>5, Zenon
<1>16. Fires(h, t) => (~h.latched /\ k.latched)
  BY <1>5, Zenon DEF Fires
<1> QED
  BY <1>5, <1>12, <1>13, <1>14, <1>15, <1>16

\* startSignal: a sequence armed for an anchor that has come is on its way.
LEMMA StartedLands ==
    ASSUME NEW h \in Hook, NEW at \in Nat, NEW t \in Nat, at <= t
    PROVE  LET k == startSignal(h, at, t)
           IN  k \in Hook /\ Punctual(k, t) /\ k.index # 0 /\ k.anchor = at
<1> DEFINE g == Anchored(h, at)
<1>1. g \in Hook
  <2>1. 0 \in 0..5 /\ NoTimer \in Int /\ FALSE \in BOOLEAN
    BY SMT DEF NoTimer
  <2> QED
    BY <2>1, ZenonT(30) DEF Anchored, Hook
<1>2. g.index = 0 /\ ~g.latched /\ g.anchor = at
  BY SMT DEF Anchored, Hook
<1>3. g.anchor <= t
  BY <1>2
<1> HIDE DEF g
<1>4. LET k == Advance(g, t)
      IN  k \in Hook /\ Punctual(k, t) /\ k.index # 0 /\ k.anchor = g.anchor
  BY <1>1, <1>2, <1>3, AdvanceLands
<1> QED
  BY <1>2, <1>4 DEF startSignal, g

\* A sequence that is armed now owes its GO.
LEMMA StartedOwes ==
    ASSUME NEW h \in Hook, NEW t \in Nat
    PROVE  ~startSignal(h, t, t).latched
<1> DEFINE g == Anchored(h, t)
<1>1. g.index = 0 /\ ~g.latched /\ g.anchor = t
  BY SMT DEF Anchored, Hook
<1>2. ~Fires(g, t)
  <2>1. \A i \in Steps : i >= GoStep => ~(AtMs[i] <= 0)
    BY Offsets, SMT DEF Steps, GoStep
  <2>2. t - g.anchor = 0
    BY <1>1, SMT
  <2>3. \A i \in Crossed(g, t) : i \in Steps /\ AtMs[i] <= 0
    BY <2>2, Zenon DEF Crossed
  <2> QED
    BY <2>1, <2>3, Zenon DEF Fires
<1>3. Advance(g, t).latched = (g.latched \/ Fires(g, t))
  BY SMT DEF Advance, Anchored, Hook
<1> QED
  BY <1>1, <1>2, <1>3, Zenon DEF startSignal

\* resetSignal: a sequence that is cancelled owes nothing and waits for nothing.
LEMMA ResetRests ==
    ASSUME NEW h \in Hook, NEW t \in Nat, NEW abort \in BOOLEAN
    PROVE  LET k == resetSignal(h, abort)
           IN  /\ k \in Hook /\ Punctual(k, t)
               /\ k.index = 0 /\ k.anchor = h.anchor
<1> DEFINE k == resetSignal(h, abort)
           f == IF abort THEN "cleared" ELSE "idle"
<1>1. f \in Phases /\ f \in {"idle", "cleared"}
  BY SMT DEF Phases
<1>2. k \in Hook
  <2>1. 0 \in 0..5 /\ NoTimer \in Int /\ FALSE \in BOOLEAN
    BY SMT DEF NoTimer
  <2> QED
    BY <1>1, <2>1, ZenonT(30) DEF resetSignal, Hook
<1>3. k.index = 0 /\ k.anchor = h.anchor /\ k.due = NoTimer /\ k.phase = f
  BY SMT DEF resetSignal, Hook
<1> QED
  BY <1>1, <1>2, <1>3, SMT DEF Punctual

\* A hook whose timeout is due has a sequence, and it is not at its end.
LEMMA DueRuns ==
    ASSUME NEW h \in Hook, NEW t \in Nat, Punctual(h, t), h.due # NoTimer
    PROVE  h.index # 0 /\ h.anchor <= t
<1>1. h.index # 0
  BY Zenon DEF Punctual
<1>2. AtMs[h.index] \in Nat /\ h.anchor \in Nat
  BY <1>1, Offsets, SMT DEF Hook, Steps
<1> QED
  BY <1>1, <1>2, SMT DEF Punctual

-----------------------------------------------------------------------------
(* Every hook stays on its schedule.                                       *)

\* What a step of the room does to a hook, at time t.
HookStep(h, k, t) ==
    \/ k = h
    \/ \E at \in Nat : at <= t /\ k = startSignal(h, at, t)
    \/ \E abort \in BOOLEAN : k = resetSignal(h, abort)
    \/ h.due # NoTimer /\ k = Advance(h, t)

\* Each leaves it on its schedule.
LEMMA HookStepPunctual ==
    ASSUME NEW h \in Hook, NEW t \in Nat, Punctual(h, t), NEW k, HookStep(h, k, t)
    PROVE  k \in Hook /\ Punctual(k, t)
<1>1. CASE k = h
  BY <1>1
<1>2. ASSUME NEW at \in Nat, at <= t, k = startSignal(h, at, t)
      PROVE  k \in Hook /\ Punctual(k, t)
  BY <1>2, StartedLands
<1>3. ASSUME NEW abort \in BOOLEAN, k = resetSignal(h, abort)
      PROVE  k \in Hook /\ Punctual(k, t)
  BY <1>3, ResetRests
<1>4. CASE h.due # NoTimer /\ k = Advance(h, t)
  <2>1. h.index # 0 /\ h.anchor <= t
    BY <1>4, DueRuns
  <2> QED
    BY <1>4, <2>1, AdvanceLands
<1> QED
  BY <1>1, <1>2, <1>3, <1>4 DEF HookStep

\* ... and to a family of them.
HooksStep(S, f, g, t) ==
    /\ g = [x \in S |-> g[x]]
    /\ \A x \in S : HookStep(f[x], g[x], t)

\* A page or a display steps hooks of its own and sends frames; the clock stands.
RoomStep ==
    /\ now' = now
    /\ HooksStep(Panels, local, local', now)
    /\ HooksStep(Surfaces, mirror, mirror', now)
    /\ pending' \in [Panels -> SUBSET Nat]
    /\ net' \in [Panels -> [Surfaces -> Seq(FrameBy(now))]]
    /\ seed' \in [Panels -> Nat]
    /\ goes' \in [Panels -> Seq(Nat)]

\* Such a step leaves every hook on its schedule.
LEMMA RoomStepKeeps == ASSUME LightsInv, RoomStep PROVE LightsInv'
<1>1. now \in Nat /\ now' = now
  BY DEF LightsInv, RoomStep
<1>2. /\ local' \in [Panels -> Hook] /\ \A p \in Panels : Punctual(local'[p], now)
      /\ mirror' \in [Surfaces -> Hook] /\ \A s \in Surfaces : Punctual(mirror'[s], now)
  <2>1. ASSUME NEW S, NEW f \in [S -> Hook], NEW g, HooksStep(S, f, g, now),
               \A x \in S : Punctual(f[x], now)
        PROVE  g \in [S -> Hook] /\ \A x \in S : Punctual(g[x], now)
    <3>1. \A x \in S : g[x] \in Hook /\ Punctual(g[x], now)
      <4> SUFFICES ASSUME NEW x \in S PROVE g[x] \in Hook /\ Punctual(g[x], now)
        OBVIOUS
      <4>1. f[x] \in Hook /\ Punctual(f[x], now) /\ HookStep(f[x], g[x], now)
        BY <2>1, Zenon DEF HooksStep
      <4> QED
        BY <1>1, <4>1, HookStepPunctual
    <3>2. g = [x \in S |-> g[x]]
      BY <2>1, Zenon DEF HooksStep
    <3> QED
      BY <3>1, <3>2, Zenon
  <2>2. /\ local \in [Panels -> Hook] /\ \A p \in Panels : Punctual(local[p], now)
        /\ HooksStep(Panels, local, local', now)
    BY DEF LightsInv, RoomStep
  <2>3. /\ mirror \in [Surfaces -> Hook] /\ \A s \in Surfaces : Punctual(mirror[s], now)
        /\ HooksStep(Surfaces, mirror, mirror', now)
    BY DEF LightsInv, RoomStep
  <2>4. local' \in [Panels -> Hook] /\ \A p \in Panels : Punctual(local'[p], now)
    BY <2>1, <2>2
  <2>5. mirror' \in [Surfaces -> Hook] /\ \A s \in Surfaces : Punctual(mirror'[s], now)
    BY <2>1, <2>3
  <2> QED
    BY <2>4, <2>5
<1>3. /\ now' \in Nat
      /\ net' \in [Panels -> [Surfaces -> Seq(FrameBy(now'))]]
      /\ \A p \in Panels : Punctual(local'[p], now')
      /\ \A s \in Surfaces : Punctual(mirror'[s], now')
  BY <1>1, <1>2, Zenon DEF RoomStep
<1> QED
  BY <1>2, <1>3, Zenon DEF LightsInv, RoomStep

\* One hook of a family steps, the others stand.
LEMMA OneHookSteps ==
    ASSUME NEW S, NEW f \in [S -> Hook], NEW s \in S, NEW k, NEW t, HookStep(f[s], k, t)
    PROVE  HooksStep(S, f, [f EXCEPT ![s] = k], t)
<1> DEFINE g == [f EXCEPT ![s] = k]
<1>1. g = [x \in S |-> g[x]]
  BY Zenon
<1>2. \A x \in S : HookStep(f[x], g[x], t)
  <2> SUFFICES ASSUME NEW x \in S PROVE HookStep(f[x], g[x], t)
    OBVIOUS
  <2>1. CASE x = s
    BY <2>1, Zenon
  <2>2. CASE x # s
    <3>1. g[x] = f[x]
      BY <2>2, Zenon
    <3> QED
      BY <3>1, Zenon DEF HookStep
  <2> QED
    BY <2>1, <2>2
<1> QED
  BY <1>1, <1>2, Zenon DEF HooksStep

\* No hook of a family steps.
LEMMA NoHookSteps ==
    ASSUME NEW S, NEW f \in [S -> Hook], NEW t
    PROVE  HooksStep(S, f, f, t)
BY Zenon DEF HooksStep, HookStep

\* A frame a panel sends is one the room may carry.
LEMMA SendType ==
    ASSUME LightsInv, NEW p \in Panels, NEW kind \in {"reset", "abort", "seed", "start"},
           NEW at \in Nat, kind = "seed" => at <= now, Send(p, kind, at)
    PROVE  net' \in [Panels -> [Surfaces -> Seq(FrameBy(now))]]
<1> DEFINE frame == [kind |-> kind, at |-> at, sent |-> now]
           sent == [s \in Surfaces |-> IF s = p THEN <<>> ELSE Append(net[p][s], frame)]
<1>1. frame \in FrameBy(now)
  BY SMT DEF FrameBy, LightsInv
<1>2. net \in [Panels -> [Surfaces -> Seq(FrameBy(now))]]
  BY DEF LightsInv
<1> HIDE DEF frame
<1>3. sent \in [Surfaces -> Seq(FrameBy(now))]
  BY <1>1, <1>2, SMT
<1>4. net' = [net EXCEPT ![p] = sent]
  BY DEF Send, frame
<1> QED
  BY <1>2, <1>3, <1>4, Zenon

\* Each step but the clock's is a step of the room.
LEMMA PageSteps ==
    ASSUME LightsInv, NEW p \in Panels,
           Start(p) \/ Reset(p) \/ Abort(p) \/ LightsOn(p) \/ LocalTimer(p)
    PROVE  RoomStep
<1>1. /\ now \in Nat /\ local \in [Panels -> Hook] /\ mirror \in [Surfaces -> Hook]
      /\ local[p] \in Hook /\ Punctual(local[p], now) /\ p \in Surfaces
      /\ pending \in [Panels -> SUBSET Nat] /\ seed \in [Panels -> Nat]
      /\ goes \in [Panels -> Seq(Nat)]
      /\ net \in [Panels -> [Surfaces -> Seq(FrameBy(now))]]
  BY Zenon DEF LightsInv, Surfaces
<1>2. ASSUME ClearBoard(p)
      PROVE  /\ HooksStep(Panels, local, local', now)
             /\ HooksStep(Surfaces, mirror, mirror', now)
             /\ net' \in [Panels -> [Surfaces -> Seq(FrameBy(now))]]
  <2>1. /\ local' = [local EXCEPT ![p] = resetSignal(local[p], FALSE)]
        /\ mirror' = [mirror EXCEPT ![p] = resetSignal(mirror[p], FALSE)]
        /\ Send(p, "reset", 0)
    BY <1>2 DEF ClearBoard
  <2>2. /\ HookStep(local[p], resetSignal(local[p], FALSE), now)
        /\ HookStep(mirror[p], resetSignal(mirror[p], FALSE), now)
    BY Zenon DEF HookStep
  <2>3. net' \in [Panels -> [Surfaces -> Seq(FrameBy(now))]]
    BY <2>1, SendType, SMT
  <2> QED
    BY <1>1, <2>1, <2>2, <2>3, OneHookSteps
<1>3. CASE Start(p)
  <2>1. ClearBoard(p) /\ now' = now /\ seed' = seed /\ goes' = goes
    BY <1>3 DEF Start
  <2>2. pending' \in [Panels -> SUBSET Nat]
    <3>1. now + StartDelay \in Nat
      BY <1>1, TimesAssumption, SMT
    <3> QED
      BY <1>1, <1>3, <3>1, Zenon DEF Start
  <2> QED
    BY <1>1, <1>2, <2>1, <2>2, Zenon DEF RoomStep
<1>4. CASE Reset(p)
  <2>1. ClearBoard(p) /\ now' = now /\ seed' = seed /\ goes' = goes /\ pending' = pending
    BY <1>4 DEF Reset
  <2> QED
    BY <1>1, <1>2, <2>1, Zenon DEF RoomStep
<1>5. CASE Abort(p)
  <2>1. /\ local' = [local EXCEPT ![p] = resetSignal(local[p], TRUE)] /\ mirror' = mirror
        /\ Send(p, "abort", 0) /\ UNCHANGED <<now, pending, seed, goes>>
    BY <1>5 DEF Abort
  <2>2. HookStep(local[p], resetSignal(local[p], TRUE), now)
    BY Zenon DEF HookStep
  <2>3. net' \in [Panels -> [Surfaces -> Seq(FrameBy(now))]]
    BY <2>1, SendType, SMT
  <2>4. HooksStep(Panels, local, local', now)
    BY <1>1, <2>1, <2>2, OneHookSteps
  <2>5. HooksStep(Surfaces, mirror, mirror', now)
    BY <1>1, <2>1, NoHookSteps
  <2> QED
    BY <1>1, <2>1, <2>3, <2>4, <2>5, Zenon DEF RoomStep
<1>6. CASE LightsOn(p)
  <2>1. PICK at \in pending[p] :
          /\ pending' = [pending EXCEPT ![p] = @ \ {at}]
          /\ local' = [local EXCEPT ![p] = startSignal(local[p], now, now)]
          /\ IF local[p].phase = "armed" THEN UNCHANGED <<net, seed>>
             ELSE /\ Send(p, "seed", now)
                  /\ seed' = [seed EXCEPT ![p] = now]
          /\ UNCHANGED <<now, mirror, goes>>
    BY <1>6 DEF LightsOn
  <2>2. HookStep(local[p], startSignal(local[p], now, now), now)
    <3>1. now <= now
      BY <1>1, SMT
    <3> QED
      BY <1>1, <3>1, Zenon DEF HookStep
  <2>3. net' \in [Panels -> [Surfaces -> Seq(FrameBy(now))]] /\ seed' \in [Panels -> Nat]
    <3>1. CASE local[p].phase = "armed"
      BY <1>1, <2>1, <3>1
    <3>2. CASE local[p].phase # "armed"
      <4>1. Send(p, "seed", now) /\ seed' = [seed EXCEPT ![p] = now]
        BY <2>1, <3>2
      <4>2. net' \in [Panels -> [Surfaces -> Seq(FrameBy(now))]]
        BY <1>1, <4>1, SendType, SMT
      <4> QED
        BY <1>1, <4>1, <4>2, Zenon
    <3> QED
      BY <3>1, <3>2
  <2>4. HooksStep(Panels, local, local', now)
    BY <1>1, <2>1, <2>2, OneHookSteps
  <2>5. HooksStep(Surfaces, mirror, mirror', now)
    BY <1>1, <2>1, NoHookSteps
  <2>6. pending' \in [Panels -> SUBSET Nat]
    BY <1>1, <2>1, Zenon
  <2> QED
    BY <1>1, <2>1, <2>3, <2>4, <2>5, <2>6, Zenon DEF RoomStep
<1>7. CASE LocalTimer(p)
  <2> DEFINE epoch == local[p].anchor + GoOffset
  <2>1. /\ local[p].due # NoTimer
        /\ local' = [local EXCEPT ![p] = Advance(local[p], now)]
        /\ IF Fires(local[p], now)
           THEN Send(p, "start", epoch) /\ goes' = [goes EXCEPT ![p] = Append(goes[p], epoch)]
           ELSE UNCHANGED <<net, goes>>
        /\ UNCHANGED <<now, mirror, pending, seed>>
    BY <1>7 DEF LocalTimer, DueNow
  <2>2. HookStep(local[p], Advance(local[p], now), now)
    BY <2>1, Zenon DEF HookStep
  <2>3. epoch \in Nat
    BY <1>1, Offsets, SMT DEF Hook
  <2> HIDE DEF epoch
  <2>4. net' \in [Panels -> [Surfaces -> Seq(FrameBy(now))]] /\ goes' \in [Panels -> Seq(Nat)]
    <3>1. CASE ~Fires(local[p], now)
      BY <1>1, <2>1, <3>1
    <3>2. CASE Fires(local[p], now)
      <4>1. net' \in [Panels -> [Surfaces -> Seq(FrameBy(now))]]
        BY <2>1, <2>3, <3>2, SendType, SMT
      <4>2. Append(goes[p], epoch) \in Seq(Nat)
        BY <1>1, <2>3, SMT
      <4> QED
        BY <1>1, <2>1, <3>2, <4>1, <4>2, Zenon
    <3> QED
      BY <3>1, <3>2
  <2>5. HooksStep(Panels, local, local', now)
    BY <1>1, <2>1, <2>2, OneHookSteps
  <2>6. HooksStep(Surfaces, mirror, mirror', now)
    BY <1>1, <2>1, NoHookSteps
  <2> QED
    BY <1>1, <2>1, <2>4, <2>5, <2>6, Zenon DEF RoomStep
<1> QED
  BY <1>3, <1>4, <1>5, <1>6, <1>7

\* What a peer's frame does to the sequence a panel drives.
LEMMA InterruptedIs ==
    ASSUME NEW h, NEW m
    PROVE  Interrupted(h, m) = h \/ \E abort \in BOOLEAN : Interrupted(h, m) = resetSignal(h, abort)
<1> DEFINE aborts == m.kind = "abort" /\ Burning(h.phase)
<1>1. m.kind = "reset" => Interrupted(h, m) = resetSignal(h, FALSE)
  BY Zenon DEF Interrupted
<1>2. aborts => Interrupted(h, m) = resetSignal(h, TRUE)
  <2>1. m.kind = "abort" => m.kind # "reset"
    BY SMT
  <2> QED
    BY <2>1, Zenon DEF Interrupted
<1>3. m.kind # "reset" /\ ~aborts => Interrupted(h, m) = h
  BY Zenon DEF Interrupted
<1> HIDE DEF aborts
<1> QED
  BY <1>1, <1>2, <1>3, Zenon

\* What a peer's frame does to the two hooks of a surface.
LEMMA FrameSteps ==
    ASSUME NEW m \in FrameBy(now), NEW h
    PROVE  HookStep(h, Interrupted(h, m), now) /\ HookStep(h, Mirrored(h, m), now)
<1>1. /\ m.kind \in {"reset", "abort", "seed", "start"} /\ m.at \in Nat
      /\ m.kind = "seed" => m.at <= now
  BY SMT DEF FrameBy
<1>2. HookStep(h, Interrupted(h, m), now)
  <2>1. Interrupted(h, m) = h \/ \E abort \in BOOLEAN : Interrupted(h, m) = resetSignal(h, abort)
    BY InterruptedIs
  <2> QED
    BY <2>1, Zenon DEF HookStep
<1>3. HookStep(h, Mirrored(h, m), now)
  <2>1. CASE m.kind = "seed"
    <3>1. Mirrored(h, m) = startSignal(h, m.at, now)
      BY <2>1, SMT DEF Mirrored
    <3> QED
      BY <1>1, <2>1, <3>1, Zenon DEF HookStep
  <2>2. CASE m.kind \in {"reset", "abort"}
    <3>1. Mirrored(h, m) = resetSignal(h, m.kind = "abort")
      BY <2>2, SMT DEF Mirrored
    <3> QED
      BY <3>1, Zenon DEF HookStep
  <2>3. CASE m.kind = "start"
    <3>1. Mirrored(h, m) = h
      BY <2>3, SMT DEF Mirrored
    <3> QED
      BY <3>1, Zenon DEF HookStep
  <2> QED
    BY <1>1, <2>1, <2>2, <2>3
<1> QED
  BY <1>2, <1>3

\* What a delivery does to the panels' own sequences, and to the mirrored ones.
LEMMA DeliverySteps ==
    ASSUME LightsInv, NEW s \in Surfaces, NEW p \in Panels, net[p][s] # <<>>,
           NEW m, m = Head(net[p][s]),
           IF s = Display THEN DisplayApplies(m) ELSE PanelApplies(s, m)
    PROVE  /\ HooksStep(Panels, local, local', now)
           /\ HooksStep(Surfaces, mirror, mirror', now)
<1>1. m \in FrameBy(now)
  <2>1. net[p][s] \in Seq(FrameBy(now))
    BY Zenon DEF LightsInv
  <2> QED
    BY <2>1, SMT
<1>2. local \in [Panels -> Hook] /\ mirror \in [Surfaces -> Hook]
  BY DEF LightsInv
<1>3. CASE s = Display
  <2>1. mirror' = [mirror EXCEPT ![s] = Mirrored(mirror[s], m)] /\ local' = local
    BY <1>3 DEF DisplayApplies
  <2>2. HookStep(mirror[s], Mirrored(mirror[s], m), now)
    BY <1>1, FrameSteps
  <2> QED
    BY <1>2, <2>1, <2>2, OneHookSteps, NoHookSteps
<1>4. CASE s # Display
  <2>1. /\ mirror' = [mirror EXCEPT ![s] = Mirrored(mirror[s], m)]
        /\ local' = [local EXCEPT ![s] = Interrupted(local[s], m)]
    BY <1>4 DEF PanelApplies
  <2>2. s \in Panels
    BY <1>4 DEF Surfaces
  <2>3. /\ HookStep(mirror[s], Mirrored(mirror[s], m), now)
        /\ HookStep(local[s], Interrupted(local[s], m), now)
    BY <1>1, FrameSteps
  <2> QED
    BY <1>2, <2>1, <2>2, <2>3, OneHookSteps
<1> QED
  BY <1>3, <1>4

\* A surface's timer and a delivery are steps of the room.
LEMMA SurfaceSteps ==
    ASSUME LightsInv, NEW s \in Surfaces, MirrorTimer(s) \/ Deliver(s)
    PROVE  RoomStep
<1>1. /\ now \in Nat /\ local \in [Panels -> Hook] /\ mirror \in [Surfaces -> Hook]
      /\ pending \in [Panels -> SUBSET Nat] /\ seed \in [Panels -> Nat]
      /\ goes \in [Panels -> Seq(Nat)]
      /\ net \in [Panels -> [Surfaces -> Seq(FrameBy(now))]]
  BY DEF LightsInv
<1>2. CASE MirrorTimer(s)
  <2>1. /\ mirror[s].due # NoTimer
        /\ mirror' = [mirror EXCEPT ![s] = Advance(mirror[s], now)]
        /\ UNCHANGED <<now, local, pending, net, seed, goes>>
    BY <1>2 DEF MirrorTimer, DueNow
  <2>2. HookStep(mirror[s], Advance(mirror[s], now), now)
    BY <2>1, Zenon DEF HookStep
  <2>3. HooksStep(Surfaces, mirror, mirror', now)
    BY <1>1, <2>1, <2>2, OneHookSteps
  <2>4. HooksStep(Panels, local, local', now)
    BY <1>1, <2>1, NoHookSteps
  <2> QED
    BY <1>1, <2>1, <2>3, <2>4, Zenon DEF RoomStep
<1>3. CASE Deliver(s)
  <2>1. PICK p \in Panels :
          /\ net[p][s] # <<>>
          /\ IF s = Display THEN DisplayApplies(Head(net[p][s])) ELSE PanelApplies(s, Head(net[p][s]))
          /\ net' = [net EXCEPT ![p][s] = Tail(@)]
          /\ UNCHANGED <<now, pending, seed, goes>>
    BY <1>3, Zenon DEF Deliver
  <2>2. HooksStep(Panels, local, local', now) /\ HooksStep(Surfaces, mirror, mirror', now)
    BY <2>1, DeliverySteps
  <2>3. net' \in [Panels -> [Surfaces -> Seq(FrameBy(now))]]
    <3>1. net[p][s] \in Seq(FrameBy(now))
      BY <1>1
    <3>2. Tail(net[p][s]) \in Seq(FrameBy(now))
      BY <2>1, <3>1, SMT
    <3> QED
      BY <1>1, <2>1, <3>2, Zenon
  <2> QED
    BY <1>1, <2>1, <2>2, <2>3, Zenon DEF RoomStep
<1> QED
  BY <1>2, <1>3

\* Nothing is behind its time when the clock goes on.
LEMMA TickKeeps == ASSUME LightsInv, Tick PROVE LightsInv'
<1>1. /\ now \in Nat /\ now' = now + 1 /\ now' \in Nat /\ now <= now'
      /\ UNCHANGED <<local, mirror, pending, net, seed, goes>>
  BY SMT DEF LightsInv, Tick
<1>2. FrameBy(now) \subseteq FrameBy(now')
  BY <1>1, SMT DEF FrameBy
<1>3. \A S, T : S \subseteq T => Seq(S) \subseteq Seq(T)
  BY SMT
<1>4. net' \in [Panels -> [Surfaces -> Seq(FrameBy(now'))]]
  <2>1. net \in [Panels -> [Surfaces -> Seq(FrameBy(now))]]
    BY DEF LightsInv
  <2>2. Seq(FrameBy(now)) \subseteq Seq(FrameBy(now'))
    BY <1>2, <1>3, Zenon
  <2> QED
    BY <1>1, <2>1, <2>2, Zenon
<1>5. /\ \A p \in Panels : Punctual(local'[p], now')
      /\ \A s \in Surfaces : Punctual(mirror'[s], now')
  BY <1>1, LaterPunctual, Zenon DEF LightsInv
<1> QED
  BY <1>1, <1>4, <1>5, Zenon DEF LightsInv

\* At first nothing is armed.
LEMMA InitLights == Init => LightsInv
<1> SUFFICES ASSUME Init PROVE LightsInv
  OBVIOUS
<1>1. IdleHook \in Hook
  BY SMT DEF IdleHook, Hook, Phases, NoTimer
<1>2. Punctual(IdleHook, now)
  BY SMT DEF Punctual, IdleHook
<1>3. now \in Nat /\ 0 \in Nat
  BY SMT DEF Init
<1>4. <<>> \in Seq(Nat) /\ <<>> \in Seq(FrameBy(now))
  BY SMT
<1> QED
  BY <1>1, <1>2, <1>3, <1>4, Zenon DEF Init, LightsInv

\* Every step leaves every hook on its schedule.
LEMMA StepLights == ASSUME LightsInv, [Next]_vars PROVE LightsInv'
<1>1. CASE Tick
  BY <1>1, TickKeeps
<1>2. CASE \E p \in Panels : Start(p) \/ Reset(p) \/ Abort(p) \/ LightsOn(p) \/ LocalTimer(p)
  BY <1>2, PageSteps, RoomStepKeeps
<1>3. CASE \E s \in Surfaces : MirrorTimer(s) \/ Deliver(s)
  BY <1>3, SurfaceSteps, RoomStepKeeps
<1>4. CASE UNCHANGED vars
  BY <1>4, Zenon DEF LightsInv, vars
<1> QED
  BY <1>1, <1>2, <1>3, <1>4, Zenon DEF Next

\* A hook on its schedule that is not behind shows the phase of the pure schedule.
LEMMA PunctualShows ==
    ASSUME NEW h \in Hook, NEW t \in Nat, Punctual(h, t), h.index # 0, ~(h.due # NoTimer /\ h.due <= t)
    PROVE  h.phase = signalPhaseAt(t - h.anchor)
<1> DEFINE S == {i \in Steps : AtMs[i] <= t - h.anchor}
<1>1. h.index \in Steps /\ h.anchor \in Nat /\ S \subseteq Steps
  BY SMT DEF Hook, Steps
<1>2. h.index \in S
  BY <1>1, SMT DEF Punctual
<1>3. Max(S) \in S /\ \A i \in S : i <= Max(S)
  BY <1>1, <1>2, LastStep
<1>4. Max(S) = h.index
  <2>1. CASE h.index = 5
    BY <1>1, <1>2, <1>3, <2>1, SMT DEF Steps
  <2>2. CASE h.index # 5
    <3>1. h.due = h.anchor + AtMs[h.index + 1] /\ h.index + 1 \in Steps /\ AtMs[h.index + 1] \in Nat
      BY <1>1, <2>2, Offsets, SMT DEF Punctual, Steps
    <3>2. ~(AtMs[h.index + 1] <= t - h.anchor)
      BY <1>1, <3>1, SMT DEF NoTimer
    <3>3. \A i \in Steps : AtMs[i] \in Nat /\ (i > h.index + 1 => AtMs[h.index + 1] < AtMs[i])
      BY <1>1, <3>1, Offsets, SMT DEF Steps
    <3>4. \A i \in S : i <= h.index
      BY <1>1, <3>1, <3>2, <3>3, SMT DEF Steps
    <3> QED
      BY <1>1, <1>2, <1>3, <3>4, SMT DEF Steps
  <2> QED
    BY <2>1, <2>2
<1>5. signalPhaseAt(t - h.anchor) = PhaseName[Max(S)]
  BY <1>2, Zenon DEF signalPhaseAt
<1> QED
  BY <1>4, <1>5, Zenon DEF Punctual

\* Every hook keeps to its schedule, with any steps between the lights and timers
\* as late as they may be (advance of useStartSignalTimer: each timer is set off the
\* anchor, whatever the one before it lost).
THEOREM StepsKeepTheSchedule == Spec => []StepsOnSchedule
<1>1. LightsInv => StepsOnSchedule
  <2> SUFFICES ASSUME LightsInv,
                      NEW h \in {local[p] : p \in Panels} \union {mirror[s] : s \in Surfaces},
                      h.index # 0, ~DueNow(h)
               PROVE  h.phase = signalPhaseAt(now - h.anchor)
    BY Zenon DEF StepsOnSchedule
  <2>1. h \in Hook /\ Punctual(h, now) /\ now \in Nat
    BY Zenon DEF LightsInv
  <2> QED
    BY <2>1, PunctualShows DEF DueNow
<1>2. LightsInv /\ [Next]_vars => LightsInv'
  BY StepLights
<1> QED
  BY InitLights, <1>1, <1>2, PTL DEF Spec

-----------------------------------------------------------------------------
(* A panel's sequence implements StartSequence.                            *)

\* A sequence that still owes its GO.
Owes(h) == h.index # 0 /\ ~h.latched

\* What StartSequence sees of a step of one panel's hook.
LEMMA OwingMoves ==
    ASSUME local \in [Panels -> Hook], NEW p \in Panels, NEW k,
           local' = [local EXCEPT ![p] = k]
    PROVE  /\ [q \in Panels |-> Owed(q)]' = [[q \in Panels |-> Owed(q)] EXCEPT ![p] = Owes(k)]
           /\ [q \in Panels |-> local[q].anchor]'
                = [[q \in Panels |-> local[q].anchor] EXCEPT ![p] = k.anchor]
<1>1. local'[p] = k /\ \A q \in Panels : q # p => local'[q] = local[q]
  BY Zenon
<1>2. \A q \in Panels : Owed(q)' = IF q = p THEN Owes(k) ELSE Owed(q)
  BY <1>1, Zenon DEF Owed, Owes
<1>3. \A q \in Panels : local'[q].anchor = IF q = p THEN k.anchor ELSE local[q].anchor
  BY <1>1, Zenon
<1> QED
  BY <1>2, <1>3, Zenon

\* A step of a hook that lets no GO out and arms nothing cancels, or changes nothing
\* that is owed.
LEMMA CancelOrRest ==
    ASSUME local \in [Panels -> Hook], NEW p \in Panels, NEW k,
           local' = [local EXCEPT ![p] = k], goes' = goes,
           k.anchor = local[p].anchor, ~Owes(k) \/ (Owes(k) <=> Owes(local[p]))
    PROVE  Owing!Cancel(p) \/ UNCHANGED Owing!vars
<1> DEFINE owed == [q \in Panels |-> Owed(q)]
           anchor == [q \in Panels |-> local[q].anchor]
<1>1. owed' = [owed EXCEPT ![p] = Owes(k)] /\ anchor' = [anchor EXCEPT ![p] = k.anchor]
  BY OwingMoves
<1>2. owed[p] = Owes(local[p]) /\ anchor[p] = local[p].anchor
  BY Zenon DEF Owed, Owes
<1>3. anchor' = anchor
  BY <1>1, <1>2, Zenon
<1>4. CASE Owes(k) <=> Owes(local[p])
  <2>1. Owes(k) = Owes(local[p])
    BY <1>4, SMT DEF Owes
  <2>2. owed' = owed
    BY <1>1, <1>2, <2>1, Zenon
  <2> QED
    BY <1>3, <2>2, Zenon DEF Owing!vars
<1>5. CASE ~Owes(k) /\ Owes(local[p])
  <2>1. Owes(k) = FALSE
    BY <1>5, SMT DEF Owes
  <2>2. owed' = [owed EXCEPT ![p] = FALSE] /\ owed[p]
    BY <1>1, <1>2, <1>5, <2>1, Zenon
  <2> QED
    BY <1>3, <2>2, Zenon DEF Owing!Cancel
<1> QED
  BY <1>4, <1>5, Zenon

\* Nothing a panel's sequence owes has changed.
LEMMA OwingRests ==
    ASSUME local' = local, goes' = goes
    PROVE  UNCHANGED Owing!vars
BY Zenon DEF Owing!vars, Owed

\* A press, or the lights of one, is a step of StartSequence.
LEMMA PressOwing ==
    ASSUME LightsInv, NEW p \in Panels, Start(p) \/ Reset(p) \/ Abort(p)
    PROVE  Owing!Cancel(p) \/ UNCHANGED Owing!vars
<1>1. local \in [Panels -> Hook] /\ local[p] \in Hook /\ now \in Nat
  BY Zenon DEF LightsInv
<1>2. \E abort \in BOOLEAN : local' = [local EXCEPT ![p] = resetSignal(local[p], abort)]
  BY Zenon DEF Start, Reset, Abort, ClearBoard
<1>3. goes' = goes
  BY Zenon DEF Start, Reset, Abort
<1>4. PICK abort \in BOOLEAN : local' = [local EXCEPT ![p] = resetSignal(local[p], abort)]
  BY <1>2
<1> DEFINE k == resetSignal(local[p], abort)
<1>5. k.index = 0 /\ k.anchor = local[p].anchor
  BY <1>1, ResetRests
<1>6. ~Owes(k)
  BY <1>5, Zenon DEF Owes
<1> HIDE DEF k
<1> QED
  BY <1>1, <1>3, <1>4, <1>5, <1>6, CancelOrRest DEF k

\* The lights of a press arm a sequence, for now.
LEMMA LightsOwing == ASSUME LightsInv, NEW p \in Panels, LightsOn(p) PROVE Owing!Arm(p)
<1> DEFINE k == startSignal(local[p], now, now)
           anchor == [q \in Panels |-> local[q].anchor]
<1>1. local \in [Panels -> Hook] /\ local[p] \in Hook /\ now \in Nat /\ now <= now
  BY SMT DEF LightsInv
<1>2. local' = [local EXCEPT ![p] = k] /\ goes' = goes
  BY Zenon DEF LightsOn
<1>3. k.index # 0 /\ k.anchor = now /\ ~k.latched
  BY <1>1, StartedLands, StartedOwes
<1>4. Owes(k)
  BY <1>3, Zenon DEF Owes
<1> HIDE DEF k
<1>5. /\ [q \in Panels |-> Owed(q)]' = [[q \in Panels |-> Owed(q)] EXCEPT ![p] = Owes(k)]
      /\ anchor' = [anchor EXCEPT ![p] = k.anchor]
  BY <1>1, <1>2, OwingMoves
<1>6. [q \in Panels |-> Owed(q)]' = [[q \in Panels |-> Owed(q)] EXCEPT ![p] = TRUE]
  BY <1>4, <1>5, Zenon
<1>7. anchor'[p] = now /\ anchor' = [anchor EXCEPT ![p] = anchor'[p]]
  BY <1>3, <1>5, Zenon
<1> QED
  BY <1>1, <1>2, <1>6, <1>7, Zenon DEF Owing!Arm

\* A panel's timer pays its GO, or changes nothing that is owed.
LEMMA TimerOwing ==
    ASSUME LightsInv, NEW p \in Panels, LocalTimer(p)
    PROVE  Owing!Go(p) \/ Owing!Cancel(p) \/ UNCHANGED Owing!vars
<1> DEFINE h == local[p]
           k == Advance(h, now)
           epoch == h.anchor + GoOffset
           anchor == [q \in Panels |-> local[q].anchor]
<1>1. local \in [Panels -> Hook] /\ h \in Hook /\ now \in Nat /\ Punctual(h, now)
  BY Zenon DEF LightsInv
<1>2. /\ h.due # NoTimer /\ local' = [local EXCEPT ![p] = k]
      /\ IF Fires(h, now) THEN goes' = [goes EXCEPT ![p] = Append(@, epoch)] ELSE goes' = goes
  BY Zenon DEF LocalTimer, DueNow
<1>3. h.index # 0 /\ h.anchor <= now
  BY <1>1, <1>2, DueRuns
<1>4. /\ k.index # 0 /\ k.anchor = h.anchor
      /\ Fires(h, now) => (~h.latched /\ k.latched)
      /\ ~Fires(h, now) => k.latched = h.latched
  BY <1>1, <1>3, AdvanceLands
<1> HIDE DEF k
<1>5. CASE ~Fires(h, now)
  <2>1. Owes(k) <=> Owes(h)
    BY <1>3, <1>4, <1>5, Zenon DEF Owes
  <2>2. goes' = goes
    BY <1>2, <1>5, Zenon
  <2> QED
    BY <1>1, <1>2, <1>4, <2>1, <2>2, CancelOrRest
<1>6. CASE Fires(h, now)
  <2>1. Owes(h) /\ ~Owes(k)
    BY <1>3, <1>4, <1>6, Zenon DEF Owes
  <2>2. /\ [q \in Panels |-> Owed(q)]' = [[q \in Panels |-> Owed(q)] EXCEPT ![p] = Owes(k)]
        /\ anchor' = [anchor EXCEPT ![p] = k.anchor]
    BY <1>1, <1>2, OwingMoves
  <2>3. [q \in Panels |-> Owed(q)]' = [[q \in Panels |-> Owed(q)] EXCEPT ![p] = FALSE]
    <3>1. Owes(k) = FALSE
      BY <2>1, SMT DEF Owes
    <3> QED
      BY <2>2, <3>1, Zenon
  <2>4. anchor' = anchor
    BY <1>4, <2>2, Zenon
  <2>5. [q \in Panels |-> Owed(q)][p]
    BY <2>1, Zenon DEF Owed, Owes
  <2>6. goes' = [goes EXCEPT ![p] = Append(@, anchor[p] + GoOffset)]
    BY <1>2, <1>6, Zenon
  <2> QED
    BY <2>3, <2>4, <2>5, <2>6, Zenon DEF Owing!Go
<1> QED
  BY <1>5, <1>6

\* A frame cancels a sequence, or changes nothing that is owed.
LEMMA DeliveryOwing ==
    ASSUME LightsInv, NEW s \in Surfaces, Deliver(s)
    PROVE  (\E p \in Panels : Owing!Cancel(p)) \/ UNCHANGED Owing!vars
<1>1. PICK p \in Panels :
        /\ net[p][s] # <<>>
        /\ IF s = Display THEN DisplayApplies(Head(net[p][s])) ELSE PanelApplies(s, Head(net[p][s]))
        /\ goes' = goes
  BY Zenon DEF Deliver
<1> DEFINE m == Head(net[p][s])
<1>2. CASE s = Display
  <2>1. local' = local
    BY <1>1, <1>2 DEF DisplayApplies
  <2> QED
    BY <1>1, <2>1, OwingRests
<1>3. CASE s # Display
  <2>1. s \in Panels /\ local \in [Panels -> Hook] /\ local[s] \in Hook
    BY <1>3, Zenon DEF Surfaces, LightsInv
  <2> DEFINE k == Interrupted(local[s], m)
  <2>2. local' = [local EXCEPT ![s] = k]
    BY <1>1, <1>3, Zenon DEF PanelApplies
  <2>3. k = local[s] \/ \E abort \in BOOLEAN : k = resetSignal(local[s], abort)
    BY InterruptedIs
  <2>4. k.anchor = local[s].anchor /\ (~Owes(k) \/ (Owes(k) <=> Owes(local[s])))
    <3>1. CASE k = local[s]
      BY <3>1, Zenon
    <3>2. ASSUME NEW abort \in BOOLEAN, k = resetSignal(local[s], abort)
          PROVE  k.anchor = local[s].anchor /\ ~Owes(k)
      <4>1. now \in Nat
        BY DEF LightsInv
      <4>2. k.index = 0 /\ k.anchor = local[s].anchor
        BY <2>1, <3>2, <4>1, ResetRests
      <4> QED
        BY <4>2, Zenon DEF Owes
    <3> QED
      BY <2>3, <3>1, <3>2
  <2> HIDE DEF k
  <2>5. Owing!Cancel(s) \/ UNCHANGED Owing!vars
    BY <1>1, <2>1, <2>2, <2>4, CancelOrRest
  <2> QED
    BY <2>1, <2>5
<1> QED
  BY <1>2, <1>3

\* The sequences of the panels implement StartSequence, with any number of panels,
\* timers however late and presses however hasty: each arming is paid by one GO at its
\* scheduled epoch, or cancelled, and a sequence that owes nothing issues none (the
\* latch of useStartSignalTimer and the resets of ControlPage).
THEOREM SequencesImplemented == Spec => SequencesKept
<1>1. Init => Owing!Init
  <2> SUFFICES ASSUME Init PROVE Owing!Init
    OBVIOUS
  <2>1. \A p \in Panels : local[p] = IdleHook
    BY Zenon DEF Init
  <2>2. IdleHook.index = 0 /\ IdleHook.anchor = 0
    BY SMT DEF IdleHook
  <2>3. \A p \in Panels : Owed(p) = FALSE /\ local[p].anchor = 0
    BY <2>1, <2>2, Zenon DEF Owed
  <2> QED
    BY <2>3, Zenon DEF Init, Owing!Init
<1>2. LightsInv /\ [Next]_vars => [Owing!Next]_(Owing!vars)
  <2> SUFFICES ASSUME LightsInv, [Next]_vars PROVE Owing!Next \/ UNCHANGED Owing!vars
    OBVIOUS
  <2>1. CASE Tick
    <3>1. local' = local /\ goes' = goes
      BY <2>1 DEF Tick
    <3> QED
      BY <3>1, OwingRests
  <2>2. ASSUME NEW p \in Panels, Start(p) \/ Reset(p) \/ Abort(p)
        PROVE  Owing!Next \/ UNCHANGED Owing!vars
    BY <2>2, PressOwing, Zenon DEF Owing!Next
  <2>3. ASSUME NEW p \in Panels, LightsOn(p) PROVE Owing!Next
    BY <2>3, LightsOwing, Zenon DEF Owing!Next
  <2>4. ASSUME NEW p \in Panels, LocalTimer(p) PROVE Owing!Next \/ UNCHANGED Owing!vars
    BY <2>4, TimerOwing, Zenon DEF Owing!Next
  <2>5. ASSUME NEW s \in Surfaces, MirrorTimer(s) PROVE UNCHANGED Owing!vars
    <3>1. local' = local /\ goes' = goes
      BY <2>5 DEF MirrorTimer
    <3> QED
      BY <3>1, OwingRests
  <2>6. ASSUME NEW s \in Surfaces, Deliver(s) PROVE Owing!Next \/ UNCHANGED Owing!vars
    BY <2>6, DeliveryOwing, Zenon DEF Owing!Next
  <2>7. CASE UNCHANGED vars
    <3>1. local' = local /\ goes' = goes
      BY <2>7 DEF vars
    <3> QED
      BY <3>1, OwingRests
  <2> QED
    BY <2>1, <2>2, <2>3, <2>4, <2>5, <2>6, <2>7, Zenon DEF Next
<1>3. LightsInv /\ [Next]_vars => LightsInv'
  BY StepLights
<1> QED
  BY InitLights, <1>1, <1>2, <1>3, PTL DEF Spec, SequencesKept, Owing!Spec

-----------------------------------------------------------------------------
(* The sequence a panel drives is the one it announced.                    *)

\* The strengthening of GoIsTheSeeds.  While the lights of a press are pending no
\* sequence of that panel runs, and one press is pending at most: the lights that come
\* on never re-arm an armed sequence, whose new anchor would go unannounced.
SeedInv ==
    \A p \in Panels :
        /\ Owed(p) => local[p].anchor = seed[p]
        /\ pending[p] # {} => local[p].index = 0
        /\ \E at : pending[p] \subseteq {at}

\* A panel whose sequence is stepped, cancelled or left alone, and that presses nothing
\* and announces nothing.
Announced(p) ==
    /\ pending'[p] = pending[p] /\ seed'[p] = seed[p]
    /\ local'[p].anchor = local[p].anchor
    /\ local'[p].index = 0
         \/ /\ local[p].index # 0
            /\ ~local'[p].latched => ~local[p].latched
         \/ local'[p] = local[p]

\* Such a panel's seed stays the one of its sequence.
LEMMA AnnouncedKeeps ==
    ASSUME SeedInv, NEW p \in Panels, Announced(p)
    PROVE  /\ Owed(p)' => local'[p].anchor = seed'[p]
           /\ pending'[p] # {} => local'[p].index = 0
           /\ \E at : pending'[p] \subseteq {at}
<1>1. /\ Owed(p) => local[p].anchor = seed[p]
      /\ pending[p] # {} => local[p].index = 0
      /\ \E at : pending[p] \subseteq {at}
  BY Zenon DEF SeedInv
<1>2. Owed(p)' => Owed(p)
  BY Zenon DEF Announced, Owed
<1> QED
  BY <1>1, <1>2, Zenon DEF Announced

\* Every panel but one is left alone.
LEMMA OthersKeep ==
    ASSUME LightsInv, SeedInv, NEW p \in Panels,
           \A q \in Panels : q # p => local'[q] = local[q] /\ pending'[q] = pending[q] /\ seed'[q] = seed[q],
           Owed(p)' => local'[p].anchor = seed'[p],
           pending'[p] # {} => local'[p].index = 0,
           \E at : pending'[p] \subseteq {at}
    PROVE  SeedInv'
<1> SUFFICES ASSUME NEW q \in Panels
             PROVE  /\ Owed(q)' => local'[q].anchor = seed'[q]
                    /\ pending'[q] # {} => local'[q].index = 0
                    /\ \E at : pending'[q] \subseteq {at}
  BY Zenon DEF SeedInv
<1>1. CASE q = p
  BY <1>1
<1>2. CASE q # p
  <2>1. Announced(q)
    BY <1>2, Zenon DEF Announced
  <2> QED
    BY <2>1, AnnouncedKeeps
<1> QED
  BY <1>1, <1>2

\* A step of one panel that announces nothing and adds no press.
LEMMA UnannouncedKeeps ==
    ASSUME LightsInv, SeedInv, NEW p \in Panels, NEW k,
           local' = [local EXCEPT ![p] = k], k.anchor = local[p].anchor,
           \/ k.index = 0
           \/ local[p].index # 0 /\ (~k.latched => ~local[p].latched)
           \/ k = local[p],
           pending' = pending, seed' = seed
    PROVE  SeedInv'
<1>1. local'[p] = k /\ \A q \in Panels : q # p => local'[q] = local[q]
  BY Zenon DEF LightsInv
<1>2. Announced(p)
  BY <1>1, Zenon DEF Announced
<1> QED
  BY <1>1, <1>2, AnnouncedKeeps, OthersKeep

\* Presses, lights, timers and frames keep it, when operators wait for a start to be
\* over before they press again.
LEMMA StepSeeds ==
    ASSUME ~Hasty, LightsInv, SeedInv, [Next]_vars
    PROVE  SeedInv'
<1>1. ASSUME UNCHANGED <<local, pending, seed>> PROVE SeedInv'
  BY <1>1, Zenon DEF SeedInv, Owed
<1>2. /\ local \in [Panels -> Hook] /\ pending \in [Panels -> SUBSET Nat] /\ seed \in [Panels -> Nat]
      /\ now \in Nat /\ \A p \in Panels : local[p] \in Hook /\ Punctual(local[p], now)
  BY Zenon DEF LightsInv
<1>3. CASE Tick \/ UNCHANGED vars
  BY <1>1, <1>3 DEF Tick, vars
<1>4. ASSUME NEW p \in Panels, Start(p) PROVE SeedInv'
  <2> DEFINE k == resetSignal(local[p], FALSE)
  <2>1. /\ local' = [local EXCEPT ![p] = k] /\ seed' = seed
        /\ pending' = [pending EXCEPT ![p] = @ \union {now + StartDelay}]
    BY <1>4 DEF Start, ClearBoard
  <2>2. k.index = 0
    BY <1>2, ResetRests
  <2>3. pending[p] = {}
    BY <1>4, Zenon DEF Start, Calm, Armed
  <2> HIDE DEF k
  <2>4. local'[p] = k /\ \A q \in Panels : q # p =>
          local'[q] = local[q] /\ pending'[q] = pending[q] /\ seed'[q] = seed[q]
    BY <1>2, <2>1, Zenon
  <2>5. pending'[p] \subseteq {now + StartDelay}
    BY <1>2, <2>1, <2>3, Zenon
  <2>6. ~Owed(p)' /\ local'[p].index = 0
    BY <2>2, <2>4, Zenon DEF Owed
  <2> QED
    BY <2>4, <2>5, <2>6, OthersKeep
<1>5. ASSUME NEW p \in Panels, Reset(p) \/ Abort(p) PROVE SeedInv'
  <2>1. PICK abort \in BOOLEAN : local' = [local EXCEPT ![p] = resetSignal(local[p], abort)]
    BY <1>5, Zenon DEF Reset, Abort, ClearBoard
  <2>2. pending' = pending /\ seed' = seed
    BY <1>5, Zenon DEF Reset, Abort
  <2>3. LET k == resetSignal(local[p], abort) IN k.index = 0 /\ k.anchor = local[p].anchor
    BY <1>2, ResetRests
  <2> QED
    BY <2>1, <2>2, <2>3, UnannouncedKeeps
<1>6. ASSUME NEW p \in Panels, LightsOn(p) PROVE SeedInv'
  <2> DEFINE k == startSignal(local[p], now, now)
  <2>1. PICK at \in pending[p] :
          /\ pending' = [pending EXCEPT ![p] = @ \ {at}]
          /\ local' = [local EXCEPT ![p] = k]
          /\ IF local[p].phase = "armed" THEN UNCHANGED <<net, seed>>
             ELSE Send(p, "seed", now) /\ seed' = [seed EXCEPT ![p] = now]
    BY <1>6 DEF LightsOn
  <2>2. now <= now
    BY <1>2, SMT
  <2>3. k.anchor = now
    BY <1>2, <2>2, StartedLands
  <2> HIDE DEF k
  <2>4. local[p].index = 0 /\ \E t : pending[p] \subseteq {t}
    BY <2>1, Zenon DEF SeedInv
  <2>5. local[p].phase # "armed"
    BY <1>2, <2>4, SMT DEF Punctual
  <2>6. seed' = [seed EXCEPT ![p] = now]
    BY <2>1, <2>5
  <2>7. pending'[p] = {}
    <3>1. pending'[p] = pending[p] \ {at}
      BY <1>2, <2>1, Zenon
    <3>2. PICK t : pending[p] \subseteq {t}
      BY <2>4
    <3> QED
      BY <3>1, <3>2, Zenon
  <2>8. /\ local'[p] = k /\ seed'[p] = now
        /\ \A q \in Panels : q # p =>
              local'[q] = local[q] /\ pending'[q] = pending[q] /\ seed'[q] = seed[q]
    BY <1>2, <2>1, <2>6, Zenon
  <2>9. local'[p].anchor = seed'[p] /\ pending'[p] \subseteq {now}
    BY <2>3, <2>7, <2>8, Zenon
  <2> QED
    BY <2>7, <2>8, <2>9, OthersKeep
<1>7. ASSUME NEW p \in Panels, LocalTimer(p) PROVE SeedInv'
  <2> DEFINE h == local[p]
             k == Advance(h, now)
  <2>1. h.due # NoTimer /\ local' = [local EXCEPT ![p] = k] /\ pending' = pending /\ seed' = seed
    BY <1>7 DEF LocalTimer, DueNow
  <2>2. h.index # 0 /\ h.anchor <= now
    BY <1>2, <2>1, DueRuns
  <2>3. k.anchor = h.anchor /\ (~k.latched => ~h.latched)
    <3>1. /\ k.anchor = h.anchor
          /\ Fires(h, now) => (~h.latched /\ k.latched)
          /\ ~Fires(h, now) => k.latched = h.latched
      BY <1>2, <2>2, AdvanceLands
    <3> HIDE DEF k
    <3> QED
      BY <3>1, Zenon
  <2> HIDE DEF k
  <2> QED
    BY <2>1, <2>2, <2>3, UnannouncedKeeps
<1>8. ASSUME NEW s \in Surfaces, MirrorTimer(s) PROVE SeedInv'
  BY <1>1, <1>8 DEF MirrorTimer
<1>9. ASSUME NEW s \in Surfaces, Deliver(s) PROVE SeedInv'
  <2>1. PICK p \in Panels :
          /\ IF s = Display THEN DisplayApplies(Head(net[p][s])) ELSE PanelApplies(s, Head(net[p][s]))
          /\ pending' = pending /\ seed' = seed
    BY <1>9, Zenon DEF Deliver
  <2>2. CASE s = Display
    <3>1. local' = local
      BY <2>1, <2>2 DEF DisplayApplies
    <3> QED
      BY <1>1, <2>1, <3>1
  <2>3. CASE s # Display
    <3> DEFINE k == Interrupted(local[s], Head(net[p][s]))
    <3>1. s \in Panels
      BY <2>3 DEF Surfaces
    <3>2. local' = [local EXCEPT ![s] = k]
      BY <2>1, <2>3, Zenon DEF PanelApplies
    <3>3. k = local[s] \/ \E abort \in BOOLEAN : k = resetSignal(local[s], abort)
      BY InterruptedIs
    <3>4. k.anchor = local[s].anchor /\ (k.index = 0 \/ k = local[s])
      BY <1>2, <3>1, <3>3, ResetRests
    <3> HIDE DEF k
    <3> QED
      BY <2>1, <3>1, <3>2, <3>4, UnannouncedKeeps
  <2> QED
    BY <2>2, <2>3
<1> QED
  BY <1>3, <1>4, <1>5, <1>6, <1>7, <1>8, <1>9, Zenon DEF Next

\* The sequence a panel drives is anchored where the seed it broadcast last says, for any
\* number of panels, when operators wait for a start to be over before they press Start
\* or Reset again (the seed effect of ControlPage, which a re-armed sequence skips).
THEOREM GoFollowsTheSeed == ~Hasty => (Spec => []GoIsTheSeeds)
<1> SUFFICES ASSUME ~Hasty PROVE Spec => []GoIsTheSeeds
  OBVIOUS
<1>1. Init => SeedInv
  <2> SUFFICES ASSUME Init PROVE SeedInv
    OBVIOUS
  <2>1. \A p \in Panels : local[p].index = 0 /\ pending[p] = {}
    BY SMT DEF Init, IdleHook
  <2> QED
    BY <2>1, Zenon DEF SeedInv, Owed
<1>2. SeedInv => GoIsTheSeeds
  BY Zenon DEF SeedInv, GoIsTheSeeds
<1>3. LightsInv /\ SeedInv /\ [Next]_vars => LightsInv' /\ SeedInv'
  BY StepLights, StepSeeds
<1> QED
  BY InitLights, <1>1, <1>2, <1>3, PTL DEF Spec
=============================================================================
