-------------------------------- MODULE RelayRoom --------------------------------
(***************************************************************************)
(* The relay of one session: who is connected, and what the table of       *)
(* connections says of it (server/src/core/db.ts, core/broadcast.ts,       *)
(* functions/connectionHandler, messageHandler, authorizer).               *)
(*                                                                         *)
(* Every invocation reads and writes the table step by step while others   *)
(* do.  A connection has a forward row, which the fan-out lists, and a map *)
(* item, the only way a disconnect finds it; both expire unless the        *)
(* client's pings keep them.  What a frame says, and the dampers, are left *)
(* out; an admin's connections are never revoked and count as a manager's. *)
(***************************************************************************)
EXTENDS Integers, FiniteSets

CONSTANTS
    Conns,        \* connection identifiers: one per handshake, never used again
    Overlays,     \* those admitted on a read token; the others are panels
    PingEvery,    \* WS_KEEPALIVE_INTERVAL_MS, in ticks
    IdleMax,      \* API Gateway's idle timeout, in ticks
    Ttl,          \* CONNECTION_TTL_SECONDS, in ticks
    MaxTrouble,   \* heartbeats that fail or come late, between two that do neither
    Apart,        \* no handshake is under way when a credential is revoked
    EarlyGone,    \* API Gateway answers 410 for a handshake not finished
    MaxRevokes,   \* bound: credentials revoked
    MaxBusy,      \* bound: handshakes and invocations under way at once
    MaxLost       \* bound: lost

ASSUME ConnsAssumption == Overlays \subseteq Conns
ASSUME ClockAssumption ==
    /\ {PingEvery, IdleMax, Ttl} \subseteq Nat \ {0} /\ PingEvery < IdleMax
    /\ PingEvery + IdleMax <= Ttl /\ MaxTrouble \in {0, 1}
ASSUME RelayAssumption == {Apart, EarlyGone} \subseteq BOOLEAN /\ {MaxRevokes, MaxBusy, MaxLost} \subseteq Nat

VARIABLES
    conn,      \* per connection: its socket, its credential, its heartbeat
    row,       \* the forward row, which the fan-out lists: PK sessionId, SK connectionId
    item,      \* the map items held: PK CONN#connectionId
    deletes,   \* deletes on their way to the table
    lost,      \* deletes and disconnect events that came to nothing
    fan,       \* the frame under way
    version,   \* the competition's tokenVersion; the manager's grant, by turn
    closing    \* the revoke under way

vars == <<conn, row, item, deletes, lost, fan, version, closing>>

Roles == {"panel", "overlay"}
Role(c) == IF c \in Overlays THEN "overlay" ELSE "panel"

\* phase    new -> cleared by the authorizer -> joined: rows written -> open -> gone
\* quiet    ticks since it last pinged
\* age      ticks since its row was written or refreshed
\* beat     what its ping has left to refresh
\* left     its $disconnect event is due
Newcomer ==
    [phase |-> "new", version |-> 0, quiet |-> 0, age |-> 0, trouble |-> 0, beat |-> "none",
     left |-> FALSE]

Absent == [held |-> FALSE, readOnly |-> FALSE]
NoFan == [step |-> "none"]
NoClosing == [step |-> "none", role |-> "panel", targets |-> {}, failed |-> FALSE]

Init ==
    /\ conn = [c \in Conns |-> Newcomer]
    /\ row = [c \in Conns |-> Absent]
    /\ item = {}
    /\ deletes = {}
    /\ lost = 0
    /\ fan = NoFan
    /\ version = [r \in Roles |-> 0]
    /\ closing = NoClosing

IsOpen(c) == conn[c].phase = "open"
IsHandshake(c) == conn[c].phase \in {"cleared", "joined"}

\* A post, or a close, finds the connection gone.
IsGone(c) == conn[c].phase = "gone" \/ (EarlyGone /\ conn[c].phase = "joined")

Revoking == closing.step = "revoked" \/ closing.targets # {}

Busy ==
    Cardinality({c \in Conns : IsHandshake(c)})
        + Cardinality({c \in Conns : conn[c].beat # "none"})
        + Cardinality({k \in {1} : fan # NoFan}) + Cardinality({k \in {1} : Revoking})

-----------------------------------------------------------------------------
(* Coming and going.                                                       *)

\* The authorizer reads the tokenVersion or the grant: a credential that was
\* revoked is denied, so whoever clears holds the current one.
Clear(c) ==
    /\ conn[c].phase = "new" /\ Busy < MaxBusy
    /\ conn' = [conn EXCEPT ![c].phase = "cleared", ![c].version = version[Role(c)]]
    /\ UNCHANGED <<row, item, deletes, lost, fan, version, closing>>

\* $connect: both rows in one transaction.
Connect(c) ==
    /\ conn[c].phase = "cleared"
    /\ conn' = [conn EXCEPT ![c].phase = "joined"]
    /\ row' = [row EXCEPT ![c] = [held |-> TRUE, readOnly |-> c \in Overlays]]
    /\ item' = item \union {c}
    /\ UNCHANGED <<deletes, lost, fan, version, closing>>

OpenSocket(c) ==
    /\ conn[c].phase = "joined"
    /\ conn' = [conn EXCEPT ![c].phase = "open"]
    /\ UNCHANGED <<row, item, deletes, lost, fan, version, closing>>

\* The socket ends, or the handshake fails: a $disconnect event is due if it was
\* open.  A ping on its way goes on.
Ended(c) ==
    [conn EXCEPT ![c] = [Newcomer EXCEPT !.phase = "gone", !.left = IsOpen(c), !.beat = conn[c].beat]]

Leave(c) ==
    /\ IsHandshake(c) \/ IsOpen(c)
    /\ conn' = Ended(c)
    /\ UNCHANGED <<row, item, deletes, lost, fan, version, closing>>

\* removeConnection: two deletes that nothing ties together.
Removal(c) == {<<c, "row">>, <<c, "item">>}

\* $disconnect carries the identifier alone: without the map item there is no key.
Disconnect(c) ==
    /\ conn[c].left
    /\ conn' = [conn EXCEPT ![c].left = FALSE]
    /\ deletes' = IF c \in item THEN deletes \union Removal(c) ELSE deletes
    /\ UNCHANGED <<row, item, lost, fan, version, closing>>

\* API Gateway does not promise the event.
LoseDisconnect(c) ==
    /\ conn[c].left /\ lost < MaxLost
    /\ lost' = lost + 1
    /\ conn' = [conn EXCEPT ![c].left = FALSE]
    /\ UNCHANGED <<row, item, deletes, fan, version, closing>>

Delete(d) ==
    /\ deletes' = deletes \ {d}
    /\ row' = IF d[2] = "row" THEN [row EXCEPT ![d[1]] = Absent] ELSE row
    /\ item' = IF d[2] = "item" THEN item \ {d[1]} ELSE item
    /\ UNCHANGED <<conn, lost, fan, version, closing>>

\* One delete of the pair fails, or the invocation dies between the two.
LoseDelete(d) ==
    /\ lost < MaxLost
    /\ lost' = lost + 1
    /\ deletes' = deletes \ {d}
    /\ UNCHANGED <<conn, row, item, fan, version, closing>>

\* The table's own cleanup, some time after the TTL.  A row left behind goes some
\* time; so does a map item, whose own refreshes may all have failed.
Expire(c) ==
    /\ \/ /\ row[c].held /\ (conn[c].age > Ttl \/ conn[c].phase = "gone")
          /\ row' = [row EXCEPT ![c] = Absent] /\ UNCHANGED item
       \/ c \in item /\ item' = item \ {c} /\ UNCHANGED row
    /\ UNCHANGED <<conn, deletes, lost, fan, version, closing>>

-----------------------------------------------------------------------------
(* The heartbeat.                                                          *)

\* The update without attribute_exists: it makes the row it does not find.
MutRefreshed(r) == [r EXCEPT !.held = TRUE]

\* On attribute_exists a refresh brings nothing back.
Refreshed(r) == r

\* The map item first, its failure passed on.
MutBeats == <<"item", "row">>

\* The forward row first: a ping that fails on it never reaches the map item.
Beats == <<"row", "item">>

\* The interval is up.
IsDue(c) == conn[c].quiet >= PingEvery

\* The send itself resets the gateway's idle timer, whatever becomes of the refresh.
Ping(c) ==
    /\ IsOpen(c) /\ IsDue(c) /\ conn[c].beat = "none" /\ Busy < MaxBusy
    /\ conn' = [conn EXCEPT ![c].quiet = 0, ![c].beat = Beats[1]]
    /\ UNCHANGED <<row, item, deletes, lost, fan, version, closing>>

\* A refresh of what is not there fails, and ends the ping.
Refresh(c) ==
    /\ conn[c].beat # "none"
    /\ row' = IF conn[c].beat = "row" THEN [row EXCEPT ![c] = Refreshed(@)] ELSE row
    /\ LET next == IF conn[c].beat = Beats[1] THEN Beats[2] ELSE "none"
       IN  conn' = [conn EXCEPT ![c] =
                      IF conn[c].beat = "item" THEN [@ EXCEPT !.beat = IF c \in item THEN next ELSE "none"]
                      ELSE IF ~row'[c].held THEN [@ EXCEPT !.beat = "none"]
                      ELSE [@ EXCEPT !.beat = next, !.age = 0, !.trouble = 0]]
    /\ UNCHANGED <<item, deletes, lost, fan, version, closing>>

\* The table refuses the refresh, throttled or out of reach: the ping ends there.
FailRefresh(c) ==
    /\ \/ conn[c].beat = "row" /\ conn[c].trouble < MaxTrouble
          /\ conn' = [conn EXCEPT ![c].beat = "none", ![c].trouble = @ + 1]
       \/ conn[c].beat = "item" /\ conn' = [conn EXCEPT ![c].beat = "none"]
    /\ UNCHANGED <<row, item, deletes, lost, fan, version, closing>>

-----------------------------------------------------------------------------
(* The fan-out.                                                            *)

\* A client sends: a frame of state, or its request for one on OPEN.
Send(c, kind) ==
    /\ IsOpen(c) /\ ~IsDue(c) /\ fan = NoFan /\ Busy < MaxBusy
    /\ fan' = [step |-> "sent", from |-> c, kind |-> kind, targets |-> {}]
    /\ UNCHANGED <<conn, row, item, deletes, lost, version, closing>>

\* A sender the table does not hold is dropped, and a read-only one unless it asks.
MayRelay == row[fan.from].held /\ (row[fan.from].readOnly => fan.kind = "ask")

Check ==
    /\ fan.step = "sent"
    /\ fan' = IF MayRelay THEN [fan EXCEPT !.step = "checked"] ELSE NoFan
    /\ UNCHANGED <<conn, row, item, deletes, lost, version, closing>>

\* Everyone else the table lists; an ask goes to the panels only.
Recipients ==
    {d \in Conns \ {fan.from} : row[d].held /\ (fan.kind = "ask" => ~row[d].readOnly)}

List ==
    /\ fan.step = "checked"
    /\ fan' = IF Recipients = {} THEN NoFan
              ELSE [fan EXCEPT !.step = "listed", !.targets = Recipients]
    /\ UNCHANGED <<conn, row, item, deletes, lost, version, closing>>

\* Posted, or given up after the retries; a 410 prunes the rows.
Post(d) ==
    /\ fan.step = "listed" /\ d \in fan.targets
    /\ fan' = IF fan.targets = {d} THEN NoFan ELSE [fan EXCEPT !.targets = @ \ {d}]
    /\ deletes' = IF IsGone(d) THEN deletes \union Removal(d) ELSE deletes
    /\ UNCHANGED <<conn, row, item, lost, version, closing>>

-----------------------------------------------------------------------------
(* Revoking: the write gates the next handshake, the closes end the others. *)

\* Pressed again while some of the closes failed.
Revoke(role) ==
    /\ closing.step = "none" \/ (closing.targets = {} /\ closing.failed /\ closing.role = role)
    /\ version["panel"] + version["overlay"] < MaxRevokes /\ Busy < MaxBusy
    /\ Apart => \A c \in Conns : ~IsHandshake(c)
    /\ version' = [version EXCEPT ![role] = @ + 1]
    /\ closing' = [NoClosing EXCEPT !.step = "revoked", !.role = role]
    /\ UNCHANGED <<conn, row, item, deletes, lost, fan>>

\* The readers closed whatever was revoked.
MutMatches(c, role) == row[c].readOnly

\* disconnectSession's match: readOnly, or the sub of the grant.
Matches(c, role) == row[c].readOnly = (role = "overlay")

ListRevoked ==
    /\ closing.step = "revoked"
    /\ LET targets == {c \in Conns : row[c].held /\ Matches(c, closing.role)}
       IN  closing' = IF targets = {} THEN NoClosing
                      ELSE [closing EXCEPT !.step = "closing", !.targets = targets]
    /\ UNCHANGED <<conn, row, item, deletes, lost, fan, version>>

\* One target done; a failure is logged and the rest go on.
Done(c, failed) ==
    LET after == [closing EXCEPT !.targets = @ \ {c}, !.failed = @ \/ failed]
    IN  IF after.targets = {} /\ ~after.failed THEN NoClosing ELSE after

\* Closed; or gone, and pruned; or left open after the retries.
Close(c) ==
    /\ c \in closing.targets
    /\ \/ IsOpen(c) /\ conn' = Ended(c) /\ closing' = Done(c, FALSE) /\ UNCHANGED deletes
       \/ /\ IsGone(c) /\ deletes' = deletes \union Removal(c) /\ UNCHANGED conn
          /\ closing' = Done(c, FALSE)
       \/ ~IsGone(c) /\ closing' = Done(c, TRUE) /\ UNCHANGED <<conn, deletes>>
    /\ UNCHANGED <<row, item, lost, fan, version>>

-----------------------------------------------------------------------------
(* Time.                                                                   *)

\* No invocation is under way.
Settled ==
    /\ deletes = {} /\ fan = NoFan /\ ~Revoking
    /\ \A c \in Conns : ~IsHandshake(c) /\ conn[c].beat = "none" /\ ~conn[c].left

\* An awake page pings on time.  One that sleeps past its interval, having sent up
\* to then, is silent: the gateway drops it at the idle timeout.
MayWait(c) ==
    IsOpen(c) /\ IsDue(c) =>
        IF conn[c].quiet = PingEvery THEN conn[c].trouble < MaxTrouble
        ELSE conn[c].quiet < PingEvery + IdleMax

\* Invocations take seconds and a tick minutes.
Tick ==
    /\ Settled /\ \A c \in Conns : MayWait(c)
    /\ conn' = [c \in Conns |->
                  IF ~IsOpen(c) THEN conn[c]
                  ELSE [conn[c] EXCEPT !.quiet = @ + 1,
                                       !.trouble = IF conn[c].quiet = PingEvery THEN @ + 1 ELSE @,
                                       !.age = IF @ <= Ttl THEN @ + 1 ELSE @]]
    /\ UNCHANGED <<row, item, deletes, lost, fan, version, closing>>

-----------------------------------------------------------------------------
Next ==
    \/ \E c \in Conns :
         \/ Clear(c) \/ Connect(c) \/ OpenSocket(c) \/ Leave(c)
         \/ Disconnect(c) \/ LoseDisconnect(c) \/ Expire(c)
         \/ Ping(c) \/ Refresh(c) \/ FailRefresh(c) \/ Post(c) \/ Close(c)
         \/ \E kind \in {"state", "ask"} : Send(c, kind)
    \/ \E d \in deletes : Delete(d) \/ LoseDelete(d)
    \/ \E role \in Roles : Revoke(role)
    \/ Check \/ List \/ ListRevoked
    \/ Tick

Spec == Init /\ [][Next]_vars

-----------------------------------------------------------------------------
(* Properties.                                                             *)

\* Type invariant: connections, rows, the frame and the revoke keep their types.
TypeOK ==
    /\ conn \in [Conns -> [phase : {"new", "cleared", "joined", "open", "gone"}, version : Nat,
                           quiet : Nat, age : Nat, trouble : Nat,
                           beat : {"none", "row", "item"}, left : BOOLEAN]]
    /\ row \in [Conns -> [held : BOOLEAN, readOnly : BOOLEAN]]
    /\ item \subseteq Conns
    /\ deletes \subseteq Conns \X {"row", "item"}
    /\ lost \in Nat
    /\ fan \in [step : {"none"}] \union
              [step : {"sent", "checked", "listed"}, from : Conns, kind : {"state", "ask"},
               targets : SUBSET Conns]
    /\ version \in [Roles -> Nat]
    /\ closing \in [step : {"none", "revoked", "closing"}, role : Roles, targets : SUBSET Conns,
                   failed : BOOLEAN]

\* A live socket stays in the table, so every fan-out lists it and its own frames
\* are relayed: neither a prune, a late delete nor the TTL takes its row, with a
\* heartbeat failed or slept through now and then.
LiveSocketsAreListed == \A c \in Conns : IsOpen(c) => row[c].held

\* A read-only page never has a frame of state relayed, and its ask reaches
\* panels alone, whatever became of its row since: a row that went never comes
\* back without its flag.
OverlaysOnlyAsk ==
    fan.step \in {"checked", "listed"} =>
        IF fan.kind = "state" THEN fan.from \notin Overlays ELSE fan.targets \cap Overlays = {}

\* Once a revoke has closed what it listed, nobody is on the relay on a credential
\* older than it.
RevokedSocketsClose ==
    closing.step = "none" => \A c \in Conns : IsOpen(c) => conn[c].version = version[Role(c)]
=============================================================================
