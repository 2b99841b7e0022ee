---------------------------- MODULE RelayRoomProofs ----------------------------
(***************************************************************************)
(* Proofs about RelayRoom, for any number of connections and any timing    *)
(* the assumptions admit: an overlay never has state relayed, a live       *)
(* socket stays listed, and a revoke leaves no old credential connected.   *)
(***************************************************************************)
EXTENDS RelayRoom, TLAPS

Connection ==
    [phase : {"new", "cleared", "joined", "open", "gone"}, version : Nat, quiet : Nat, age : Nat,
     trouble : Nat, beat : {"none", "row", "item"}, left : BOOLEAN]

Frame ==
    [step : {"none"}] \union
      [step : {"sent", "checked", "listed"}, from : Conns, kind : {"state", "ask"},
       targets : SUBSET Conns]

Revocation ==
    [step : {"none", "revoked", "closing"}, role : Roles, targets : SUBSET Conns, failed : BOOLEAN]

-----------------------------------------------------------------------------
(* Types.                                                                  *)

\* Every connection has a role.
LEMMA RoleType == \A c \in Conns : Role(c) \in Roles
BY Zenon DEF Role, Roles

\* An empty room is well-typed.
LEMMA InitTypeOK == Init => TypeOK
BY SMT DEF Init, TypeOK, Newcomer, Absent, NoFan, NoClosing, Roles

\* Ending a connection keeps the types.
LEMMA EndedType ==
    ASSUME conn \in [Conns -> Connection], NEW c \in Conns
    PROVE  Ended(c) \in [Conns -> Connection]
<1> DEFINE ended == [Newcomer EXCEPT !.phase = "gone", !.left = IsOpen(c), !.beat = conn[c].beat]
<1>1. conn[c].beat \in {"none", "row", "item"}
  BY SMT DEF Connection
<1>2. IsOpen(c) \in BOOLEAN
  BY Zenon DEF IsOpen
<1>3. Newcomer \in Connection
  BY SMT DEF Newcomer, Connection
<1>4. ended \in Connection
  BY <1>1, <1>2, <1>3, Zenon DEF Connection
<1> QED
  BY <1>4, Zenon DEF Ended

\* The deletes of a connection are deletes.
LEMMA RemovalType == \A c \in Conns : Removal(c) \subseteq Conns \X {"row", "item"}
BY SMT DEF Removal

\* Settling one target keeps the type of the revoke.
LEMMA DoneType ==
    ASSUME closing \in Revocation, NEW c \in Conns, NEW failed \in BOOLEAN
    PROVE  Done(c, failed) \in Revocation
BY Zenon DEF Done, Revocation, NoClosing, Roles

\* Every step keeps the types.
LEMMA StepTypeOK == TypeOK /\ [Next]_vars => TypeOK'
<1> SUFFICES ASSUME TypeOK, [Next]_vars PROVE TypeOK'
  OBVIOUS
<1>c. conn \in [Conns -> Connection]
  BY Zenon DEF TypeOK, Connection
<1>k. closing \in Revocation
  BY Zenon DEF TypeOK, Revocation
<1>v. version \in [Roles -> Nat]
  BY Zenon DEF TypeOK
<1>d. deletes \subseteq Conns \X {"row", "item"}
  BY Zenon DEF TypeOK
<1>1. ASSUME NEW c \in Conns, Clear(c) PROVE TypeOK'
  <2>1. conn' \in [Conns -> Connection]
    <3>1. version[Role(c)] \in Nat
      BY RoleType, <1>v, Zenon
    <3> QED
      BY <1>1, <1>c, <3>1, Zenon DEF Clear, Connection
  <2> QED
    BY <1>1, <2>1, Zenon DEF Clear, TypeOK, Connection
<1>2. ASSUME NEW c \in Conns, Connect(c) PROVE TypeOK'
  BY <1>2, SMT DEF Connect, TypeOK
<1>3. ASSUME NEW c \in Conns, OpenSocket(c) PROVE TypeOK'
  <2>1. conn' \in [Conns -> Connection]
    BY <1>3, <1>c, SMT DEF OpenSocket, Connection
  <2> QED
    BY <1>3, <2>1, Zenon DEF OpenSocket, TypeOK, Connection
<1>4. ASSUME NEW c \in Conns, Leave(c) PROVE TypeOK'
  <2>1. conn' \in [Conns -> Connection]
    BY <1>4, <1>c, EndedType, Zenon DEF Leave
  <2> QED
    BY <1>4, <2>1, Zenon DEF Leave, TypeOK, Connection
<1>5. ASSUME NEW c \in Conns, Disconnect(c) PROVE TypeOK'
  <2>1. deletes' \subseteq Conns \X {"row", "item"}
    BY <1>5, <1>d, RemovalType, SMT DEF Disconnect
  <2>2. conn' \in [Conns -> Connection]
    BY <1>5, <1>c, Zenon DEF Disconnect, Connection
  <2> QED
    BY <1>5, <2>1, <2>2, Zenon DEF Disconnect, TypeOK, Connection
<1>6. ASSUME NEW c \in Conns, LoseDisconnect(c) PROVE TypeOK'
  <2>1. conn' \in [Conns -> Connection]
    BY <1>6, <1>c, Zenon DEF LoseDisconnect, Connection
  <2>2. lost' \in Nat
    BY <1>6, SMT DEF LoseDisconnect, TypeOK
  <2> QED
    BY <1>6, <2>1, <2>2, Zenon DEF LoseDisconnect, TypeOK, Connection
<1>7. ASSUME NEW c \in Conns, Expire(c) PROVE TypeOK'
  <2>1. row' \in [Conns -> [held : BOOLEAN, readOnly : BOOLEAN]]
    <3>1. Absent \in [held : BOOLEAN, readOnly : BOOLEAN]
      BY SMT DEF Absent
    <3> QED
      BY <1>7, <3>1, Zenon DEF Expire, TypeOK
  <2>2. item' \subseteq Conns
    BY <1>7, Zenon DEF Expire, TypeOK
  <2> QED
    BY <1>7, <2>1, <2>2, Zenon DEF Expire, TypeOK
<1>8. ASSUME NEW c \in Conns, Ping(c) PROVE TypeOK'
  <2>1. conn' \in [Conns -> Connection]
    BY <1>8, <1>c, SMT DEF Ping, Connection, Beats
  <2> QED
    BY <1>8, <2>1, Zenon DEF Ping, TypeOK, Connection
<1>9. ASSUME NEW c \in Conns, Refresh(c) PROVE TypeOK'
  <2>1. row' \in [Conns -> [held : BOOLEAN, readOnly : BOOLEAN]]
    BY <1>9, Zenon DEF Refresh, TypeOK, Refreshed
  <2> DEFINE next == IF conn[c].beat = Beats[1] THEN Beats[2] ELSE "none"
  <2>2. next \in {"none", "row", "item"}
    BY SMT DEF Beats
  <2> HIDE DEF next
  <2>3. conn[c] \in Connection /\ 0 \in Nat
    BY <1>c
  <2>4. /\ [conn[c] EXCEPT !.beat = IF c \in item THEN next ELSE "none"] \in Connection
        /\ [conn[c] EXCEPT !.beat = "none"] \in Connection
        /\ [conn[c] EXCEPT !.beat = next, !.age = 0, !.trouble = 0] \in Connection
    BY <2>2, <2>3, Zenon DEF Connection
  <2>5. conn' \in [Conns -> Connection]
    BY <1>9, <1>c, <2>4, Zenon DEF Refresh, next
  <2> QED
    BY <1>9, <2>1, <2>5, Zenon DEF Refresh, TypeOK, Connection
<1>10. ASSUME NEW c \in Conns, FailRefresh(c) PROVE TypeOK'
  <2>1. conn' \in [Conns -> Connection]
    BY <1>10, <1>c, SMT DEF FailRefresh, Connection
  <2> QED
    BY <1>10, <2>1, Zenon DEF FailRefresh, TypeOK, Connection
<1>11. ASSUME NEW c \in Conns, NEW kind \in {"state", "ask"}, Send(c, kind) PROVE TypeOK'
  BY <1>11, SMT DEF Send, TypeOK
<1>12. ASSUME Check PROVE TypeOK'
  BY <1>12, Zenon DEF Check, TypeOK, NoFan
<1>13. ASSUME List PROVE TypeOK'
  BY <1>13, Zenon DEF List, TypeOK, NoFan, Recipients
<1>14. ASSUME NEW d \in Conns, Post(d) PROVE TypeOK'
  <2>1. deletes' \subseteq Conns \X {"row", "item"}
    BY <1>14, <1>d, RemovalType, SMT DEF Post
  <2>2. fan' \in Frame
    <3>1. NoFan \in Frame
      BY SMT DEF NoFan, Frame
    <3>2. fan.step = "listed" /\ fan \in Frame
      BY <1>14, Zenon DEF Post, TypeOK, Frame
    <3>3. [fan EXCEPT !.targets = @ \ {d}] \in Frame
      BY <3>2, SMT DEF Frame
    <3> QED
      BY <1>14, <3>1, <3>3, Zenon DEF Post
  <2> QED
    BY <1>14, <2>1, <2>2, Zenon DEF Post, TypeOK, Frame
<1>15. ASSUME NEW role \in Roles, Revoke(role) PROVE TypeOK'
  <2>1. version' \in [Roles -> Nat]
    BY <1>15, <1>v, SMT DEF Revoke
  <2>2. NoClosing \in Revocation
    BY Zenon DEF NoClosing, Revocation, Roles
  <2>3. closing' \in Revocation
    BY <1>15, <2>2, Zenon DEF Revoke, Revocation
  <2> QED
    BY <1>15, <2>1, <2>3, Zenon DEF Revoke, TypeOK, Revocation
<1>16. ASSUME ListRevoked PROVE TypeOK'
  BY <1>16, Zenon DEF ListRevoked, TypeOK, NoClosing, Roles
<1>17. ASSUME NEW c \in Conns, Close(c) PROVE TypeOK'
  <2>1. conn' \in [Conns -> Connection]
    BY <1>17, <1>c, EndedType, Zenon DEF Close
  <2>2. deletes' \subseteq Conns \X {"row", "item"}
    BY <1>17, <1>d, RemovalType, Zenon DEF Close
  <2>3. closing' \in Revocation
    BY <1>17, <1>k, DoneType, Zenon DEF Close
  <2> QED
    BY <1>17, <2>1, <2>2, <2>3, Zenon DEF Close, TypeOK, Connection, Revocation
<1>18. ASSUME NEW d \in deletes, Delete(d) PROVE TypeOK'
  BY <1>18, SMT DEF Delete, TypeOK, Absent
<1>19. ASSUME NEW d \in deletes, LoseDelete(d) PROVE TypeOK'
  BY <1>19, SMT DEF LoseDelete, TypeOK
<1>20. ASSUME Tick PROVE TypeOK'
  <2>1. conn' \in [Conns -> Connection]
    <3> SUFFICES ASSUME NEW c \in Conns
                 PROVE  [conn[c] EXCEPT !.quiet = @ + 1,
                           !.trouble = IF conn[c].quiet = PingEvery THEN @ + 1 ELSE @,
                           !.age = IF @ <= Ttl THEN @ + 1 ELSE @] \in Connection
      BY <1>20, <1>c, Zenon DEF Tick
    <3>1. /\ conn[c].quiet + 1 \in Nat
          /\ (IF conn[c].quiet = PingEvery THEN conn[c].trouble + 1 ELSE conn[c].trouble) \in Nat
          /\ (IF conn[c].age <= Ttl THEN conn[c].age + 1 ELSE conn[c].age) \in Nat
      BY <1>c, SMT DEF Connection
    <3>2. conn[c] \in Connection
      BY <1>c
    <3> QED
      BY <3>1, <3>2, Zenon DEF Connection
  <2> QED
    BY <1>20, <2>1, Zenon DEF Tick, TypeOK, Connection
<1>21. CASE UNCHANGED vars
  BY <1>21, Zenon DEF vars, TypeOK
<1> QED
  BY <1>1, <1>2, <1>3, <1>4, <1>5, <1>6, <1>7, <1>8, <1>9, <1>10, <1>11, <1>12, <1>13, <1>14,
     <1>15, <1>16, <1>17, <1>18, <1>19, <1>20, <1>21, Zenon DEF Next

\* Every variable keeps its type.
THEOREM RelayTypeCorrect == Spec => []TypeOK
BY InitTypeOK, StepTypeOK, PTL DEF Spec

-----------------------------------------------------------------------------
(* The overlays.                                                           *)

Admitted(c) == [held |-> TRUE, readOnly |-> c \in Overlays]

\* A row is written by its $connect, removed, or left as it is: no heartbeat
\* brings one back (refreshConnectionTtl's attribute_exists).
LEMMA RowSteps ==
    ASSUME TypeOK, [Next]_vars, NEW c \in Conns
    PROVE  row'[c] \in {row[c], Absent, Admitted(c)}
<1>1. ASSUME NEW d \in Conns, Connect(d) PROVE row'[c] \in {row[c], Admitted(c)}
  BY <1>1, Zenon DEF Connect, TypeOK, Admitted
<1>2. ASSUME NEW d \in Conns, Expire(d) PROVE row'[c] \in {row[c], Absent}
  BY <1>2, SMT DEF Expire, TypeOK
<1>3. ASSUME NEW d \in deletes, Delete(d) PROVE row'[c] \in {row[c], Absent}
  BY <1>3, SMT DEF Delete, TypeOK
<1>4. ASSUME NEW d \in Conns, Refresh(d) PROVE row' = row
  BY <1>4, SMT DEF Refresh, Refreshed, TypeOK
<1>5. \/ row' = row
      \/ \E d \in Conns : Connect(d) \/ Expire(d)
      \/ \E d \in deletes : Delete(d)
  BY <1>4, Zenon DEF Next, vars, Clear, OpenSocket, Leave, Disconnect, LoseDisconnect, Ping,
     FailRefresh, Post, Close, Send, LoseDelete, Revoke, Check, List, ListRevoked, Tick
<1> QED
  BY <1>1, <1>2, <1>3, <1>5, Zenon

\* A row says what its connection was admitted as.
RowsTrue == \A c \in Conns : row[c].held => (row[c].readOnly <=> c \in Overlays)

\* No row is held yet.
LEMMA InitRowsTrue == Init => RowsTrue
BY SMT DEF Init, RowsTrue, Absent

\* A row's flag is written once, by its $connect, and a refresh leaves it.
LEMMA StepRowsTrue == TypeOK /\ RowsTrue /\ [Next]_vars => RowsTrue'
<1> SUFFICES ASSUME TypeOK, RowsTrue, [Next]_vars, NEW c \in Conns
             PROVE  row'[c].held => (row'[c].readOnly <=> c \in Overlays)
  BY Zenon DEF RowsTrue
<1>1. CASE row'[c] = row[c]
  BY <1>1, Zenon DEF RowsTrue
<1>2. CASE row'[c] = Absent
  BY <1>2, SMT DEF Absent
<1>3. CASE row'[c] = Admitted(c)
  <2>1. CASE c \in Overlays
    <3>1. (c \in Overlays) = TRUE
      BY <2>1, SMT
    <3>2. row'[c] = [held |-> TRUE, readOnly |-> TRUE]
      BY <1>3, <3>1, Zenon DEF Admitted
    <3> QED
      BY <2>1, <3>2, SMT
  <2>2. CASE c \notin Overlays
    <3>1. (c \in Overlays) = FALSE
      BY <2>2, SMT
    <3>2. row'[c] = [held |-> TRUE, readOnly |-> FALSE]
      BY <1>3, <3>1, Zenon DEF Admitted
    <3> QED
      BY <2>2, <3>2, SMT
  <2> QED
    BY <2>1, <2>2
<1> QED
  BY <1>1, <1>2, <1>3, RowSteps, Zenon

\* No frame is under way yet.
LEMMA InitOverlaysOnlyAsk == Init => OverlaysOnlyAsk
BY SMT DEF Init, OverlaysOnlyAsk, NoFan

\* A frame has no targets before the table is listed.
Unlisted == fan.step \in {"sent", "checked"} => fan.targets = {}

\* No frame is under way yet.
LEMMA InitUnlisted == Init => Unlisted
BY SMT DEF Init, Unlisted, NoFan

\* Only the listing gives a frame its targets.
LEMMA StepUnlisted == TypeOK /\ Unlisted /\ [Next]_vars => Unlisted'
<1> SUFFICES ASSUME TypeOK, Unlisted, [Next]_vars PROVE Unlisted'
  OBVIOUS
<1>1. ASSUME NEW c \in Conns, NEW kind \in {"state", "ask"}, Send(c, kind) PROVE Unlisted'
  BY <1>1, SMT DEF Send, Unlisted
<1>2. CASE Check
  <2>1. fan' = NoFan \/ fan' = [fan EXCEPT !.step = "checked"]
    BY <1>2, Zenon DEF Check
  <2>2. fan.step = "sent" /\ fan.targets = {}
    BY <1>2, Zenon DEF Check, Unlisted
  <2> QED
    BY <2>1, <2>2, SMT DEF TypeOK, Unlisted, NoFan
<1>3. CASE List
  BY <1>3, SMT DEF List, TypeOK, Unlisted, NoFan
<1>4. ASSUME NEW d \in Conns, Post(d) PROVE Unlisted'
  BY <1>4, SMT DEF Post, TypeOK, Unlisted, NoFan
<1>5. CASE UNCHANGED fan
  BY <1>5, Zenon DEF Unlisted
<1> QED
  BY <1>1, <1>2, <1>3, <1>4, <1>5, Zenon DEF Next, vars, Clear, Connect, OpenSocket, Leave,
     Disconnect, LoseDisconnect, Expire, Ping, Refresh, FailRefresh, Close, Delete, LoseDelete,
     Revoke, ListRevoked, Tick

\* A frame of state passes the check on a panel's row alone, and an ask is listed
\* for panels' rows alone; only its targets shrink after that.
LEMMA StepOverlaysOnlyAsk ==
    TypeOK /\ RowsTrue /\ Unlisted /\ OverlaysOnlyAsk /\ [Next]_vars => OverlaysOnlyAsk'
<1> SUFFICES ASSUME TypeOK, RowsTrue, Unlisted, OverlaysOnlyAsk, [Next]_vars PROVE OverlaysOnlyAsk'
  OBVIOUS
<1>1. ASSUME NEW c \in Conns, NEW kind \in {"state", "ask"}, Send(c, kind) PROVE OverlaysOnlyAsk'
  BY <1>1, SMT DEF Send, OverlaysOnlyAsk
<1>2. ASSUME Check PROVE OverlaysOnlyAsk'
  <2>1. CASE ~MayRelay
    BY <1>2, <2>1, Zenon DEF Check, OverlaysOnlyAsk, NoFan
  <2>2. CASE MayRelay
    <3>1. fan.from \in Conns /\ fan.kind \in {"state", "ask"} /\ fan.step = "sent"
      BY <1>2, SMT DEF Check, TypeOK
    <3>2. fan.kind = "state" => fan.from \notin Overlays
      BY <2>2, <3>1, SMT DEF MayRelay, RowsTrue, TypeOK
    <3> QED
      <4>1. fan' = [fan EXCEPT !.step = "checked"]
        BY <1>2, <2>2, Zenon DEF Check
      <4>2. fan'.kind = fan.kind /\ fan'.from = fan.from /\ fan'.targets = fan.targets
        BY <4>1, <3>1, SMT DEF TypeOK
      <4>3. fan.targets = {}
        BY <1>2, Zenon DEF Check, Unlisted
      <4> QED
        BY <3>1, <3>2, <4>2, <4>3, SMT DEF OverlaysOnlyAsk
  <2> QED
    BY <2>1, <2>2
<1>3. ASSUME List PROVE OverlaysOnlyAsk'
  <2>1. CASE Recipients = {}
    BY <1>3, <2>1, Zenon DEF List, OverlaysOnlyAsk, NoFan
  <2>2. CASE Recipients # {}
    <3>1. fan.kind = "ask" => Recipients \cap Overlays = {}
      BY SMT DEF Recipients, RowsTrue, TypeOK
    <3>2. fan.step = "checked" /\ fan.kind \in {"state", "ask"}
      BY <1>3, SMT DEF List, TypeOK
    <3>3. fan'.kind = fan.kind /\ fan'.from = fan.from /\ fan'.targets = Recipients
      BY <1>3, <2>2, <3>2, SMT DEF List, TypeOK
    <3> QED
      BY <3>1, <3>2, <3>3, Zenon DEF OverlaysOnlyAsk
  <2> QED
    BY <2>1, <2>2
<1>4. ASSUME NEW d \in Conns, Post(d) PROVE OverlaysOnlyAsk'
  <2>1. CASE fan.targets = {d}
    BY <1>4, <2>1, Zenon DEF Post, OverlaysOnlyAsk, NoFan
  <2>2. CASE fan.targets # {d}
    <3>1. fan' = [fan EXCEPT !.targets = @ \ {d}] /\ fan.step = "listed"
      BY <1>4, <2>2, Zenon DEF Post
    <3>2. /\ fan'.kind = fan.kind /\ fan'.from = fan.from
          /\ fan'.targets \subseteq fan.targets
      BY <3>1, SMT DEF TypeOK
    <3> QED
      BY <3>1, <3>2, SMT DEF OverlaysOnlyAsk
  <2> QED
    BY <2>1, <2>2
<1>5. CASE UNCHANGED fan
  BY <1>5, Zenon DEF OverlaysOnlyAsk
<1> QED
  BY <1>1, <1>2, <1>3, <1>4, <1>5, Zenon DEF Next, vars, Clear, Connect, OpenSocket, Leave,
     Disconnect, LoseDisconnect, Expire, Ping, Refresh, FailRefresh, Close, Delete, LoseDelete,
     Revoke, ListRevoked, Tick

\* No read-only page injects state into the room (messageHandler's read-only check),
\* although its row may be pruned, expire or be refreshed at any moment.
THEOREM OverlaysNeverInject == Spec => []OverlaysOnlyAsk
<1>1. Init => TypeOK /\ RowsTrue /\ Unlisted /\ OverlaysOnlyAsk
  BY InitTypeOK, InitRowsTrue, InitUnlisted, InitOverlaysOnlyAsk
<1>2. TypeOK /\ RowsTrue /\ Unlisted /\ OverlaysOnlyAsk /\ [Next]_vars =>
        (TypeOK /\ RowsTrue /\ Unlisted /\ OverlaysOnlyAsk)'
  BY StepTypeOK, StepRowsTrue, StepUnlisted, StepOverlaysOnlyAsk
<1> QED
  BY <1>1, <1>2, PTL DEF Spec

-----------------------------------------------------------------------------
(* The heartbeat keeps a row's age under the TTL.                          *)

Fresh(c) ==
    conn[c].quiet = 0 /\ conn[c].age = 0 /\ conn[c].trouble = 0 /\ conn[c].beat = "none"

\* Pinged, and the row not refreshed yet.
Beating(c) ==
    /\ conn[c].quiet = 0
    /\ IF conn[c].trouble = 0 THEN conn[c].age <= PingEvery
       ELSE conn[c].trouble = 1 /\ conn[c].age <= PingEvery + IdleMax

\* Between two pings: after a refresh, after a late one to come, or after a failed one.
Waiting(c) ==
    IF conn[c].trouble = 0 THEN conn[c].age <= conn[c].quiet /\ conn[c].quiet <= PingEvery
    ELSE /\ conn[c].trouble = 1
         /\ \/ conn[c].age <= conn[c].quiet /\ conn[c].quiet <= PingEvery + IdleMax
            \/ conn[c].age <= conn[c].quiet + PingEvery /\ conn[c].quiet <= PingEvery

\* The strengthening LiveSocketsAreListed needs of the heartbeat.
OnTime(c) ==
    /\ conn[c].phase \in {"new", "cleared", "joined"} => Fresh(c)
    /\ conn[c].phase = "open" => IF conn[c].beat = "row" THEN Beating(c) ELSE Waiting(c)

\* Nobody has a heartbeat to miss yet.
LEMMA InitOnTime == Init => \A c \in Conns : OnTime(c)
BY SMT DEF Init, OnTime, Fresh, Newcomer

\* A step of another connection, or of none, leaves this one's heartbeat alone.
LEMMA SameOnTime ==
    ASSUME NEW c \in Conns, OnTime(c), conn'[c] = conn[c]
    PROVE  OnTime(c)'
BY Zenon DEF OnTime, Fresh, Beating, Waiting

\* One ping late or failed between two that reach the row is what the TTL allows for.
LEMMA StepOnTime ==
    ASSUME TypeOK, [Next]_vars, NEW c \in Conns, OnTime(c), \A d \in Conns : IsOpen(d) => row[d].held
    PROVE  OnTime(c)'
<1> USE ClockAssumption
<1>t. conn[c] \in Connection /\ conn \in [Conns -> Connection]
  BY Zenon DEF TypeOK, Connection
<1>1. ASSUME NEW d \in Conns, Clear(d) PROVE OnTime(c)'
  <2>1. CASE d = c
    BY <1>1, <2>1, <1>t, SMT DEF Clear, OnTime, Fresh, Connection
  <2>2. CASE d # c
    BY <1>1, <2>2, <1>t, SameOnTime, SMT DEF Clear
  <2> QED
    BY <2>1, <2>2
<1>2. ASSUME NEW d \in Conns, Connect(d) PROVE OnTime(c)'
  <2>1. CASE d = c
    BY <1>2, <2>1, <1>t, SMT DEF Connect, OnTime, Fresh, Connection
  <2>2. CASE d # c
    BY <1>2, <2>2, <1>t, SameOnTime, SMT DEF Connect
  <2> QED
    BY <2>1, <2>2
<1>3. ASSUME NEW d \in Conns, OpenSocket(d) PROVE OnTime(c)'
  <2>1. CASE d = c
    <3>1. /\ conn'[c].quiet = 0 /\ conn'[c].age = 0 /\ conn'[c].trouble = 0
          /\ conn'[c].beat = "none" /\ conn'[c].phase = "open"
      BY <1>3, <2>1, <1>t, SMT DEF OpenSocket, OnTime, Fresh, Connection
    <3> QED
      BY <3>1, SMT DEF OnTime, Waiting
  <2>2. CASE d # c
    BY <1>3, <2>2, <1>t, SameOnTime, SMT DEF OpenSocket
  <2> QED
    BY <2>1, <2>2
<1>4. ASSUME NEW d \in Conns, conn' = [conn EXCEPT ![d].left = FALSE] PROVE OnTime(c)'
  <2>1. CASE d = c
    <3>1. /\ conn'[c].quiet = conn[c].quiet /\ conn'[c].age = conn[c].age
          /\ conn'[c].trouble = conn[c].trouble /\ conn'[c].beat = conn[c].beat
          /\ conn'[c].phase = conn[c].phase
      BY <1>4, <2>1, <1>t, SMT DEF Connection
    <3> QED
      BY <3>1, Zenon DEF OnTime, Fresh, Beating, Waiting
  <2>2. CASE d # c
    BY <1>4, <2>2, <1>t, SameOnTime, SMT
  <2> QED
    BY <2>1, <2>2
<1>5. ASSUME NEW d \in Conns, conn' = Ended(d) PROVE OnTime(c)'
  <2>1. CASE d = c
    <3>1. conn'[c].phase = "gone"
      BY <1>5, <2>1, <1>t, SMT DEF Ended, Newcomer, Connection
    <3> QED
      BY <3>1, SMT DEF OnTime
  <2>2. CASE d # c
    BY <1>5, <2>2, <1>t, SameOnTime, SMT DEF Ended
  <2> QED
    BY <2>1, <2>2
<1>6. ASSUME NEW d \in Conns, Ping(d) PROVE OnTime(c)'
  <2>1. CASE d = c
    <3>1. /\ conn'[c].quiet = 0 /\ conn'[c].age = conn[c].age
          /\ conn'[c].trouble = conn[c].trouble /\ conn'[c].beat = "row"
          /\ conn'[c].phase = "open" /\ conn[c].phase = "open"
      BY <1>6, <2>1, <1>t, SMT DEF Ping, IsOpen, Beats, Connection
    <3>2. conn[c].beat # "row" /\ Waiting(c)
      BY <1>6, <2>1, <3>1, SMT DEF Ping, OnTime
    <3>3. Beating(c)'
      BY <3>1, <3>2, <1>t, SMT DEF Waiting, Beating, Connection
    <3> QED
      BY <3>1, <3>3, SMT DEF OnTime
  <2>2. CASE d # c
    BY <1>6, <2>2, <1>t, SameOnTime, SMT DEF Ping
  <2> QED
    BY <2>1, <2>2
<1>7. ASSUME NEW d \in Conns, Refresh(d) PROVE OnTime(c)'
  <2>1. CASE d = c /\ conn[c].phase = "open"
    <3>1. CASE conn[c].beat = "row"
      <4>1. row'[c].held
        BY <1>7, <2>1, <3>1, SMT DEF Refresh, Refreshed, IsOpen, TypeOK
      <4>2. conn'[c] = [conn[c] EXCEPT !.beat = "item", !.age = 0, !.trouble = 0]
        BY <1>7, <2>1, <3>1, <4>1, <1>t, SMT DEF Refresh, Beats
      <4>3. /\ conn'[c].quiet = conn[c].quiet /\ conn'[c].age = 0 /\ conn'[c].trouble = 0
            /\ conn'[c].beat = "item" /\ conn'[c].phase = "open"
        BY <2>1, <4>2, <1>t, SMT DEF Connection
      <4>4. conn[c].quiet = 0
        BY <2>1, <3>1, SMT DEF OnTime, Beating
      <4> QED
        BY <4>3, <4>4, SMT DEF OnTime, Waiting
    <3>2. CASE conn[c].beat = "item"
      <4>1. conn'[c] = [conn[c] EXCEPT !.beat = "none"]
        BY <1>7, <2>1, <3>2, <1>t, SMT DEF Refresh, Beats
      <4>2. /\ conn'[c].quiet = conn[c].quiet /\ conn'[c].age = conn[c].age
            /\ conn'[c].trouble = conn[c].trouble /\ conn'[c].beat = "none"
            /\ conn'[c].phase = "open"
        BY <2>1, <4>1, <1>t, SMT DEF Connection
      <4>3. Waiting(c)
        BY <2>1, <3>2, SMT DEF OnTime
      <4> QED
        BY <4>2, <4>3, SMT DEF OnTime, Waiting
    <3> QED
      BY <1>7, <2>1, <3>1, <3>2, <1>t, SMT DEF Refresh, Connection
  <2>2. CASE d = c /\ conn[c].phase # "open"
    <3>1. conn[c].phase = "gone"
      BY <1>7, <2>2, <1>t, SMT DEF Refresh, OnTime, Fresh, Connection
    <3>2. conn'[c].phase = "gone"
      BY <1>7, <2>2, <3>1, <1>t, SMT DEF Refresh, Connection
    <3> QED
      BY <3>2, SMT DEF OnTime
  <2>3. CASE d # c
    BY <1>7, <2>3, <1>t, SameOnTime, SMT DEF Refresh
  <2> QED
    BY <2>1, <2>2, <2>3
<1>8. ASSUME NEW d \in Conns, FailRefresh(d) PROVE OnTime(c)'
  <2>1. CASE d = c
    <3>1. /\ conn'[c].quiet = conn[c].quiet /\ conn'[c].age = conn[c].age
          /\ conn'[c].beat = "none" /\ conn'[c].phase = conn[c].phase
          /\ conn'[c].trouble = conn[c].trouble + (IF conn[c].beat = "row" THEN 1 ELSE 0)
      BY <1>8, <2>1, <1>t, SMT DEF FailRefresh, Connection
    <3>2. conn[c].beat = "row" => conn[c].trouble = 0
      BY <1>8, <2>1, <1>t, SMT DEF FailRefresh, Connection
    <3>3. conn[c].beat # "none"
      BY <1>8, <2>1, SMT DEF FailRefresh
    <3> QED
      BY <3>1, <3>2, <3>3, <1>t, SMT DEF OnTime, Fresh, Beating, Waiting, Connection
  <2>2. CASE d # c
    BY <1>8, <2>2, <1>t, SameOnTime, SMT DEF FailRefresh
  <2> QED
    BY <2>1, <2>2
<1>9. ASSUME Tick PROVE OnTime(c)'
  <2>1. CASE IsOpen(c)
    <3>1. /\ conn'[c].quiet = conn[c].quiet + 1
          /\ conn'[c].age <= conn[c].age + 1
          /\ conn'[c].trouble = conn[c].trouble + (IF conn[c].quiet = PingEvery THEN 1 ELSE 0)
          /\ conn'[c].beat = conn[c].beat /\ conn'[c].phase = "open"
      <4> DEFINE after == [conn[c] EXCEPT !.quiet = @ + 1,
                                          !.trouble = IF conn[c].quiet = PingEvery THEN @ + 1 ELSE @,
                                          !.age = IF @ <= Ttl THEN @ + 1 ELSE @]
      <4>1. conn'[c] = after
        BY <1>9, <2>1, Zenon DEF Tick
      <4>2. /\ after.quiet = conn[c].quiet + 1
            /\ after.age = IF conn[c].age <= Ttl THEN conn[c].age + 1 ELSE conn[c].age
            /\ after.trouble = IF conn[c].quiet = PingEvery THEN conn[c].trouble + 1
                               ELSE conn[c].trouble
            /\ after.beat = conn[c].beat /\ after.phase = conn[c].phase
        BY <1>t, Zenon DEF Connection
      <4> HIDE DEF after
      <4> QED
        BY <2>1, <4>1, <4>2, <1>t, SMT DEF IsOpen, Connection
    <3>2. conn[c].beat = "none" /\ MayWait(c)
      BY <1>9, Zenon DEF Tick, Settled
    <3>3. Waiting(c)
      BY <2>1, <3>2, SMT DEF OnTime, IsOpen
    <3>4. conn'[c] \in Connection
      BY StepTypeOK, Zenon DEF TypeOK, Connection
    <3>5. Waiting(c)'
      BY <2>1, <3>1, <3>2, <3>3, <3>4, <1>t, SMT DEF Waiting, MayWait, IsDue, Connection
    <3> QED
      BY <3>1, <3>2, <3>5, SMT DEF OnTime
  <2>2. CASE ~IsOpen(c)
    <3>1. conn'[c] = conn[c]
      BY <1>9, <2>2, Zenon DEF Tick
    <3> QED
      BY <3>1, SameOnTime
  <2> QED
    BY <2>1, <2>2
<1>10. CASE UNCHANGED conn
  BY <1>10, SameOnTime
<1>11. \/ UNCHANGED conn \/ Tick
       \/ \E d \in Conns :
            \/ Clear(d) \/ Connect(d) \/ OpenSocket(d) \/ Ping(d) \/ Refresh(d) \/ FailRefresh(d)
            \/ conn' = Ended(d) \/ conn' = [conn EXCEPT ![d].left = FALSE]
  BY Zenon DEF Next, vars, Leave, Disconnect, LoseDisconnect, Expire, Close, Post, Send, Delete,
     LoseDelete, Revoke, Check, List, ListRevoked
<1> QED
  BY <1>1, <1>2, <1>3, <1>4, <1>5, <1>6, <1>7, <1>8, <1>9, <1>10, <1>11
-----------------------------------------------------------------------------
(* A live socket is listed.                                                *)

\* How a connection moves: its phases follow one another, it never comes back from
\* the last, and only the authorizer gives it a version.
LEMMA ConnSteps ==
    ASSUME TypeOK, [Next]_vars, NEW c \in Conns
    PROVE  /\ conn[c].phase = "gone" => conn'[c].phase = "gone"
           /\ conn'[c].left => conn[c].left \/ conn'[c].phase = "gone"
           /\ conn'[c].phase = "cleared" => conn[c].phase = "cleared" \/ Clear(c)
           /\ conn'[c].phase = "joined" => conn[c].phase \in {"cleared", "joined"}
           /\ conn'[c].phase = "joined" /\ conn[c].phase = "cleared" => Connect(c)
           /\ conn'[c].phase = "open" => conn[c].phase \in {"joined", "open"}
           /\ conn'[c].version = conn[c].version \/ Clear(c) \/ conn'[c].phase = "gone"
<1>t. conn[c] \in Connection /\ conn \in [Conns -> Connection]
  BY Zenon DEF TypeOK, Connection
<1>1. ASSUME NEW d \in Conns, Clear(d) \/ Connect(d) \/ OpenSocket(d)
      PROVE  conn'[c] = conn[c] \/ (d = c /\ conn'[c].version = conn[c].version) \/ Clear(c)
  BY <1>1, <1>t, SMT DEF Clear, Connect, OpenSocket, Connection
<1>2. CASE Clear(c)
  BY <1>2, <1>t, SMT DEF Clear, Connection
<1>3. CASE Connect(c)
  BY <1>3, <1>t, SMT DEF Connect, Connection
<1>4. CASE OpenSocket(c)
  BY <1>4, <1>t, SMT DEF OpenSocket, Connection
<1>5. ASSUME NEW d \in Conns, d # c, Clear(d) \/ Connect(d) \/ OpenSocket(d) PROVE conn'[c] = conn[c]
  BY <1>5, <1>t, SMT DEF Clear, Connect, OpenSocket
<1>6. ASSUME NEW d \in Conns, conn' = Ended(d) PROVE conn'[c] = conn[c] \/ conn'[c].phase = "gone"
  BY <1>6, <1>t, SMT DEF Ended, Newcomer
<1>7. ASSUME NEW d \in Conns, conn' = [conn EXCEPT ![d].left = FALSE]
      PROVE  conn'[c].phase = conn[c].phase /\ conn'[c].version = conn[c].version
             /\ (conn'[c].left => conn[c].left)
  BY <1>7, <1>t, SMT DEF Connection
<1>8. ASSUME NEW d \in Conns, Ping(d) \/ Refresh(d) \/ FailRefresh(d)
      PROVE  conn'[c].phase = conn[c].phase /\ conn'[c].version = conn[c].version
             /\ conn'[c].left = conn[c].left
  <2>1. CASE Ping(d)
    BY <2>1, <1>t, SMT DEF Ping, Connection
  <2>2. CASE Refresh(d)
    <3> DEFINE next == IF conn[d].beat = Beats[1] THEN Beats[2] ELSE "none"
    <3>1. \/ conn' = [conn EXCEPT ![d] = [@ EXCEPT !.beat = IF d \in item THEN next ELSE "none"]]
          \/ conn' = [conn EXCEPT ![d] = [@ EXCEPT !.beat = "none"]]
          \/ conn' = [conn EXCEPT ![d] = [@ EXCEPT !.beat = next, !.age = 0, !.trouble = 0]]
      BY <2>2, <1>t, Zenon DEF Refresh
    <3> HIDE DEF next
    <3>2. CASE d = c
      <4>1. \/ conn'[c] = [conn[c] EXCEPT !.beat = IF c \in item THEN next ELSE "none"]
            \/ conn'[c] = [conn[c] EXCEPT !.beat = "none"]
            \/ conn'[c] = [conn[c] EXCEPT !.beat = next, !.age = 0, !.trouble = 0]
        BY <3>1, <3>2, <1>t, Zenon
      <4> QED
        BY <4>1, <1>t, Zenon DEF Connection
    <3>3. CASE d # c
      BY <2>2, <3>3, <1>t, SMT DEF Refresh
    <3> QED
      BY <3>2, <3>3
  <2>3. CASE FailRefresh(d)
    BY <2>3, <1>t, SMT DEF FailRefresh, Connection
  <2> QED
    BY <1>8, <2>1, <2>2, <2>3
<1>9. ASSUME Tick
      PROVE  conn'[c].phase = conn[c].phase /\ conn'[c].version = conn[c].version
             /\ conn'[c].left = conn[c].left
  <2> DEFINE after == [conn[c] EXCEPT !.quiet = @ + 1,
                                      !.trouble = IF conn[c].quiet = PingEvery THEN @ + 1 ELSE @,
                                      !.age = IF @ <= Ttl THEN @ + 1 ELSE @]
  <2>1. conn'[c] = conn[c] \/ conn'[c] = after
    BY <1>9, Zenon DEF Tick
  <2>2. after.phase = conn[c].phase /\ after.version = conn[c].version /\ after.left = conn[c].left
    BY <1>t, Zenon DEF Connection
  <2> QED
    BY <2>1, <2>2
<1>10. \/ UNCHANGED conn \/ Tick
       \/ \E d \in Conns :
            \/ Clear(d) \/ Connect(d) \/ OpenSocket(d) \/ Ping(d) \/ Refresh(d) \/ FailRefresh(d)
            \/ conn' = Ended(d) \/ conn' = [conn EXCEPT ![d].left = FALSE]
  BY Zenon DEF Next, vars, Leave, Disconnect, LoseDisconnect, Expire, Close, Post, Send, Delete,
     LoseDelete, Revoke, Check, List, ListRevoked
<1>11. CASE conn'[c] = conn[c]
  BY <1>11
<1>12. CASE conn'[c].phase = conn[c].phase /\ conn'[c].version = conn[c].version
            /\ (conn'[c].left => conn[c].left)
  BY <1>12
<1> QED
  BY <1>2, <1>3, <1>4, <1>5, <1>6, <1>7, <1>8, <1>9, <1>10, <1>11, <1>12

\* The strengthening of LiveSocketsAreListed: the row is there from $connect on, and
\* a delete of it, or the event that leads to one, is of a connection that is over.
Listed ==
    /\ \A c \in Conns : conn[c].phase \in {"joined", "open"} => row[c].held
    /\ \A c \in Conns : <<c, "row">> \in deletes \/ conn[c].left => conn[c].phase = "gone"

\* Nobody is connected yet.
LEMMA InitListed == Init => Listed
BY SMT DEF Init, Listed, Newcomer

\* A delete is issued by a disconnect event or by a 410, for a connection that is over.
LEMMA NewDeletes ==
    ASSUME TypeOK, ~EarlyGone, [Next]_vars, NEW c \in Conns,
           <<c, "row">> \in deletes', <<c, "row">> \notin deletes
    PROVE  conn[c].left \/ conn[c].phase = "gone"
<1>1. \A d \in Conns : <<c, "row">> \in Removal(d) => d = c
  BY SMT DEF Removal
<1>2. \E d \in Conns : Disconnect(d) \/ Post(d) \/ Close(d)
  BY Zenon DEF Next, vars, Clear, Connect, OpenSocket, Leave, LoseDisconnect, Expire, Ping,
     Refresh, FailRefresh, Send, Delete, LoseDelete, Revoke, Check, List, ListRevoked, Tick
<1> QED
  BY <1>1, <1>2, Zenon DEF Disconnect, Post, Close, IsGone

\* A row in use is neither expired (OnTime) nor deleted (a delete is of a connection
\* that is over).
LEMMA StepListed ==
    ASSUME TypeOK, ~EarlyGone, Listed, \A c \in Conns : OnTime(c), [Next]_vars
    PROVE  Listed'
<1>1. ASSUME NEW c \in Conns, conn'[c].phase \in {"joined", "open"} PROVE row'[c].held
  <2>1. CASE conn[c].phase \in {"joined", "open"}
    <3>1. row[c].held
      BY <2>1, Zenon DEF Listed
    <3>2. ASSUME Expire(c) PROVE row' = row
      <4>1. conn[c].age <= Ttl /\ conn[c].phase # "gone"
        BY <2>1, ClockAssumption, SMT DEF OnTime, Fresh, Beating, Waiting, TypeOK
      <4>2. ~(conn[c].age > Ttl)
        BY <4>1, ClockAssumption, SMT DEF TypeOK
      <4> QED
        BY <3>2, <4>1, <4>2, Zenon DEF Expire
    <3>3. ASSUME NEW d \in Conns, d # c, Expire(d) PROVE row'[c] = row[c]
      BY <3>3, SMT DEF Expire, TypeOK
    <3>4. <<c, "row">> \notin deletes
      BY <2>1, SMT DEF Listed
    <3>5. ASSUME NEW d \in deletes, Delete(d) PROVE row'[c] = row[c]
      <4>1. d = <<d[1], d[2]>> /\ d[1] \in Conns
        BY SMT DEF TypeOK
      <4>2. d[2] # "row" \/ d[1] # c
        BY <3>4, <4>1
      <4> QED
        BY <3>5, <4>1, <4>2, SMT DEF Delete, TypeOK
    <3>6. ASSUME NEW d \in Conns, Connect(d) PROVE row'[c].held
      BY <3>6, <3>1, SMT DEF Connect, TypeOK
    <3>7. ASSUME NEW d \in Conns, Refresh(d) PROVE row'[c].held
      BY <3>7, <3>1, SMT DEF Refresh, Refreshed, TypeOK
    <3> QED
      BY <3>1, <3>2, <3>3, <3>5, <3>6, <3>7, Zenon DEF Next, vars, Clear, OpenSocket, Leave,
         Disconnect, LoseDisconnect, Ping, FailRefresh, Post, Close, Send, LoseDelete, Revoke,
         Check, List, ListRevoked, Tick
  <2>2. CASE conn[c].phase \notin {"joined", "open"}
    <3>1. Connect(c)
      BY <1>1, <2>2, ConnSteps, SMT
    <3> QED
      BY <3>1, SMT DEF Connect, TypeOK
  <2> QED
    BY <2>1, <2>2
<1>2. ASSUME NEW c \in Conns, <<c, "row">> \in deletes' PROVE conn'[c].phase = "gone"
  BY <1>2, NewDeletes, ConnSteps, Zenon DEF Listed
<1>3. ASSUME NEW c \in Conns, conn'[c].left PROVE conn'[c].phase = "gone"
  BY <1>3, ConnSteps, Zenon DEF Listed
<1> QED
  BY <1>1, <1>2, <1>3, Zenon DEF Listed

\* The inductive invariant of the theorem.
Kept == TypeOK /\ Listed /\ \A c \in Conns : OnTime(c)

\* The heartbeat is on time while the row is there, and the row is there while the
\* heartbeat is on time: neither is inductive alone.
LEMMA StepKept == ~EarlyGone /\ Kept /\ [Next]_vars => Kept'
<1> SUFFICES ASSUME ~EarlyGone, Kept, [Next]_vars PROVE Kept'
  OBVIOUS
<1>1. TypeOK /\ Listed /\ \A c \in Conns : OnTime(c)
  BY Zenon DEF Kept
<1>2. \A d \in Conns : IsOpen(d) => row[d].held
  BY <1>1, SMT DEF Listed, IsOpen
<1>3. ASSUME NEW c \in Conns PROVE OnTime(c)'
  BY <1>1, <1>2, StepOnTime, Zenon
<1>4. TypeOK'
  BY <1>1, StepTypeOK, Zenon
<1>5. Listed'
  BY <1>1, StepListed, Zenon
<1> QED
  BY <1>3, <1>4, <1>5, Zenon DEF Kept

\* Whatever the timing within ClockAssumption: while API Gateway answers 410 only for a
\* connection that is over, a live socket keeps the row the fan-out lists it by
\* (refreshConnectionTtl, removeConnection, the TTL).
THEOREM LiveSocketsStayListed == ~EarlyGone => (Spec => []LiveSocketsAreListed)
<1>1. Init => Kept
  BY InitTypeOK, InitListed, InitOnTime, Zenon DEF Kept
<1>2. Kept => LiveSocketsAreListed
  BY SMT DEF Kept, Listed, LiveSocketsAreListed, IsOpen
<1> SUFFICES ASSUME ~EarlyGone PROVE Spec => []LiveSocketsAreListed
  OBVIOUS
<1>3. Kept /\ [Next]_vars => Kept'
  BY StepKept
<1> QED
  BY <1>1, <1>2, <1>3, PTL DEF Spec
-----------------------------------------------------------------------------
(* A revoke that finished leaves no old credential connected.              *)

Current(c) == conn[c].version = version[Role(c)]

\* The revoke under way has this connection to close, or may fail to.
Doomed(c) ==
    /\ closing.role = Role(c)
    /\ \/ closing.step = "revoked"
       \/ closing.step = "closing" /\ (c \in closing.targets \/ closing.failed)

\* The strengthening of RevokedSocketsClose.
Gated ==
    /\ closing.step # "closing" => closing.targets = {}
    /\ \A c \in Conns : conn[c].phase \in {"cleared", "joined"} => Current(c)
    /\ \A c \in Conns : conn[c].phase = "open" => Current(c) \/ Doomed(c)

\* Nobody is connected and nothing is being revoked.
LEMMA InitGated == Init => Gated
BY SMT DEF Init, Gated, Newcomer, NoClosing

\* The lemmas below split a step by what it does to the versions and the revoke.
\* Nothing happens to either.
LEMMA StepGatedElsewhere ==
    ASSUME TypeOK, Gated, [Next]_vars, UNCHANGED <<version, closing>>
    PROVE  Gated'
<1>1. ASSUME NEW c \in Conns, conn'[c].phase \in {"cleared", "joined", "open"}
      PROVE  \/ Current(c)'
             \/ conn'[c].phase = "open" /\ Doomed(c)'
  <2>1. CASE Clear(c)
    BY <2>1, SMT DEF Clear, Current, TypeOK
  <2>2. CASE ~Clear(c)
    <3>1. conn'[c].version = conn[c].version
      BY <1>1, <2>2, ConnSteps
    <3>2. Current(c) \/ (conn[c].phase = "open" /\ Doomed(c))
      BY <1>1, <2>2, ConnSteps, SMT DEF Gated
    <3>3. conn[c].phase = "open" => conn'[c].phase = "open"
      BY <1>1, <2>2, ConnSteps, SMT
    <3> QED
      BY <3>1, <3>2, <3>3, Zenon DEF Current, Doomed
  <2> QED
    BY <2>1, <2>2
<1>2. closing'.step # "closing" => closing'.targets = {}
  BY Zenon DEF Gated
<1> QED
  BY <1>1, <1>2, SMT DEF Gated

\* A credential is revoked while nobody is in the middle of a handshake.
LEMMA StepGatedRevoke ==
    ASSUME TypeOK, Apart, Gated, NEW role \in Roles, Revoke(role)
    PROVE  Gated'
<1>1. /\ closing' = [NoClosing EXCEPT !.step = "revoked", !.role = role]
      /\ conn' = conn
  BY DEF Revoke
<1>2. closing'.step = "revoked" /\ closing'.role = role /\ closing'.targets = {}
  BY <1>1, SMT DEF NoClosing
<1>3. \A c \in Conns : conn[c].phase \notin {"cleared", "joined"}
  BY SMT DEF Revoke, IsHandshake
<1>4. ASSUME NEW c \in Conns, conn[c].phase = "open" PROVE Current(c)' \/ Doomed(c)'
  <2>1. CASE Role(c) = role
    BY <1>2, <2>1, Zenon DEF Doomed, Role
  <2>2. CASE Role(c) # role
    <3>1. ~Doomed(c)
      BY <2>2, SMT DEF Revoke, Doomed
    <3>2. Current(c)
      BY <1>4, <3>1, Zenon DEF Gated
    <3>3. version'[Role(c)] = version[Role(c)]
      BY <2>2, RoleType, SMT DEF Revoke, TypeOK
    <3> QED
      BY <1>1, <3>2, <3>3, Zenon DEF Current, Role
  <2> QED
    BY <2>1, <2>2
<1> QED
  BY <1>1, <1>2, <1>3, <1>4, SMT DEF Gated

\* The list of targets holds everyone on the old credential: each is in the table,
\* and its row says its role.
LEMMA StepGatedList ==
    ASSUME TypeOK, RowsTrue, LiveSocketsAreListed, Gated, ListRevoked
    PROVE  Gated'
<1> DEFINE targets == {c \in Conns : row[c].held /\ Matches(c, closing.role)}
<1>1. conn' = conn /\ version' = version /\ closing.step = "revoked"
      /\ closing' = IF targets = {} THEN NoClosing
                    ELSE [closing EXCEPT !.step = "closing", !.targets = targets]
  BY Zenon DEF ListRevoked
<1>2. ASSUME NEW c \in Conns, conn[c].phase = "open", closing.role = Role(c) PROVE c \in targets
  <2>1. row[c].held
    BY <1>2, Zenon DEF LiveSocketsAreListed, IsOpen
  <2>2. row[c].readOnly <=> c \in Overlays
    BY <2>1, Zenon DEF RowsTrue
  <2>3. row[c].readOnly \in BOOLEAN
    BY SMT DEF TypeOK
  <2>4. Matches(c, closing.role)
    BY <1>2, <2>2, <2>3, SMT DEF Matches, Role
  <2> QED
    BY <2>1, <2>4
<1> HIDE DEF targets
<1>3. ASSUME NEW c \in Conns, conn[c].phase = "open", Doomed(c) PROVE Doomed(c)'
  <2>1. c \in targets
    BY <1>2, <1>3, Zenon DEF Doomed
  <2>2. closing' = [closing EXCEPT !.step = "closing", !.targets = targets]
    BY <1>1, <2>1
  <2>3. closing'.step = "closing" /\ closing'.targets = targets /\ closing'.role = closing.role
    BY <2>2, SMT DEF TypeOK
  <2> QED
    BY <1>3, <2>1, <2>3, Zenon DEF Doomed, Role
<1>4. closing'.step # "closing" => closing'.targets = {}
  BY <1>1, SMT DEF TypeOK, NoClosing
<1>5. ASSUME NEW c \in Conns, Current(c) PROVE Current(c)'
  BY <1>1, <1>5, Zenon DEF Current, Role
<1> QED
  BY <1>1, <1>3, <1>4, <1>5, Zenon DEF Gated

\* A target leaves the list closed, gone, or with the revoke marked as failed.
LEMMA StepGatedClose ==
    ASSUME TypeOK, ~EarlyGone, Gated, [Next]_vars, NEW d \in Conns, Close(d)
    PROVE  Gated'
<1>1. closing.step = "closing" /\ d \in closing.targets /\ version' = version
  BY Zenon DEF Close, Gated
<1>2. PICK failed \in BOOLEAN : closing' = Done(d, failed) /\ (failed \/ conn'[d].phase = "gone")
  <2>1. CASE IsOpen(d) /\ conn' = Ended(d) /\ closing' = Done(d, FALSE)
    <3>1. conn'[d].phase = "gone"
      BY <2>1, SMT DEF Ended, Newcomer, TypeOK
    <3> QED
      BY <2>1, <3>1
  <2>2. CASE IsGone(d) /\ conn' = conn /\ closing' = Done(d, FALSE)
    BY <2>2, Zenon DEF IsGone
  <2>3. CASE closing' = Done(d, TRUE)
    BY <2>3
  <2> QED
    BY <2>1, <2>2, <2>3, Zenon DEF Close
<1> DEFINE after == [closing EXCEPT !.targets = @ \ {d}, !.failed = @ \/ failed]
<1>3. closing' = IF after.targets = {} /\ ~after.failed THEN NoClosing ELSE after
  BY <1>2, Zenon DEF Done
<1>4. /\ after.step = "closing" /\ after.role = closing.role
      /\ after.targets = closing.targets \ {d} /\ (after.failed <=> closing.failed \/ failed)
  BY <1>1, Zenon DEF TypeOK
<1> HIDE DEF after
<1>5. ASSUME NEW c \in Conns, conn'[c].phase = "open", Doomed(c) PROVE Doomed(c)'
  <2>1. closing.role = Role(c) /\ (c \in closing.targets \/ closing.failed)
    BY <1>1, <1>5, SMT DEF Doomed
  <2>2. c = d => failed
    BY <1>2, <1>5
  <2>3. c \in after.targets \/ after.failed
    BY <1>4, <2>1, <2>2, Zenon
  <2>4. closing' = after
    BY <1>3, <2>3, Zenon
  <2> QED
    BY <1>4, <2>1, <2>3, <2>4, Zenon DEF Doomed, Role
<1>6. closing'.step # "closing" => closing'.targets = {}
  BY <1>3, <1>4, SMT DEF NoClosing
<1>7. ASSUME NEW c \in Conns, conn'[c].phase \in {"cleared", "joined", "open"}
      PROVE  /\ conn[c].phase = "open" \/ (conn[c].phase \in {"cleared", "joined"} /\ Current(c)')
             /\ Current(c) => Current(c)'
             /\ conn[c].phase = "open" => conn'[c].phase = "open"
  <2>1. ~Clear(c)
    <3>1. d \notin closing'.targets
      BY <1>3, <1>4, SMT DEF NoClosing
    <3> QED
      BY <1>1, <3>1, Zenon DEF Clear
  <2>2. conn'[c].version = conn[c].version
    BY <1>7, <2>1, ConnSteps, SMT
  <2>3. Current(c) => Current(c)'
    BY <1>1, <2>2, Zenon DEF Current, Role
  <2>4. conn[c].phase \in {"cleared", "joined", "open"}
    BY <1>7, <2>1, ConnSteps, SMT
  <2>5. conn[c].phase = "open" => conn'[c].phase = "open"
    BY <1>7, <2>1, ConnSteps, SMT
  <2> QED
    BY <2>3, <2>4, <2>5, SMT DEF Gated
<1>8. ASSUME NEW c \in Conns, conn'[c].phase = "open" PROVE Current(c)' \/ Doomed(c)'
  BY <1>5, <1>7, <1>8, Zenon DEF Gated
<1>9. ASSUME NEW c \in Conns, conn'[c].phase \in {"cleared", "joined"} PROVE Current(c)'
  BY <1>7, <1>9, SMT
<1> QED
  BY <1>6, <1>8, <1>9, Zenon DEF Gated

\* No step leaves an old credential neither doomed nor closed.
LEMMA StepGated ==
    ASSUME TypeOK, Apart, ~EarlyGone, RowsTrue, LiveSocketsAreListed, Gated, [Next]_vars
    PROVE  Gated'
<1>1. CASE UNCHANGED <<version, closing>>
  BY <1>1, StepGatedElsewhere
<1>2. ASSUME NEW role \in Roles, Revoke(role) PROVE Gated'
  BY <1>2, StepGatedRevoke
<1>3. CASE ListRevoked
  BY <1>3, StepGatedList
<1>4. ASSUME NEW c \in Conns, Close(c) PROVE Gated'
  BY <1>4, StepGatedClose
<1>5. \/ UNCHANGED <<version, closing>>
      \/ \E role \in Roles : Revoke(role)
      \/ ListRevoked
      \/ \E c \in Conns : Close(c)
  BY Zenon DEF Next, vars, Clear, Connect, OpenSocket, Leave, Disconnect, LoseDisconnect, Expire,
     Ping, Refresh, FailRefresh, Post, Send, Delete, LoseDelete, Check, List, Tick
<1> QED
  BY <1>1, <1>2, <1>3, <1>4, <1>5

\* When no handshake is under way at the revoke and a 410 means a connection that is
\* over, a revoke whose closes all came through (disconnectSession) leaves only
\* current credentials on the relay.
THEOREM RevokesClose == Apart /\ ~EarlyGone => (Spec => []RevokedSocketsClose)
<1> SUFFICES ASSUME Apart, ~EarlyGone PROVE Spec => []RevokedSocketsClose
  OBVIOUS
<1>1. Init => Kept /\ RowsTrue /\ Gated
  BY InitTypeOK, InitListed, InitOnTime, InitRowsTrue, InitGated, Zenon DEF Kept
<1>2. Kept /\ RowsTrue /\ Gated /\ [Next]_vars => (Kept /\ RowsTrue /\ Gated)'
  <2>1. Kept => TypeOK /\ LiveSocketsAreListed
    BY SMT DEF Kept, Listed, LiveSocketsAreListed, IsOpen
  <2> QED
    BY <2>1, StepKept, StepRowsTrue, StepGated
<1>3. Gated => RevokedSocketsClose
  BY SMT DEF Gated, RevokedSocketsClose, Doomed, Current, IsOpen
<1> QED
  BY <1>1, <1>2, <1>3, PTL DEF Spec
=============================================================================
