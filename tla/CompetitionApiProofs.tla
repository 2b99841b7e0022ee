------------------------ MODULE CompetitionApiProofs ------------------------
(***************************************************************************)
(* What the competition server keeps whatever its requests do between each *)
(* other's calls: an identifier names one match, a stored winner is one of *)
(* the match's athletes, one organiser leaves one row in a position, and a *)
(* re-run advance takes no result away.                                    *)
(***************************************************************************)
EXTENDS CompetitionApi, TLAPS, FiniteSetTheorems, WellFoundedInduction

-----------------------------------------------------------------------------
(* The shapes of the state.                                                 *)

SameSlot(m, n) == m.round = n.round /\ m.pos = n.pos

\* The rows of one write: a few, told apart by the order they are written in.
RowsFit(rows) ==
    /\ IsFiniteSet(rows)
    /\ \A p \in rows : /\ p = Row(p.round, p.pos, p.a1, p.a2)
                        /\ p.round \in Rounds
                        /\ WriteOrder(p) \in Nat
    /\ \A p, q \in rows : WriteOrder(p) = WriteOrder(q) => p = q

IsWrite(r) ==
    /\ r.at \in {"create", "upsert", "drop"}
    /\ IsItem(r.item)
    /\ \/ r = Creating(r.item)
       \/ r.at = "upsert" /\ r = [at |-> "upsert", old |-> r.old, item |-> r.item]
       \/ r = Dropping(r.item)

IsScoring(r) ==
    r.at = "score" /\ r = [at |-> "score", athlete |-> r.athlete, mark |-> r.mark]

IsEntry(r) ==
    /\ r.at = "entry"
    /\ r = [at |-> "entry", rows |-> r.rows, stage |-> r.stage, force |-> r.force]
    /\ RowsFit(r.rows)
    /\ \A p \in r.rows : p.round = r.stage

\* The rounds a re-run has still to list are the last ones its rows lie in.
IsDownstream(r) ==
    /\ r.at = "downstream"
    /\ r = [at |-> "downstream", rows |-> r.rows, todo |-> r.todo,
            existing |-> r.existing, force |-> r.force]
    /\ RowsFit(r.rows)
    /\ \A m \in r.existing : IsMatch(m) /\ m.kind = "match"
    /\ \/ /\ r.todo = <<"half">> /\ r.existing = {}
          /\ \A p \in r.rows : p.round = "half"
       \/ /\ r.todo = <<"final", "small_final">> /\ r.existing = {}
          /\ \A p \in r.rows : p.round \in {"final", "small_final"}
       \/ /\ r.todo = <<"small_final">>
          /\ \A p \in r.rows : p.round \in {"final", "small_final"}
          /\ \A m \in r.existing : m.round = "final"

IsBracket(r) ==
    /\ r.at = "bracket"
    /\ r = [at |-> "bracket", items |-> r.items, request |-> r.request]
    /\ \A t \in r.items : IsMatch(t) /\ t.kind = "match" /\ t.round \in Rounds
    /\ \A s, t \in r.items : SameSlot(s, t) => s = t

IsRequest(r) ==
    \/ r = Idle
    \/ IsWrite(r)
    \/ IsScoring(r)
    \/ r.at = "check" /\ r = Checking(r.todo, r.then)
         /\ (IsWrite(r.then) \/ IsScoring(r.then))
    \/ r.at = "rank" /\ r.override \in Overrides
         /\ r = [at |-> "rank", listed |-> r.listed, override |-> r.override, force |-> r.force]
    \/ IsEntry(r)
    \/ IsDownstream(r)
    \/ IsBracket(r)
    \/ r.at = "queries"
         /\ r = [at |-> "queries", athlete |-> r.athlete, todo |-> r.todo, hit |-> r.hit,
                 bound |-> r.bound]
    \/ r.at = "remove"
         /\ r = [at |-> "remove", athlete |-> r.athlete, bound |-> r.bound]

TypeOK ==
    /\ \A i \in table : IsItem(i)
    /\ minted = [ids |-> minted.ids, athletes |-> minted.athletes] /\ minted.ids \in Nat
    /\ req = [c \in Clients |-> req[c]] /\ \A c \in Clients : IsRequest(req[c])
    /\ view = [c \in Clients |-> view[c]]
    /\ \A c \in Clients : \A m \in view[c] : m.kind = "match" /\ IsMatch(m)
    /\ spent \in [Clients -> Nat]

-----------------------------------------------------------------------------
(* The matches that may still be written.                                   *)

\* The call that is left once the athletes are looked up.
Pending(r) == IF r.at = "check" THEN r.then ELSE r

\* What a request has in hand.
Holds(r) ==
    IF r.at \in {"create", "upsert", "drop"} THEN {r.item}
    ELSE IF r.at = "bracket" THEN r.items
    ELSE IF r.at = "downstream" THEN r.existing ELSE {}

Known ==
    {m \in table \union UNION {Holds(Pending(req[c])) \union view[c] : c \in Clients} :
        m.kind = "match"}

Sound(m) == m.win \in {m.a1, m.a2, None}

\* Every match anyone knows has an identifier given out before, one slot for
\* each identifier and no winner but its own athletes.
KnownFit ==
    /\ \A m \in Known : m.id \in 1..minted.ids /\ Sound(m)
    /\ \A m, n \in Known : m.id = n.id => SameSlot(m, n)

\* One item under one key.
KeysAreOne == \A i, j \in table : Key(i) = Key(j) => i = j

MatchInv == TypeOK /\ KnownFit /\ KeysAreOne

\* A stored winner is one of the match's athletes.
StoredWinnerContends == \A m \in Matches : m.win \in Contenders(m) \union {None}

\* An identifier names one match.
OneMatchPerId == \A m, n \in Matches : m.id = n.id => m = n

-----------------------------------------------------------------------------
(* One organiser.                                                           *)

Organises(c) == May[c] \intersect {"seed", "forceSeed", "advance", "forceAdvance"} # {}

\* No two organisers work side by side, and no match is posted into the bracket.
OneOrganiser ==
    /\ \A shift \in Shifts : \A c, d \in shift.clients :
        Organises(c) /\ Organises(d) => c = d
    /\ PostRounds \intersect Rounds = {}

\* A client with a request in flight or still to come.
Active(c) == req[c] # Idle \/ spent[c] < Budget[c]

Organising == {"rank", "entry", "downstream", "bracket"}

OrganiserInv ==
    /\ \A c, d \in Clients :
        Organises(c) /\ Organises(d) /\ Active(c) /\ Active(d) => c = d
    /\ \A c \in Clients : req[c].at \in Organising => Organises(c)

\* No write but the bracket's gives a bracket position a match.
WriteFits(r) ==
    /\ r.at = "create" /\ r.item.kind = "match" => r.item.round \notin Rounds
    /\ r.at = "upsert" /\ r.item.kind = "match" => r.old = Key(r.item)

WritesFit == \A c \in Clients : WriteFits(Pending(req[c]))

\* What was read of a round names every row the round has had since.
ReadFits(r) ==
    /\ r.at = "downstream" =>
        /\ \A m, n \in r.existing : SameSlot(m, n) => m = n
        /\ r.todo = <<"small_final">> =>
            \A m \in Matches : m.round = "final" =>
                \E n \in r.existing : n.id = m.id /\ SameSlot(m, n)
    /\ r.at = "bracket" => \A m \in Matches, t \in r.items : SameSlot(m, t) => m.id = t.id

ReadsFit == \A c \in Clients : ReadFits(req[c])

SlotInv == MatchInv /\ OrganiserInv /\ WritesFit /\ ReadsFit /\ OneRowPerSlot

-----------------------------------------------------------------------------
(* One client at a time.                                                    *)

OneClient == \A shift \in Shifts : \A c, d \in shift.clients : c = d

\* A re-run listed the rounds as they stand, and writes back the winner of every
\* pair that stays.
Reruns(r) == r.at = "downstream" \/ (r.at = "bracket" /\ r.request = "advance")

RerunFits(r) ==
    /\ r.at = "downstream" => r.existing \subseteq Matches
    /\ r.at = "bracket" /\ r.request = "advance" =>
        \A m \in Matches, t \in r.items :
            Key(m) = Key(t) /\ m.a1 = t.a1 /\ m.a2 = t.a2 => t.win = m.win

AloneInv ==
    /\ MatchInv
    /\ \A c, d \in Clients : Active(c) /\ Active(d) => c = d
    /\ \A c \in Clients : RerunFits(req[c])


-----------------------------------------------------------------------------
(* Keys, slots and identifiers.                                             *)

\* The kind is part of a key; a match's key is its round and its identifier.
LEMMA KeyNames ==
    ASSUME NEW i, NEW j, IsItem(i), IsItem(j), Key(i) = Key(j)
    PROVE  /\ i.kind = j.kind
           /\ i.kind = "match" => i.id = j.id /\ i.round = j.round
<1>1. /\ i.kind = "match" => Key(i) = <<"match", i.round, i.id>>
      /\ j.kind = "match" => Key(j) = <<"match", j.round, j.id>>
    BY DEF Key
<1>2. Key(i)[1] = i.kind
    BY DEF Key, IsItem
<1>3. Key(j)[1] = j.kind
    BY DEF Key, IsItem
<1>4. i.kind = j.kind
    BY <1>2, <1>3
<1>5. ASSUME i.kind = "match" PROVE i.id = j.id /\ i.round = j.round
    <2>1. <<"match", i.round, i.id>> = <<"match", j.round, j.id>>
        BY <1>1, <1>4, <1>5
    <2> QED
        BY <2>1
<1> QED
    BY <1>4, <1>5

LEMMA MatchKeys ==
    ASSUME NEW i, NEW j, i.kind = "match", j.kind = "match",
           i.id = j.id, i.round = j.round
    PROVE  Key(i) = Key(j)
BY DEF Key

LEMMA MatchFields ==
    ASSUME NEW id, NEW row, NEW win
    PROVE  LET m == MatchItem(id, row, win)
           IN  /\ m.kind = "match" /\ m.id = id /\ m.win = win
               /\ m.round = row.round /\ m.pos = row.pos
               /\ m.a1 = row.a1 /\ m.a2 = row.a2
               /\ IsMatch(m) /\ IsItem(m)
BY DEF MatchItem, IsMatch, IsItem, Row

\* Of some matches with bounded identifiers one has the largest.
LEMMA LargestId ==
    ASSUME NEW here, here # {}, NEW bound \in Nat,
           \A m \in here : m.id \in 1..bound
    PROVE  \E m \in here : \A n \in here : n.id <= m.id
<1> DEFINE above == {k \in Nat : \A m \in here : m.id <= k}
<1>1. above \subseteq Nat /\ bound \in above
    OBVIOUS
<1>2. \E k \in above : \A l \in above : ~ (<<l, k>> \in OpToRel(<, Nat))
    <2>1. above # {}
        BY <1>1
    <2> HIDE DEF above
    <2> QED
        BY <1>1, <2>1, NatLessThanWellFounded, WFMin
<1>3. PICK k \in above : \A l \in above : ~ (<<l, k>> \in OpToRel(<, Nat))
    BY <1>2
<1>4. \A l \in above : ~ (l < k)
    BY <1>1, <1>3 DEF OpToRel
<1>5. SUFFICES ASSUME \A m \in here : m.id # k PROVE FALSE
    BY <1>1
<1>6. \A m \in here : m.id < k /\ m.id >= 1
    BY <1>5, <1>1
<1>7. k >= 1
    BY <1>6, <1>1
<1>8. k - 1 \in above
    BY <1>6, <1>7, <1>1
<1> QED
    BY <1>4, <1>8, <1>1

\* A position keeps the identifier of one of its rows.
LEMMA HeldIsOne ==
    ASSUME NEW existing, NEW bound \in Nat, NEW row,
           \A m \in existing : m.id \in 1..bound
    PROVE  \/ /\ HeldAt(existing, row) = {}
              /\ \A m \in existing : ~ SameSlot(m, row)
           \/ \E h \in existing : HeldAt(existing, row) = {h} /\ SameSlot(h, row)
<1> DEFINE here == {m \in existing : m.round = row.round /\ m.pos = row.pos}
<1>1. CASE here = {}
    BY <1>1 DEF HeldAt, SameSlot
<1>2. CASE here # {}
    <2> DEFINE h == CHOOSE m \in here : \A n \in here : n.id <= m.id
    <2>1. \E m \in here : \A n \in here : n.id <= m.id
        <3>1. \A m \in here : m.id \in 1..bound
            OBVIOUS
        <3> HIDE DEF here
        <3> QED
            BY <3>1, <1>2, LargestId
    <2>2. h \in here
        <3> HIDE DEF here
        <3> QED
            BY <2>1
    <2>3. HeldAt(existing, row) = {h}
        BY <1>2 DEF HeldAt
    <2> HIDE DEF h
    <2> QED
        BY <2>2, <2>3 DEF SameSlot
<1> QED
    BY <1>1, <1>2

-----------------------------------------------------------------------------
(* What a build gives out.                                                  *)

LEMMA FreshIds ==
    ASSUME minted.ids \in Nat, NEW existing, NEW rows, RowsFit(rows),
           \A m \in existing : m.id \in 1..minted.ids
    PROVE  LET fresh == Fresh(existing, rows)
           IN  /\ Cardinality(fresh) \in Nat
               /\ \A p \in fresh :
                    IdOf(existing, rows, p) \in
                        (minted.ids + 1)..(minted.ids + Cardinality(fresh))
               /\ \A p, q \in fresh :
                    IdOf(existing, rows, p) = IdOf(existing, rows, q) => p = q
<1> DEFINE fresh == Fresh(existing, rows)
           upto(p) == {r \in fresh : WriteOrder(r) <= WriteOrder(p)}
<1>1. fresh \subseteq rows
    BY DEF Fresh
<1>2. IsFiniteSet(fresh) /\ Cardinality(fresh) \in Nat
    BY <1>1, FS_Subset, FS_CardinalityType DEF RowsFit
<1>3. \A p \in fresh : WriteOrder(p) \in Nat
    BY <1>1 DEF RowsFit
<1>4. \A p, q \in fresh : WriteOrder(p) = WriteOrder(q) => p = q
    BY <1>1 DEF RowsFit
<1>5. \A p \in fresh : IdOf(existing, rows, p) = minted.ids + Cardinality(upto(p))
    BY DEF IdOf
<1>6. ASSUME NEW p \in fresh
      PROVE  /\ IsFiniteSet(upto(p)) /\ p \in upto(p)
             /\ Cardinality(upto(p)) \in 1..Cardinality(fresh)
    <2>1. upto(p) \in SUBSET fresh /\ p \in upto(p)
        BY <1>3
    <2> HIDE DEF upto
    <2>2. IsFiniteSet(upto(p)) /\ Cardinality(upto(p)) <= Cardinality(fresh)
        BY <2>1, <1>2, FS_Subset
    <2>3. Cardinality(upto(p)) \in Nat /\ Cardinality(upto(p)) # 0
        BY <2>1, <2>2, FS_CardinalityType, FS_EmptySet
    <2> QED
        BY <2>1, <2>2, <2>3, <1>2
<1>7. ASSUME NEW p \in fresh, NEW q \in fresh, WriteOrder(p) < WriteOrder(q)
      PROVE  Cardinality(upto(p)) # Cardinality(upto(q))
    <2>1. upto(p) \in SUBSET upto(q) /\ q \notin upto(p) /\ q \in upto(q)
        BY <1>7, <1>3
    <2>2. IsFiniteSet(upto(q))
        BY <1>6
    <2> HIDE DEF upto
    <2> QED
        BY <2>1, <2>2, FS_Subset
<1>8. ASSUME NEW p \in fresh, NEW q \in fresh, p # q
      PROVE  IdOf(existing, rows, p) # IdOf(existing, rows, q)
    <2>1. WriteOrder(p) < WriteOrder(q) \/ WriteOrder(q) < WriteOrder(p)
        BY <1>3, <1>4, <1>8
    <2>2. Cardinality(upto(p)) # Cardinality(upto(q))
        BY <2>1, <1>7
    <2>3. Cardinality(upto(p)) \in Nat /\ Cardinality(upto(q)) \in Nat
        BY <1>6, <1>2
    <2>4. /\ IdOf(existing, rows, p) = minted.ids + Cardinality(upto(p))
          /\ IdOf(existing, rows, q) = minted.ids + Cardinality(upto(q))
        BY <1>5
    <2> HIDE DEF upto, fresh
    <2> QED
        BY <2>2, <2>3, <2>4
<1>9. \A p \in fresh : IdOf(existing, rows, p) \in
                        (minted.ids + 1)..(minted.ids + Cardinality(fresh))
    <2> SUFFICES ASSUME NEW p \in fresh
                 PROVE  IdOf(existing, rows, p) \in
                            (minted.ids + 1)..(minted.ids + Cardinality(fresh))
        OBVIOUS
    <2>1. IdOf(existing, rows, p) = minted.ids + Cardinality(upto(p))
        BY <1>5
    <2>2. Cardinality(upto(p)) \in 1..Cardinality(fresh)
        BY <1>6
    <2> HIDE DEF upto, fresh
    <2> QED
        BY <2>1, <2>2, <1>2
<1> HIDE DEF upto
<1> QED
    BY <1>2, <1>8, <1>9

\* A row that is not fresh has the identifier of a row of its position.
LEMMA HeldIds ==
    ASSUME minted.ids \in Nat, NEW existing, NEW rows,
           \A m \in existing : m.id \in 1..minted.ids
    PROVE  /\ \A p \in rows \ Fresh(existing, rows) : \E h \in existing :
                /\ HeldAt(existing, p) = {h} /\ SameSlot(h, p)
                /\ IdOf(existing, rows, p) = h.id
           /\ \A p \in Fresh(existing, rows), m \in existing : ~ SameSlot(m, p)
<1>1. ASSUME NEW p \in rows
      PROVE  \/ /\ HeldAt(existing, p) = {}
                /\ \A m \in existing : ~ SameSlot(m, p)
             \/ \E h \in existing : HeldAt(existing, p) = {h} /\ SameSlot(h, p)
    BY HeldIsOne
<1>2. ASSUME NEW p \in rows \ Fresh(existing, rows)
      PROVE  \E h \in existing :
                /\ HeldAt(existing, p) = {h} /\ SameSlot(h, p)
                /\ IdOf(existing, rows, p) = h.id
    <2>1. HeldAt(existing, p) # {}
        BY DEF Fresh
    <2>2. PICK h \in existing : HeldAt(existing, p) = {h} /\ SameSlot(h, p)
        BY <1>1, <2>1
    <2>3. IdOf(existing, rows, p) = h.id
        BY <2>2, <1>2 DEF IdOf
    <2> QED
        BY <2>2, <2>3
<1>3. ASSUME NEW p \in Fresh(existing, rows), NEW m \in existing
      PROVE  ~ SameSlot(m, p)
    <2>1. p \in rows /\ HeldAt(existing, p) = {}
        BY DEF Fresh
    <2> QED
        BY <1>1, <2>1
<1> QED
    BY <1>2, <1>3

\* The matches of a write: each with its own slot and its own identifier, either
\* new or the one its slot had.
LEMMA BuiltMatches ==
    ASSUME minted.ids \in Nat, NEW existing, NEW rows, NEW win, RowsFit(rows),
           \A m \in existing : m.id \in 1..minted.ids,
           \A m, n \in existing : m.id = n.id => SameSlot(m, n)
    PROVE  LET items == Identified(existing, rows, win)
           IN  /\ \A t \in items : /\ t.kind = "match" /\ IsMatch(t)
                                   /\ \E p \in rows : SameSlot(t, p) /\ t.win = win[p]
                                        /\ t.a1 = p.a1 /\ t.a2 = p.a2
                                        /\ t.id = IdOf(existing, rows, p)
               /\ \A s, t \in items : SameSlot(s, t) => s = t
               /\ \A s, t \in items : s.id = t.id => s = t
               /\ \A t \in items :
                    \/ t.id \in (minted.ids + 1)..
                                    (minted.ids + Cardinality(Fresh(existing, rows)))
                    \/ \E h \in existing : h.id = t.id /\ SameSlot(h, t)
<1> DEFINE items == Identified(existing, rows, win)
           Id(p) == IdOf(existing, rows, p)
           fresh == Fresh(existing, rows)
<1>1. \A t \in items : \E p \in rows : t = MatchItem(Id(p), p, win[p])
    BY DEF Identified
<1>2. /\ \A p \in fresh : Id(p) \in (minted.ids + 1)..(minted.ids + Cardinality(fresh))
      /\ \A p, q \in fresh : Id(p) = Id(q) => p = q
      /\ Cardinality(fresh) \in Nat
    BY FreshIds
<1>3. \A p \in rows \ fresh : \E h \in existing :
        HeldAt(existing, p) = {h} /\ SameSlot(h, p) /\ Id(p) = h.id
    BY HeldIds
<1>4. \A p, q \in rows : SameSlot(p, q) => p = q
    BY DEF SameSlot, RowsFit, WriteOrder
<1> HIDE DEF items, Id, fresh
<1>5. ASSUME NEW p \in rows, NEW q \in rows, Id(p) = Id(q) PROVE p = q
    <2>1. CASE p \in fresh /\ q \in fresh
        BY <2>1, <1>2, <1>5
    <2>2. CASE p \notin fresh /\ q \notin fresh
        BY <2>2, <1>3, <1>4, <1>5 DEF SameSlot
    <2>3. CASE p \in fresh /\ q \notin fresh
        BY <2>3, <1>2, <1>3, <1>5
    <2>4. CASE p \notin fresh /\ q \in fresh
        BY <2>4, <1>2, <1>3, <1>5
    <2> QED
        BY <2>1, <2>2, <2>3, <2>4
<1>6. ASSUME NEW t \in items
      PROVE  /\ t.kind = "match" /\ IsMatch(t)
             /\ \E p \in rows : /\ t = MatchItem(Id(p), p, win[p])
                                /\ SameSlot(t, p) /\ t.win = win[p]
                                /\ t.a1 = p.a1 /\ t.a2 = p.a2 /\ t.id = Id(p)
    <2>1. PICK p \in rows : t = MatchItem(Id(p), p, win[p])
        BY <1>1
    <2>2. LET m == MatchItem(Id(p), p, win[p])
           IN  /\ m.kind = "match" /\ m.id = Id(p) /\ m.win = win[p]
               /\ m.round = p.round /\ m.pos = p.pos
               /\ m.a1 = p.a1 /\ m.a2 = p.a2
               /\ IsMatch(m) /\ IsItem(m)
        BY MatchFields
    <2> QED
        BY <2>1, <2>2 DEF SameSlot
<1>7. ASSUME NEW s \in items, NEW t \in items, SameSlot(s, t) \/ s.id = t.id PROVE s = t
    <2>1. PICK p \in rows : s = MatchItem(Id(p), p, win[p]) /\ SameSlot(s, p) /\ s.id = Id(p)
        BY <1>6
    <2>2. PICK q \in rows : t = MatchItem(Id(q), q, win[q]) /\ SameSlot(t, q) /\ t.id = Id(q)
        BY <1>6
    <2>3. p = q
        BY <2>1, <2>2, <1>7, <1>4, <1>5 DEF SameSlot
    <2> QED
        BY <2>1, <2>2, <2>3
<1>8. ASSUME NEW t \in items
      PROVE  \/ t.id \in (minted.ids + 1)..(minted.ids + Cardinality(fresh))
             \/ \E h \in existing : h.id = t.id /\ SameSlot(h, t)
    <2>1. PICK p \in rows : SameSlot(t, p) /\ t.id = Id(p)
        BY <1>6
    <2>2. CASE p \in fresh
        BY <2>1, <2>2, <1>2
    <2>3. CASE p \notin fresh
        BY <2>1, <2>3, <1>3 DEF SameSlot
    <2> QED
        BY <2>2, <2>3
<1> QED
    BY <1>6, <1>7, <1>8 DEF items, Id, fresh

-----------------------------------------------------------------------------
(* The shapes hold.                                                         *)

LEMMA FewAreFinite == \A a, b, c, d : IsFiniteSet({a, b}) /\ IsFiniteSet({a, b, c, d})
<1> SUFFICES ASSUME NEW a, NEW b, NEW c, NEW d
             PROVE  IsFiniteSet({a, b}) /\ IsFiniteSet({a, b, c, d})
    OBVIOUS
<1>1. IsFiniteSet({a})
    BY FS_Singleton
<1>2. IsFiniteSet({a} \union {b})
    BY <1>1, FS_AddElement
<1>3. IsFiniteSet({a, b} \union {c})
    <2>1. {a, b} = {a} \union {b}
        OBVIOUS
    <2> QED
        BY <2>1, <1>2, FS_AddElement
<1>4. IsFiniteSet({a, b, c} \union {d})
    <2>1. {a, b, c} = {a, b} \union {c}
        OBVIOUS
    <2> QED
        BY <2>1, <1>3, FS_AddElement
<1>5. {a, b} = {a} \union {b} /\ {a, b, c, d} = {a, b, c} \union {d}
    OBVIOUS
<1> QED
    BY <1>2, <1>4, <1>5

LEMMA RowFields ==
    ASSUME NEW round, NEW pos, NEW a1, NEW a2
    PROVE  LET p == Row(round, pos, a1, a2)
           IN  /\ p.round = round /\ p.pos = pos
               /\ p = Row(p.round, p.pos, p.a1, p.a2)
               /\ WriteOrder(p) = IF round = "small_final" THEN 5 ELSE pos
BY DEF Row, WriteOrder

LEMMA SeedRows ==
    ASSUME NEW ranked, NEW stage \in EntryRounds
    PROVE  /\ RowsFit(SeedFromPairs(ranked, stage))
           /\ \A p \in SeedFromPairs(ranked, stage) : p.round = stage
<1> DEFINE At(i) == Row(stage, i, ranked[SeedPairs[stage][i][1]], ranked[SeedPairs[stage][i][2]])
           rows == SeedFromPairs(ranked, stage)
<1>1. DOMAIN SeedPairs[stage] = 1..4 \/ DOMAIN SeedPairs[stage] = 1..2
    <2>1. CASE stage = "quarter"
        <3>1. SeedPairs[stage] = <<<<1, 8>>, <<4, 5>>, <<2, 7>>, <<3, 6>>>>
            BY <2>1 DEF SeedPairs
        <3> QED
            BY <3>1
    <2>2. CASE stage = "half"
        <3>1. SeedPairs[stage] = <<<<1, 4>>, <<2, 3>>>>
            BY <2>2 DEF SeedPairs
        <3> QED
            BY <3>1
    <2> QED
        BY <2>1, <2>2 DEF EntryRounds
<1>2. rows = {At(i) : i \in DOMAIN SeedPairs[stage]}
    BY DEF SeedFromPairs
<1>3. \A i : /\ At(i).round = stage /\ At(i).pos = i
             /\ At(i) = Row(At(i).round, At(i).pos, At(i).a1, At(i).a2)
             /\ WriteOrder(At(i)) = i
    BY RowFields DEF EntryRounds
<1> HIDE DEF At, rows
<1>4. rows = {At(1), At(2), At(3), At(4)} \/ rows = {At(1), At(2)}
    <2>1. CASE DOMAIN SeedPairs[stage] = 1..4
        <3>1. rows = {At(i) : i \in 1..4}
            BY <2>1, <1>2
        <3>2. 1..4 = {1, 2, 3, 4}
            OBVIOUS
        <3> QED
            BY <3>1, <3>2
    <2>2. CASE DOMAIN SeedPairs[stage] = 1..2
        <3>1. rows = {At(i) : i \in 1..2}
            BY <2>2, <1>2
        <3>2. 1..2 = {1, 2}
            OBVIOUS
        <3> QED
            BY <3>1, <3>2
    <2> QED
        BY <1>1, <2>1, <2>2
<1>5. IsFiniteSet(rows)
    <2>1. IsFiniteSet({At(1), At(2), At(3), At(4)}) /\ IsFiniteSet({At(1), At(2)})
        BY FewAreFinite
    <2>2. CASE rows = {At(1), At(2), At(3), At(4)}
        BY ONLY <2>1, <2>2
    <2>3. CASE rows = {At(1), At(2)}
        BY ONLY <2>1, <2>3
    <2> QED
        BY <1>4, <2>2, <2>3
<1>6. \A p \in rows : /\ p = Row(p.round, p.pos, p.a1, p.a2)
                      /\ p.round = stage /\ WriteOrder(p) \in Nat /\ p = At(WriteOrder(p))
    BY <1>3, <1>4
<1>7. stage \in Rounds
    BY DEF Rounds
<1> QED
    BY <1>5, <1>6, <1>7 DEF RowsFit, rows

LEMMA AdvanceRows ==
    ASSUME NEW from \in EntryRounds, NEW source
    PROVE  LET rows == AdvanceTargets(from, source)
           IN  /\ RowsFit(rows)
               /\ from = "quarter" => \A p \in rows : p.round = "half"
               /\ from = "half" => \A p \in rows : p.round \in {"final", "small_final"}
<1> DEFINE rows == AdvanceTargets(from, source)
<1>1. \E p, q : /\ rows = {p, q}
                /\ p = Row(p.round, p.pos, p.a1, p.a2) /\ q = Row(q.round, q.pos, q.a1, q.a2)
                /\ WriteOrder(p) = 1 /\ WriteOrder(q) \in {2, 5}
                /\ \/ from = "quarter" /\ p.round = "half" /\ q.round = "half"
                   \/ from = "half" /\ p.round = "final" /\ q.round = "small_final"
    <2>1. CASE from = "quarter"
        <3> DEFINE p == Row("half", 1, source[1].win, source[2].win)
                   q == Row("half", 2, source[3].win, source[4].win)
        <3>1. rows = {p, q}
            BY <2>1 DEF AdvanceTargets
        <3>2. /\ p.round = "half" /\ q.round = "half"
              /\ p = Row(p.round, p.pos, p.a1, p.a2) /\ q = Row(q.round, q.pos, q.a1, q.a2)
              /\ WriteOrder(p) = 1 /\ WriteOrder(q) = 2
            BY RowFields
        <3> HIDE DEF p, q, rows
        <3> QED
            BY <2>1, <3>1, <3>2
    <2>2. CASE from = "half"
        <3> DEFINE p == Row("final", 1, source[1].win, source[2].win)
                   q == Row("small_final", 1, LoserOf(source[1]), LoserOf(source[2]))
        <3>1. rows = {p, q}
            BY <2>2 DEF AdvanceTargets
        <3>2. /\ p.round = "final" /\ q.round = "small_final"
              /\ p = Row(p.round, p.pos, p.a1, p.a2) /\ q = Row(q.round, q.pos, q.a1, q.a2)
              /\ WriteOrder(p) = 1 /\ WriteOrder(q) = 5
            BY RowFields
        <3> HIDE DEF p, q, rows
        <3> QED
            BY <2>2, <3>1, <3>2
    <2> QED
        BY <2>1, <2>2 DEF EntryRounds
<1> HIDE DEF rows
<1>2. IsFiniteSet(rows)
    <2>1. PICK p, q : rows = {p, q}
        BY <1>1
    <2>2. IsFiniteSet({p, q})
        BY FewAreFinite
    <2> QED
        BY ONLY <2>1, <2>2
<1>3. RowsFit(rows)
    BY <1>1, <1>2 DEF RowsFit, Rounds, EntryRounds
<1> QED
    BY <1>1, <1>3 DEF rows

LEMMA TypeInit == Init => TypeOK
<1> SUFFICES ASSUME Init PROVE TypeOK
    OBVIOUS
<1> USE DEF Init
<1>1. \A i \in table : IsItem(i)
    BY ShiftsAssumption
<1>2. spent \in [Clients -> Nat]
    BY BoundsAssumption
<1>3. /\ minted = [ids |-> minted.ids, athletes |-> minted.athletes] /\ minted.ids \in Nat
      /\ view = [c \in Clients |-> view[c]]
      /\ \A c \in Clients : view[c] = {}
      /\ req = [c \in Clients |-> req[c]]
      /\ \A c \in Clients : req[c] = Idle
    OBVIOUS
<1> HIDE DEF Init
<1> QED
    BY <1>1, <1>2, <1>3 DEF TypeOK, IsRequest

\* What a step of one client changes.
LEMMA TypeFrom ==
    ASSUME TypeOK, NEW c \in Clients, NEW r, IsRequest(r), Becomes(c, r),
           \A i \in table' : IsItem(i),
           minted' = [ids |-> minted'.ids, athletes |-> minted'.athletes],
           minted'.ids \in Nat,
           view' = view, spent' \in [Clients -> Nat]
    PROVE  TypeOK'
<1>1. req' = [d \in Clients |-> req'[d]] /\ \A d \in Clients : IsRequest(req'[d])
    <2>1. req' = [d \in Clients |-> IF d = c THEN r ELSE req[d]]
        BY DEF TypeOK, Becomes
    <2> QED
        BY <2>1 DEF TypeOK
<1>2. view' = [d \in Clients |-> view'[d]]
    BY DEF TypeOK
<1> QED
    BY <1>1, <1>2 DEF TypeOK

LEMMA TypeReads ==
    ASSUME TypeOK, NEW c \in Clients, NEW r, IsRequest(r), Reads(c, r)
    PROVE  TypeOK'
<1>1. /\ Becomes(c, r) /\ \A i \in table' : IsItem(i)
      /\ minted' = [ids |-> minted'.ids, athletes |-> minted'.athletes]
      /\ minted'.ids \in Nat /\ view' = view /\ spent' \in [Clients -> Nat]
    BY DEF Reads, TypeOK
<1> QED
    BY <1>1, TypeFrom

LEMMA TypeWrites ==
    ASSUME TypeOK, NEW c \in Clients, NEW items, \A i \in items : IsItem(i),
           Writes(c, items)
    PROVE  TypeOK'
<1>1. /\ Becomes(c, Idle) /\ \A i \in table' : IsItem(i)
      /\ minted' = [ids |-> minted'.ids, athletes |-> minted'.athletes]
      /\ minted'.ids \in Nat /\ view' = view /\ spent' \in [Clients -> Nat]
    BY DEF Writes, TypeOK
<1>2. IsRequest(Idle)
    BY DEF IsRequest
<1> QED
    BY <1>1, <1>2, TypeFrom

LEMMA TypeStarts ==
    ASSUME TypeOK, NEW c \in Clients, NEW request, Starts(c, request)
    PROVE  spent' \in [Clients -> Nat] /\ req[c] = Idle
<1>1. spent[c] \in Nat /\ spent[c] + 1 \in Nat
    BY DEF TypeOK
<1> QED
    BY <1>1 DEF Starts, TypeOK

-----------------------------------------------------------------------------
(* No step makes a match the rest does not fit.                             *)

LEMMA KnownIs ==
    /\ \A m \in Matches : m \in Known /\ m \in table /\ m.kind = "match"
    /\ \A m \in table : m.kind = "match" => m \in Matches /\ m \in Known
    /\ \A c \in Clients : \A m \in view[c] \union Holds(Pending(req[c])) :
        m.kind = "match" => m \in Known
    /\ \A m \in Known : m.kind = "match" /\
        (m \in table \/ \E c \in Clients : m \in view[c] \union Holds(Pending(req[c])))
BY DEF Known, Matches, OfKind, Among

\* A step of one client, which may bring some matches nobody knew.
LEMMA StepFits ==
    ASSUME TypeOK, KnownFit, NEW c \in Clients, NEW r, NEW new,
           IsRequest(r), Becomes(c, r),
           view' = view, spent' \in [Clients -> Nat],
           minted' = [ids |-> minted'.ids, athletes |-> minted'.athletes],
           minted'.ids \in Nat, minted'.ids >= minted.ids,
           \A i \in table' : IsItem(i) /\ (i.kind = "match" => i \in Known \union new),
           \A i \in Holds(Pending(r)) : i.kind = "match" => i \in Known \union new,
           \A n \in new : n.id \in 1..minted'.ids /\ Sound(n),
           \A n \in new : \/ n.id > minted.ids
                          \/ \E m \in Known : m.id = n.id /\ SameSlot(m, n),
           \A n, k \in new : n.id = k.id => SameSlot(n, k)
    PROVE  TypeOK' /\ KnownFit'
<1>1. TypeOK'
    BY TypeFrom
<1>2. \A d \in Clients : req'[d] = IF d = c THEN r ELSE req[d]
    BY DEF TypeOK, Becomes
<1>3. ASSUME NEW m \in Known' PROVE m \in Known \union new
    <2>1. m.kind = "match"
        BY <1>3 DEF Known
    <2>2. CASE m \in table'
        BY <2>1, <2>2
    <2>3. CASE m \notin table'
        <3>1. PICK d \in Clients : m \in Holds(Pending(req'[d])) \union view'[d]
            BY <1>3, <2>3 DEF Known
        <3>2. CASE m \in view'[d]
            BY <3>2, <2>1 DEF Known
        <3>3. CASE m \in Holds(Pending(req'[d])) /\ d = c
            BY <3>3, <2>1, <1>2
        <3>4. CASE m \in Holds(Pending(req'[d])) /\ d # c
            <4>1. m \in Holds(Pending(req[d]))
                BY <3>4, <1>2
            <4> QED
                BY <4>1, <2>1 DEF Known
        <3> QED
            BY <3>1, <3>2, <3>3, <3>4
    <2> QED
        BY <2>2, <2>3
<1>4. \A m \in Known : m.id \in 1..minted'.ids /\ m.id <= minted.ids /\ Sound(m)
    BY DEF KnownFit, TypeOK
<1>5. \A m, n \in Known : m.id = n.id => SameSlot(m, n)
    BY DEF KnownFit
<1> DEFINE all == Known \union new
<1>6. \A m \in all : m.id \in 1..minted'.ids /\ Sound(m)
    BY <1>4
<1>7. ASSUME NEW m \in all, NEW n \in all, m.id = n.id PROVE SameSlot(m, n)
    <2>1. CASE m \in Known /\ n \in Known
        BY <2>1, <1>5, <1>7
    <2>2. CASE m \in new /\ n \in new
        BY <2>2, <1>7
    <2>3. ASSUME NEW p \in Known, NEW q \in new, p.id = q.id PROVE SameSlot(p, q)
        <3>1. ~ (q.id > minted.ids)
            BY <2>3, <1>4 DEF TypeOK
        <3>2. PICK k \in Known : k.id = q.id /\ SameSlot(k, q)
            BY <3>1
        <3> QED
            BY <3>2, <1>5, <2>3 DEF SameSlot
    <2> QED
        BY <2>1, <2>2, <2>3, <1>7 DEF SameSlot
<1> HIDE DEF all
<1>8. Known' \subseteq all
    BY <1>3 DEF all
<1>9. KnownFit'
    <2>1. \A m \in Known' : m.id \in 1..minted'.ids /\ Sound(m)
        BY <1>6, <1>8
    <2>2. \A m, n \in Known' : m.id = n.id => SameSlot(m, n)
        BY <1>7, <1>8
    <2>3. (\A m \in Known : m.id \in 1..minted.ids /\ Sound(m))'
        BY <2>1
    <2>4. (\A m, n \in Known : m.id = n.id => SameSlot(m, n))'
        BY <2>2 DEF SameSlot
    <2> QED
        BY <2>3, <2>4 DEF KnownFit
<1> QED
    BY <1>1, <1>9

LEMMA ReadsFits ==
    ASSUME TypeOK, KnownFit, NEW c \in Clients, NEW r, IsRequest(r), Becomes(c, r),
           UNCHANGED <<table, view>>, spent' \in [Clients -> Nat],
           minted' = [ids |-> minted'.ids, athletes |-> minted'.athletes],
           minted'.ids \in Nat, minted'.ids >= minted.ids,
           \A i \in Holds(Pending(r)) : i.kind = "match" => i \in Known
    PROVE  TypeOK' /\ KnownFit'
<1> DEFINE none == {}
<1>1. \A i \in table' : IsItem(i) /\ (i.kind = "match" => i \in Known \union none)
    BY KnownIs DEF TypeOK
<1>2. \A i \in Holds(Pending(r)) : i.kind = "match" => i \in Known \union none
    OBVIOUS
<1>3. /\ \A n \in none : n.id \in 1..minted'.ids /\ Sound(n)
      /\ \A n \in none : \/ n.id > minted.ids
                       \/ \E m \in Known : m.id = n.id /\ SameSlot(m, n)
      /\ \A n, k \in none : n.id = k.id => SameSlot(n, k)
    OBVIOUS
<1>4. view' = view
    OBVIOUS
<1> HIDE DEF none
<1> QED
    BY <1>1, <1>2, <1>3, <1>4, StepFits

LEMMA WritesFits ==
    ASSUME TypeOK, KnownFit, NEW c \in Clients, NEW items, Writes(c, items),
           \A i \in items : IsItem(i) /\ (i.kind = "match" => i \in Known)
    PROVE  TypeOK' /\ KnownFit'
<1> DEFINE none == {}
<1>1. Holds(Pending(Idle)) = {} /\ IsRequest(Idle)
    BY DEF Holds, Pending, Idle, IsRequest
<1>2. Becomes(c, Idle) /\ table' = items /\ minted' = minted /\ view' = view /\ spent' = spent
    BY DEF Writes
<1>3. /\ minted' = [ids |-> minted'.ids, athletes |-> minted'.athletes]
      /\ minted'.ids \in Nat /\ minted'.ids >= minted.ids /\ spent' \in [Clients -> Nat]
    BY <1>2 DEF TypeOK
<1>4. /\ \A i \in table' : IsItem(i) /\ (i.kind = "match" => i \in Known \union none)
      /\ \A i \in Holds(Pending(Idle)) : i.kind = "match" => i \in Known \union none
    BY <1>1, <1>2
<1>5. /\ \A n \in none : n.id \in 1..minted'.ids /\ Sound(n)
      /\ \A n \in none : \/ n.id > minted.ids
                       \/ \E m \in Known : m.id = n.id /\ SameSlot(m, n)
      /\ \A n, k \in none : n.id = k.id => SameSlot(n, k)
    OBVIOUS
<1> HIDE DEF Idle, none
<1> QED
    BY <1>1, <1>2, <1>3, <1>4, <1>5, StepFits

\* A step that only asks or looks, and gives out at most identifiers.
Looks(c, r) ==
    /\ Becomes(c, r)
    /\ UNCHANGED <<table, view>>
    /\ spent' \in [Clients -> Nat]
    /\ minted' = [ids |-> minted'.ids, athletes |-> minted'.athletes]
    /\ minted'.ids \in Nat /\ minted'.ids >= minted.ids

LEMMA LooksFits ==
    ASSUME TypeOK, KnownFit, NEW c \in Clients, NEW r, IsRequest(r), Looks(c, r),
           \A i \in Holds(Pending(r)) : i.kind = "match" => i \in Known
    PROVE  TypeOK' /\ KnownFit'
BY ReadsFits DEF Looks

LEMMA ReadsLooks ==
    ASSUME TypeOK, NEW c \in Clients, NEW r, Reads(c, r)
    PROVE  Looks(c, r)
BY DEF Reads, Looks, TypeOK

LEMMA StartsLooks ==
    ASSUME TypeOK, NEW c \in Clients, NEW r, NEW request, Starts(c, request), Becomes(c, r),
           UNCHANGED <<table, minted, view>>
    PROVE  Looks(c, r)
<1>1. spent' \in [Clients -> Nat]
    BY TypeStarts
<1> QED
    BY <1>1 DEF Looks, TypeOK

LEMMA Handed ==
    ASSUME NEW item, NEW old, NEW todo, NEW then
    PROVE  /\ Holds(Pending(Creating(item))) = {item}
           /\ Holds(Pending(Upserting(old, item))) = {item}
           /\ Holds(Pending(Dropping(item))) = {item}
           /\ then.at # "check" => Pending(then) = then
           /\ Pending(Checking(todo, then)) = then
           /\ Pending(Then(todo, then)) = then \/ Pending(Then(todo, then)) = Pending(then)
BY DEF Holds, Pending, Creating, Upserting, Dropping, Checking, Then

LEMMA Shaped ==
    ASSUME NEW item, NEW old, NEW todo, NEW then
    PROVE  /\ IsItem(item) => /\ IsWrite(Creating(item)) /\ IsWrite(Upserting(old, item))
                              /\ IsWrite(Dropping(item))
           /\ IsWrite(then) => IsRequest(then) /\ IsRequest(Checking(todo, then))
                                /\ IsRequest(Then(todo, then))
           /\ IsScoring(then) => IsRequest(then) /\ IsRequest(Checking(todo, then))
           /\ IsWrite(then) \/ IsScoring(then) => then.at # "check"
<1>1. IsItem(item) => /\ IsWrite(Creating(item)) /\ IsWrite(Upserting(old, item))
                      /\ IsWrite(Dropping(item))
    BY DEF IsWrite, Creating, Upserting, Dropping
<1>2. /\ Checking(todo, then).at = "check"
      /\ Checking(todo, then) = Checking(Checking(todo, then).todo, Checking(todo, then).then)
      /\ Checking(todo, then).then = then
    BY DEF Checking
<1>3. IsWrite(then) => IsRequest(then) /\ IsRequest(Checking(todo, then))
                        /\ IsRequest(Then(todo, then))
    BY <1>2 DEF IsRequest, Then
<1>4. IsScoring(then) => IsRequest(then) /\ IsRequest(Checking(todo, then))
    BY <1>2 DEF IsRequest
<1>5. IsWrite(then) \/ IsScoring(then) => then.at # "check"
    BY DEF IsWrite, IsScoring
<1> QED
    BY <1>1, <1>3, <1>4, <1>5

LEMMA ByStage ==
    ASSUME NEW r, IsRequest(r)
    PROVE  /\ r.at = "create" => r = Creating(r.item) /\ IsItem(r.item)
           /\ r.at = "upsert" =>
                r = [at |-> "upsert", old |-> r.old, item |-> r.item] /\ IsItem(r.item)
           /\ r.at = "drop" => r = Dropping(r.item) /\ IsItem(r.item)
           /\ r.at = "check" =>
                r = Checking(r.todo, r.then) /\ (IsWrite(r.then) \/ IsScoring(r.then))
           /\ r.at = "score" => IsScoring(r)
           /\ r.at = "rank" => r.override \in Overrides
           /\ r.at = "entry" => IsEntry(r)
           /\ r.at = "downstream" => IsDownstream(r)
           /\ r.at = "bracket" => IsBracket(r)
           /\ r.at = "queries" =>
                r = [at |-> "queries", athlete |-> r.athlete, todo |-> r.todo,
                     hit |-> r.hit, bound |-> r.bound]
BY DEF IsRequest, IsWrite, IsScoring, IsEntry, IsDownstream, IsBracket, Idle, Creating,
       Dropping

LEMMA Keeping == \A key : \A i \in Without(key) : i \in table
BY DEF Without

LEMMA NextCheck ==
    ASSUME NEW todo, NEW then, NEW rest
    PROVE  [Checking(todo, then) EXCEPT !.todo = rest] = Checking(rest, then)
BY DEF Checking

LEMMA CheckAthleteFits ==
    ASSUME TypeOK, KnownFit, NEW c \in Clients, CheckAthlete(c)
    PROVE  TypeOK' /\ KnownFit'
<1> DEFINE q == req[c]
           tail == [q EXCEPT !.todo = Tail(@)]
<1>1. q.at = "check" /\ IsRequest(q)
    BY DEF CheckAthlete, TypeOK
<1>2. q = Checking(q.todo, q.then) /\ (IsWrite(q.then) \/ IsScoring(q.then))
    BY <1>1, ByStage
<1>3. Reads(c, Idle) \/ Reads(c, tail) \/ Reads(c, q.then)
    BY DEF CheckAthlete
<1>4. tail = Checking(Tail(q.todo), q.then)
    <2> DEFINE todo == q.todo
               then == q.then
    <2>1. q = Checking(todo, then)
        BY <1>2
    <2>2. tail = [q EXCEPT !.todo = Tail(todo)]
        OBVIOUS
    <2> HIDE DEF todo, then, q, tail
    <2>3. tail = Checking(Tail(todo), then)
        BY <2>1, <2>2, NextCheck
    <2> QED
        BY <2>3 DEF todo, then
<1>5. /\ IsRequest(Idle) /\ Holds(Pending(Idle)) = {}
      /\ IsRequest(tail) /\ Holds(Pending(tail)) = Holds(Pending(q))
      /\ IsRequest(q.then) /\ Holds(Pending(q.then)) = Holds(Pending(q))
    <2>1. IsRequest(Idle) /\ Holds(Pending(Idle)) = {}
        BY DEF IsRequest, Idle, Holds, Pending
    <2> DEFINE todo == q.todo
               then == q.then
               rest == Tail(todo)
    <2>a. q = Checking(todo, then) /\ tail = Checking(rest, then)
          /\ (IsWrite(then) \/ IsScoring(then))
        BY <1>2, <1>4
    <2> HIDE DEF q, tail, todo, then, rest
    <2>b. IsRequest(tail) /\ IsRequest(then) /\ then.at # "check"
        BY <2>a, Shaped
    <2>c. Pending(q) = then /\ Pending(tail) = then /\ Pending(then) = then
        BY <2>a, <2>b, Handed
    <2>2. IsRequest(tail) /\ IsRequest(q.then)
        BY <2>b DEF then
    <2>3. Pending(q) = q.then /\ Pending(tail) = q.then /\ Pending(q.then) = q.then
        BY <2>c DEF then
    <2> QED
        BY <2>1, <2>2, <2>3
<1>6. \A i \in Holds(Pending(q)) : i.kind = "match" => i \in Known
    BY KnownIs
<1> HIDE DEF q, tail
<1>7. \E r : /\ Looks(c, r) /\ IsRequest(r)
             /\ \A i \in Holds(Pending(r)) : i.kind = "match" => i \in Known
    BY <1>3, <1>5, <1>6, ReadsLooks
<1> QED
    BY <1>7, LooksFits

LEMMA CreateFits ==
    ASSUME TypeOK, KnownFit, NEW c \in Clients, Create(c)
    PROVE  TypeOK' /\ KnownFit'
<1> DEFINE item == req[c].item
<1>1. IsItem(item) /\ (item.kind = "match" => item \in Known)
    <2>1. req[c].at = "create" /\ IsRequest(req[c])
        BY DEF Create, TypeOK
    <2>2. req[c] = Creating(item) /\ IsItem(item)
        BY <2>1, ByStage
    <2>3. item \in Holds(Pending(req[c]))
        BY <2>1 DEF Holds, Pending
    <2> QED
        BY <2>2, <2>3, KnownIs
<1>2. Writes(c, table) \/ Writes(c, PutOver({item}))
    BY DEF Create
<1>3. \A i \in PutOver({item}) : i \in table \/ i = item
    BY DEF PutOver
<1>4. \A i \in table : IsItem(i) /\ (i.kind = "match" => i \in Known)
    BY KnownIs DEF TypeOK
<1> HIDE DEF item
<1>5. \E items : /\ Writes(c, items)
                 /\ \A i \in items : IsItem(i) /\ (i.kind = "match" => i \in Known)
    BY <1>1, <1>2, <1>3, <1>4
<1> QED
    BY <1>5, WritesFits

LEMMA UpsertFits ==
    ASSUME TypeOK, KnownFit, NEW c \in Clients, Upsert(c)
    PROVE  TypeOK' /\ KnownFit'
<1> DEFINE item == req[c].item
           over == Without(req[c].old) \union {item}
<1>1. IsItem(item) /\ (item.kind = "match" => item \in Known)
    <2>1. req[c].at = "upsert" /\ IsRequest(req[c])
        BY DEF Upsert, TypeOK
    <2>2. IsItem(item)
        BY <2>1, ByStage
    <2>3. item \in Holds(Pending(req[c]))
        BY <2>1 DEF Holds, Pending
    <2> QED
        BY <2>2, <2>3, KnownIs
<1>2. Writes(c, table) \/ Writes(c, over)
    BY DEF Upsert
<1>3. \A i \in over : i \in table \/ i = item
    BY Keeping
<1>4. \A i \in table : IsItem(i) /\ (i.kind = "match" => i \in Known)
    BY KnownIs DEF TypeOK
<1> HIDE DEF item, over
<1>5. \E items : /\ Writes(c, items)
                 /\ \A i \in items : IsItem(i) /\ (i.kind = "match" => i \in Known)
    BY <1>1, <1>2, <1>3, <1>4
<1> QED
    BY <1>5, WritesFits

LEMMA DropFits ==
    ASSUME TypeOK, KnownFit, NEW c \in Clients, Drop(c) \/ RemoveAthlete(c)
    PROVE  TypeOK' /\ KnownFit'
<1>1. \E key : Writes(c, Without(key))
    BY DEF Drop, RemoveAthlete
<1>2. PICK key : Writes(c, Without(key))
    BY <1>1
<1>3. \A i \in Without(key) : IsItem(i) /\ (i.kind = "match" => i \in Known)
    BY Keeping, KnownIs DEF TypeOK
<1> QED
    BY <1>2, <1>3, WritesFits

LEMMA WriteBracketFits ==
    ASSUME TypeOK, KnownFit, NEW c \in Clients, WriteBracket(c)
    PROVE  TypeOK' /\ KnownFit'
<1> DEFINE items == req[c].items
<1>1. req[c].at = "bracket" /\ IsRequest(req[c])
    BY DEF WriteBracket, TypeOK
<1>2. \A t \in items : t.kind = "match" /\ IsItem(t) /\ t \in Known
    <2>1. \A t \in items : t.kind = "match" /\ IsItem(t)
        BY <1>1, ByStage DEF IsBracket, IsItem
    <2>2. items = Holds(Pending(req[c]))
        BY <1>1 DEF Holds, Pending
    <2> QED
        BY <2>1, <2>2, KnownIs
<1>3. Writes(c, PutOver(items))
    BY DEF WriteBracket
<1>4. \A i \in PutOver(items) : i \in table \/ i \in items
    BY DEF PutOver
<1>5. \A i \in table : IsItem(i) /\ (i.kind = "match" => i \in Known)
    BY KnownIs DEF TypeOK
<1> HIDE DEF items
<1>6. \A i \in PutOver(items) : IsItem(i) /\ (i.kind = "match" => i \in Known)
    BY <1>2, <1>4, <1>5
<1> QED
    BY <1>3, <1>6, WritesFits

LEMMA SeedAthletesFits ==
    ASSUME TypeOK, KnownFit, NEW c \in Clients, NEW override \in Overrides,
           NEW force \in BOOLEAN, SeedAthletes(c, override, force)
    PROVE  TypeOK' /\ KnownFit'
<1> DEFINE r == [at |-> "rank", listed |-> AthletesListed, override |-> override,
                 force |-> force]
<1>1. IsRequest(r) /\ Holds(Pending(r)) = {}
    BY DEF IsRequest, Holds, Pending
<1>2. Becomes(c, r) /\ UNCHANGED <<table, minted, view>>
      /\ \E request : Starts(c, request)
    BY DEF SeedAthletes
<1> HIDE DEF r
<1>3. Looks(c, r)
    BY <1>2, StartsLooks
<1> QED
    BY <1>1, <1>3, LooksFits

LEMMA SeedRankingFits ==
    ASSUME TypeOK, KnownFit, NEW c \in Clients, SeedRanking(c)
    PROVE  TypeOK' /\ KnownFit'
<1>1. \E ranked, stage :
        /\ stage = ChooseSeedStage(ranked, req[c].override)
        /\ \/ Reads(c, Idle)
           \/ Reads(c, [at |-> "entry", rows |-> SeedFromPairs(ranked, stage),
                        stage |-> stage, force |-> req[c].force])
    BY DEF SeedRanking
<1>2. PICK ranked, stage :
        /\ stage = ChooseSeedStage(ranked, req[c].override)
        /\ \/ Reads(c, Idle)
           \/ Reads(c, [at |-> "entry", rows |-> SeedFromPairs(ranked, stage),
                        stage |-> stage, force |-> req[c].force])
    BY <1>1
<1> DEFINE r == [at |-> "entry", rows |-> SeedFromPairs(ranked, stage),
                 stage |-> stage, force |-> req[c].force]
<1>3. stage \in EntryRounds
    <2>1. req[c].override \in Overrides
        <3>1. req[c].at = "rank" /\ IsRequest(req[c])
            BY DEF SeedRanking, TypeOK
        <3> QED
            BY <3>1, ByStage
    <2> QED
        BY <1>2, <2>1, OverridesAssumption DEF ChooseSeedStage, EntryRounds
<1>4. RowsFit(SeedFromPairs(ranked, stage))
      /\ \A p \in SeedFromPairs(ranked, stage) : p.round = stage
    BY <1>3, SeedRows
<1>5. IsRequest(r) /\ Holds(Pending(r)) = {}
    BY <1>4 DEF IsRequest, IsEntry, Holds, Pending
<1>6. IsRequest(Idle) /\ Holds(Pending(Idle)) = {}
    BY DEF IsRequest, Idle, Holds, Pending
<1>7. Reads(c, Idle) \/ Reads(c, r)
    BY <1>2
<1> HIDE DEF r, Idle
<1>8. \E x : /\ Looks(c, x) /\ IsRequest(x)
             /\ \A i \in Holds(Pending(x)) : i.kind = "match" => i \in Known
    BY <1>5, <1>6, <1>7, ReadsLooks
<1> QED
    BY <1>8, LooksFits

LEMMA BuildsFits ==
    ASSUME TypeOK, KnownFit, NEW c \in Clients, NEW existing, NEW rows, NEW win,
           NEW request, \A m \in existing : m \in Known, RowsFit(rows),
           \A p \in rows :
                win[p] = None \/ \E h \in existing : h.win = win[p] /\ h.a1 = p.a1 /\ h.a2 = p.a2,
           Builds(c, existing, rows, win, request)
    PROVE  TypeOK' /\ KnownFit'
<1> DEFINE items == Identified(existing, rows, win)
           count == Cardinality(Fresh(existing, rows))
           r == [at |-> "bracket", items |-> items, request |-> request]
<1>1. /\ minted.ids \in Nat /\ \A m \in existing : m.id \in 1..minted.ids
      /\ \A m, n \in existing : m.id = n.id => SameSlot(m, n)
      /\ \A m \in existing : Sound(m)
    BY DEF TypeOK, KnownFit
<1>2. count \in Nat
    BY <1>1, FreshIds
<1>3. /\ \A t \in items : /\ t.kind = "match" /\ IsMatch(t)
                          /\ \E p \in rows : SameSlot(t, p) /\ t.win = win[p]
                                /\ t.a1 = p.a1 /\ t.a2 = p.a2
                                /\ t.id = IdOf(existing, rows, p)
      /\ \A s, t \in items : SameSlot(s, t) => s = t
      /\ \A s, t \in items : s.id = t.id => s = t
      /\ \A t \in items : \/ t.id \in (minted.ids + 1)..(minted.ids + count)
                          \/ \E h \in existing : h.id = t.id /\ SameSlot(h, t)
    BY <1>1, BuiltMatches
<1>4. \A t \in items : Sound(t) /\ t.round \in Rounds
    <2> SUFFICES ASSUME NEW t \in items PROVE Sound(t) /\ t.round \in Rounds
        OBVIOUS
    <2>1. PICK p \in rows : SameSlot(t, p) /\ t.win = win[p] /\ t.a1 = p.a1 /\ t.a2 = p.a2
        BY <1>3
    <2>2. p.round \in Rounds
        BY DEF RowsFit
    <2>3. win[p] = None \/ \E h \in existing : h.win = win[p] /\ h.a1 = p.a1 /\ h.a2 = p.a2
        OBVIOUS
    <2> HIDE DEF items
    <2> QED
        BY <2>1, <2>2, <2>3, <1>1 DEF Sound, SameSlot
<1>5. Becomes(c, r) /\ minted' = [minted EXCEPT !.ids = @ + count]
      /\ UNCHANGED <<table, view, spent>>
    BY DEF Builds
<1> HIDE DEF items, count
<1>6. /\ minted' = [ids |-> minted'.ids, athletes |-> minted'.athletes]
      /\ minted'.ids = minted.ids + count
    BY <1>5 DEF TypeOK
<1>7. IsRequest(r) /\ Holds(Pending(r)) = items
    <2>1. IsBracket(r)
        BY <1>3, <1>4 DEF IsBracket
    <2> QED
        BY <2>1 DEF IsRequest, Holds, Pending
<1> HIDE DEF r
<1>8. minted'.ids \in Nat /\ minted'.ids >= minted.ids
    BY <1>6, <1>1, <1>2
<1>9. \A n \in items : n.id \in 1..minted'.ids /\ Sound(n)
    BY <1>3, <1>4, <1>6, <1>1, <1>2
<1>10. \A n \in items : \/ n.id > minted.ids
                        \/ \E m \in Known : m.id = n.id /\ SameSlot(m, n)
    BY <1>3, <1>1, <1>2
<1>11. \A n, k \in items : n.id = k.id => SameSlot(n, k)
    BY <1>3 DEF SameSlot
<1>12. /\ \A i \in table' : IsItem(i) /\ (i.kind = "match" => i \in Known \union items)
       /\ \A i \in Holds(Pending(r)) : i.kind = "match" => i \in Known \union items
       /\ view' = view /\ spent' \in [Clients -> Nat]
    BY <1>5, <1>7, KnownIs DEF TypeOK
<1>13. Becomes(c, r)
    BY <1>5
<1> QED
    BY <1>6, <1>7, <1>8, <1>9, <1>10, <1>11, <1>12, <1>13, StepFits

LEMMA Survivors ==
    ASSUME NEW existing, NEW bound \in Nat, NEW row,
           \A m \in existing : m.id \in 1..bound
    PROVE  \/ /\ SurvivingWinner(existing, row) = None
              /\ \A h \in existing : HeldAt(existing, row) = {h} =>
                    ~ (h.a1 = row.a1 /\ h.a2 = row.a2)
           \/ \E h \in existing : /\ HeldAt(existing, row) = {h}
                                  /\ SameSlot(h, row)
                                  /\ h.a1 = row.a1 /\ h.a2 = row.a2
                                  /\ SurvivingWinner(existing, row) = h.win
<1> DEFINE held == {m \in HeldAt(existing, row) : m.a1 = row.a1 /\ m.a2 = row.a2}
<1>1. \/ HeldAt(existing, row) = {}
      \/ \E h \in existing : HeldAt(existing, row) = {h} /\ SameSlot(h, row)
    BY HeldIsOne
<1>2. CASE held = {}
    <2>1. SurvivingWinner(existing, row) = None
        BY <1>2 DEF SurvivingWinner
    <2>2. \A h : HeldAt(existing, row) = {h} => ~ (h.a1 = row.a1 /\ h.a2 = row.a2)
        BY <1>2
    <2> QED
        BY <2>1, <2>2
<1>3. CASE held # {}
    <2>1. PICK h \in existing : HeldAt(existing, row) = {h} /\ SameSlot(h, row)
        BY <1>1, <1>3
    <2>2. held = {h} /\ h.a1 = row.a1 /\ h.a2 = row.a2
        BY <2>1, <1>3
    <2>3. SurvivingWinner(existing, row) = (CHOOSE m \in held : TRUE).win
        BY <1>3 DEF SurvivingWinner
    <2>4. (CHOOSE m \in held : TRUE) = h
        BY <2>2
    <2> HIDE DEF held
    <2> QED
        BY <2>1, <2>2, <2>3, <2>4
<1> QED
    BY <1>2, <1>3

LEMMA SeedEntryFits ==
    ASSUME TypeOK, KnownFit, NEW c \in Clients, SeedEntry(c)
    PROVE  TypeOK' /\ KnownFit'
<1> DEFINE existing == {m \in Matches : m.round = req[c].stage}
           rows == req[c].rows
           win == [row \in rows |-> None]
<1>1. RowsFit(rows)
    <2>1. req[c].at = "entry" /\ IsRequest(req[c])
        BY DEF SeedEntry, TypeOK
    <2> QED
        BY <2>1, ByStage DEF IsEntry
<1>2. Reads(c, Idle) \/ Builds(c, existing, rows, win, "seed")
    BY DEF SeedEntry
<1>3. \A m \in existing : m \in Known
    BY KnownIs
<1>4. \A p \in rows :
        win[p] = None \/ \E h \in existing : h.win = win[p] /\ h.a1 = p.a1 /\ h.a2 = p.a2
    OBVIOUS
<1> HIDE DEF existing, rows, win
<1>5. CASE Reads(c, Idle)
    <2>1. IsRequest(Idle) /\ \A i \in Holds(Pending(Idle)) : i.kind = "match" => i \in Known
        BY DEF IsRequest, Idle, Holds, Pending
    <2>2. Looks(c, Idle)
        BY <1>5, ReadsLooks
    <2> HIDE DEF Idle
    <2> QED
        BY <2>1, <2>2, LooksFits
<1>6. CASE Builds(c, existing, rows, win, "seed")
    BY <1>1, <1>3, <1>4, <1>6, BuildsFits
<1> QED
    BY <1>2, <1>5, <1>6

LEMMA AdvanceSourceFits ==
    ASSUME TypeOK, KnownFit, NEW c \in Clients, NEW from \in EntryRounds,
           NEW force \in BOOLEAN, AdvanceSource(c, from, force)
    PROVE  TypeOK' /\ KnownFit'
<1> DEFINE source == OfRound(Matches, from)
           rows == AdvanceTargets(from, source)
           r == [at |-> "downstream", rows |-> rows, todo |-> Downstream[from],
                 existing |-> {}, force |-> force]
<1>1. Becomes(c, r) /\ UNCHANGED <<table, minted, view>>
      /\ \E request : Starts(c, request)
    BY DEF AdvanceSource
<1>2. /\ RowsFit(rows)
      /\ from = "quarter" => \A p \in rows : p.round = "half"
      /\ from = "half" => \A p \in rows : p.round \in {"final", "small_final"}
    BY AdvanceRows
<1> HIDE DEF rows
<1>3. \/ from = "quarter" /\ Downstream[from] = <<"half">>
      \/ from = "half" /\ Downstream[from] = <<"final", "small_final">>
    BY DEF Downstream, EntryRounds
<1>4. IsRequest(r) /\ Holds(Pending(r)) = {}
    <2>1. IsDownstream(r)
        BY <1>2, <1>3 DEF IsDownstream
    <2> QED
        BY <2>1 DEF IsRequest, Holds, Pending
<1> HIDE DEF r
<1>5. Looks(c, r)
    BY <1>1, StartsLooks
<1> QED
    BY <1>4, <1>5, LooksFits

\* What a re-run has read when it lists its next round.
SeenBy(c) == req[c].existing \union {m \in Matches : m.round = Head(req[c].todo)}

LEMMA NextRound ==
    ASSUME NEW rows, NEW todo, NEW existing, NEW force, NEW seen, NEW rest, NEW q, NEW r,
           q = [at |-> "downstream", rows |-> rows, todo |-> todo, existing |-> existing,
                force |-> force],
           r = [q EXCEPT !.existing = seen, !.todo = rest]
    PROVE  r = [at |-> "downstream", rows |-> rows, todo |-> rest, existing |-> seen,
                force |-> force]
OBVIOUS

LEMMA Lengths == \A x, y : Len(<<x>>) = 1 /\ Len(<<x, y>>) = 2 /\ Tail(<<x, y>>) = <<y>>
OBVIOUS

LEMMA DownstreamStep ==
    ASSUME TypeOK, KnownFit, NEW c \in Clients, AdvanceDownstream(c)
    PROVE  LET q == req[c]
               win == [row \in q.rows |-> SurvivingWinner(SeenBy(c), row)]
               next == [at |-> "downstream", rows |-> q.rows, todo |-> <<"small_final">>,
                        existing |-> SeenBy(c), force |-> q.force]
           IN  /\ IsDownstream(q)
               /\ \A m \in SeenBy(c) : m \in Known /\ m.kind = "match" /\ IsMatch(m)
               /\ \/ Reads(c, Idle)
                  \/ Builds(c, SeenBy(c), q.rows, win, "advance") /\ Len(q.todo) = 1
                  \/ Reads(c, next) /\ q.todo = <<"final", "small_final">>
<1> DEFINE q == req[c]
           seen == SeenBy(c)
           win == [row \in q.rows |-> SurvivingWinner(seen, row)]
<1>1. q.at = "downstream" /\ IsDownstream(q)
    <2>1. q.at = "downstream" /\ IsRequest(q)
        BY DEF AdvanceDownstream, TypeOK
    <2> QED
        BY <2>1, ByStage
<1>2. ASSUME NEW m \in seen PROVE m \in Known /\ m.kind = "match" /\ IsMatch(m)
    <2>1. CASE m \in q.existing
        <3>1. Holds(Pending(q)) = q.existing
            BY <1>1 DEF Holds, Pending
        <3>2. m.kind = "match" /\ IsMatch(m)
            BY <1>1, <2>1 DEF IsDownstream
        <3> QED
            BY <3>1, <3>2, <2>1, KnownIs
    <2>2. CASE m \in Matches
        BY <2>2, KnownIs DEF TypeOK, IsItem
    <2> QED
        BY <1>2, <2>1, <2>2 DEF SeenBy
<1>3. \/ Len(q.todo) > 1 /\ Reads(c, [q EXCEPT !.existing = seen, !.todo = Tail(@)])
      \/ Reads(c, Idle)
      \/ ~ (Len(q.todo) > 1) /\ Builds(c, seen, q.rows, win, "advance")
    BY DEF AdvanceDownstream, SeenBy
<1>4. \/ q.todo = <<"final", "small_final">> /\ Len(q.todo) = 2
            /\ Tail(q.todo) = <<"small_final">>
      \/ Len(q.todo) = 1
    <2>1. \/ q.todo = <<"half">> \/ q.todo = <<"small_final">>
          \/ q.todo = <<"final", "small_final">>
        BY <1>1 DEF IsDownstream
    <2> HIDE DEF q
    <2>2. CASE q.todo = <<"half">> \/ q.todo = <<"small_final">>
        BY <2>2, Lengths
    <2>3. CASE q.todo = <<"final", "small_final">>
        BY <2>3, Lengths
    <2> QED
        BY <2>1, <2>2, <2>3
<1>5. [q EXCEPT !.existing = seen, !.todo = Tail(@)] =
        [at |-> "downstream", rows |-> q.rows, todo |-> Tail(q.todo),
         existing |-> seen, force |-> q.force]
    <2> DEFINE rows == q.rows
               todo == q.todo
               existing == q.existing
               force == q.force
               left == Tail(todo)
               changed == [q EXCEPT !.existing = seen, !.todo = Tail(@)]
    <2>1. q = [at |-> "downstream", rows |-> rows, todo |-> todo,
               existing |-> existing, force |-> force]
        BY <1>1 DEF IsDownstream
    <2>2. changed = [q EXCEPT !.existing = seen, !.todo = left]
        OBVIOUS
    <2> HIDE DEF rows, todo, existing, force, q, seen, left, changed
    <2>3. changed = [at |-> "downstream", rows |-> rows, todo |-> left,
                     existing |-> seen, force |-> force]
        BY <2>1, <2>2, NextRound
    <2> QED
        BY <2>3 DEF rows, todo, existing, force, left, changed
<1>6. \/ Reads(c, Idle)
      \/ Builds(c, seen, q.rows, win, "advance") /\ Len(q.todo) = 1
      \/ /\ q.todo = <<"final", "small_final">>
         /\ Reads(c, [at |-> "downstream", rows |-> q.rows, todo |-> <<"small_final">>,
                      existing |-> seen, force |-> q.force])
    BY <1>3, <1>4, <1>5
<1> QED
    BY <1>1, <1>2, <1>6

LEMMA AdvanceDownstreamFits ==
    ASSUME TypeOK, KnownFit, NEW c \in Clients, AdvanceDownstream(c)
    PROVE  TypeOK' /\ KnownFit'
<1> DEFINE q == req[c]
           seen == SeenBy(c)
           win == [row \in q.rows |-> SurvivingWinner(seen, row)]
           next == [at |-> "downstream", rows |-> q.rows, todo |-> <<"small_final">>,
                    existing |-> seen, force |-> q.force]
<1>1. /\ IsDownstream(q)
      /\ \A m \in seen : m \in Known /\ m.kind = "match" /\ IsMatch(m)
      /\ \/ Reads(c, Idle)
         \/ Builds(c, seen, q.rows, win, "advance") /\ Len(q.todo) = 1
         \/ Reads(c, next) /\ q.todo = <<"final", "small_final">>
    BY DownstreamStep
<1>2. RowsFit(q.rows)
    BY <1>1 DEF IsDownstream
<1>3. ASSUME NEW p \in q.rows
      PROVE  win[p] = None \/ \E h \in seen : h.win = win[p] /\ h.a1 = p.a1 /\ h.a2 = p.a2
    <2>1. minted.ids \in Nat /\ \A m \in seen : m.id \in 1..minted.ids
        BY <1>1 DEF TypeOK, KnownFit
    <2>2. win[p] = SurvivingWinner(seen, p)
        OBVIOUS
    <2> HIDE DEF seen, win
    <2> DEFINE bound == minted.ids
    <2>b. bound \in Nat /\ \A m \in seen : m.id \in 1..bound
        BY <2>1
    <2> HIDE DEF bound
    <2>3. \/ /\ SurvivingWinner(seen, p) = None
             /\ \A h \in seen : HeldAt(seen, p) = {h} => ~ (h.a1 = p.a1 /\ h.a2 = p.a2)
          \/ \E h \in seen : /\ HeldAt(seen, p) = {h}
                             /\ SameSlot(h, p)
                             /\ h.a1 = p.a1 /\ h.a2 = p.a2
                             /\ SurvivingWinner(seen, p) = h.win
        BY <2>b, Survivors
    <2> QED
        BY <2>2, <2>3
<1>4. CASE Reads(c, Idle)
    <2>1. IsRequest(Idle) /\ \A i \in Holds(Pending(Idle)) : i.kind = "match" => i \in Known
        BY DEF IsRequest, Idle, Holds, Pending
    <2>2. Looks(c, Idle)
        BY <1>4, ReadsLooks
    <2> HIDE DEF Idle
    <2> QED
        BY <2>1, <2>2, LooksFits
<1>5. CASE Builds(c, seen, q.rows, win, "advance")
    <2> HIDE DEF q, seen, win
    <2> QED
        BY <1>1, <1>2, <1>3, <1>5, BuildsFits
<1>6. CASE Reads(c, next) /\ q.todo = <<"final", "small_final">>
    <2>1. /\ \A p \in q.rows : p.round \in {"final", "small_final"}
          /\ q.existing = {} /\ Head(q.todo) = "final"
        BY <1>1, <1>6 DEF IsDownstream
    <2>2. \A m \in seen : m.round = "final"
        BY <2>1 DEF SeenBy
    <2> HIDE DEF seen
    <2>3. IsDownstream(next)
        BY <1>1, <1>2, <2>1, <2>2 DEF IsDownstream
    <2>4. IsRequest(next) /\ Holds(Pending(next)) = seen
        BY <2>3 DEF IsRequest, Holds, Pending
    <2> HIDE DEF next
    <2>5. Looks(c, next)
        BY <1>6, ReadsLooks
    <2> QED
        BY <2>4, <2>5, <1>1, LooksFits
<1> QED
    BY <1>1, <1>4, <1>5, <1>6

LEMMA RefetchFits ==
    ASSUME TypeOK, KnownFit, NEW c \in Clients, Refetch(c)
    PROVE  TypeOK' /\ KnownFit'
<1>1. /\ view' = [d \in Clients |-> IF d = c THEN Matches ELSE view[d]]
      /\ table' = table /\ minted' = minted /\ req' = req /\ spent' = spent
    BY DEF Refetch, TypeOK
<1>2. \A m \in Matches : m.kind = "match" /\ IsMatch(m)
    BY KnownIs DEF TypeOK, IsItem
<1>3. \A d \in Clients : \A m \in view'[d] : m.kind = "match" /\ IsMatch(m)
    BY <1>1, <1>2 DEF TypeOK
<1>4. TypeOK'
    <2>1. view' = [d \in Clients |-> view'[d]]
        BY <1>1
    <2> QED
        BY <1>1, <1>3, <2>1 DEF TypeOK
<1>5. Known' \subseteq Known
    BY <1>1, KnownIs DEF Known
<1>6. KnownFit'
    BY <1>1, <1>5 DEF KnownFit, Sound, SameSlot
<1> QED
    BY <1>4, <1>6

LEMMA Rewon ==
    ASSUME NEW m, IsMatch(m), NEW win
    PROVE  LET n == [m EXCEPT !.win = win]
           IN  /\ n.kind = "match" /\ n.id = m.id /\ n.win = win /\ n.a1 = m.a1 /\ n.a2 = m.a2
               /\ SameSlot(n, m) /\ IsMatch(n) /\ IsItem(n)
<1> DEFINE n == [m EXCEPT !.win = win]
<1>1. n = MatchItem(m.id, Row(m.round, m.pos, m.a1, m.a2), win)
    BY DEF IsMatch, MatchItem, Row
<1>2. LET k == MatchItem(m.id, Row(m.round, m.pos, m.a1, m.a2), win)
      IN  /\ k.kind = "match" /\ k.id = m.id /\ k.win = win
          /\ k.round = m.round /\ k.pos = m.pos /\ k.a1 = m.a1 /\ k.a2 = m.a2
          /\ IsMatch(k) /\ IsItem(k)
    BY MatchFields DEF Row
<1> HIDE DEF n
<1>3. /\ n.kind = "match" /\ n.id = m.id /\ n.win = win
      /\ n.round = m.round /\ n.pos = m.pos /\ n.a1 = m.a1 /\ n.a2 = m.a2
      /\ IsMatch(n) /\ IsItem(n)
    BY <1>1, <1>2
<1> QED
    BY <1>3 DEF n, SameSlot

\* What a page sends, whichever row its identifier finds.
LEMMA PutMatchSends ==
    ASSUME NEW c \in Clients, NEW m, NEW win, NEW request, PutMatch(c, m, win, request)
    PROVE  \E todo, x :
            /\ x \in Matches /\ x.id = m.id
            /\ Becomes(c, Then(todo, Upserting(x, [m EXCEPT !.win = win])))
            /\ Starts(c, request) /\ UNCHANGED <<table, minted, view>>
<1>1. PICK x \in Matches :
        /\ x.id = m.id
        /\ Becomes(c, Then(SelectSeq(<<m.a1, m.a2>>,
                                      LAMBDA a : a \notin {None, x.a1, x.a2, x.win}),
                           Upserting(x, [m EXCEPT !.win = win])))
    BY DEF PutMatch
<1>2. Starts(c, request) /\ UNCHANGED <<table, minted, view>>
    BY DEF PutMatch
<1> QED
    BY <1>1, <1>2

LEMMA PutMatchFits ==
    ASSUME TypeOK, KnownFit, NEW c \in Clients, NEW m \in Known, IsMatch(m),
           NEW win, win \in {m.a1, m.a2, None},
           NEW request, PutMatch(c, m, win, request)
    PROVE  TypeOK' /\ KnownFit'
<1> DEFINE n == [m EXCEPT !.win = win]
<1>1. PICK todo, x :
        /\ Becomes(c, Then(todo, Upserting(x, n)))
        /\ Starts(c, request) /\ UNCHANGED <<table, minted, view>>
    BY PutMatchSends
<1>2. LET k == [m EXCEPT !.win = win]
      IN  /\ k.kind = "match" /\ k.id = m.id /\ k.win = win /\ k.a1 = m.a1 /\ k.a2 = m.a2
          /\ SameSlot(k, m) /\ IsMatch(k) /\ IsItem(k)
    BY Rewon
<1>3. /\ n.kind = "match" /\ n.id = m.id /\ n.win = win /\ n.a1 = m.a1 /\ n.a2 = m.a2
      /\ SameSlot(n, m) /\ IsItem(n)
    BY <1>2
<1> DEFINE r == Then(todo, Upserting(x, n))
           new == {n}
<1>4. IsRequest(r) /\ Holds(Pending(r)) = {n}
    <2> DEFINE then == Upserting(x, n)
    <2> HIDE DEF n
    <2>1. IsWrite(then)
        BY <1>3, Shaped
    <2>2. Holds(Pending(then)) = {n} /\ Pending(then) = then
        BY DEF Upserting, Holds, Pending
    <2> HIDE DEF then
    <2>3. IsRequest(Then(todo, then))
        BY <2>1, Shaped
    <2>4. Pending(Then(todo, then)) = then
        BY <2>2, Handed
    <2> QED
        BY <2>2, <2>3, <2>4 DEF then
<1>5. Looks(c, r)
    <2> HIDE DEF r
    <2> QED
        BY <1>1, StartsLooks DEF r
<1> HIDE DEF n
<1>6. /\ \A k \in new : k.id \in 1..minted'.ids /\ Sound(k)
      /\ \A k \in new : \/ k.id > minted.ids
                        \/ \E j \in Known : j.id = k.id /\ SameSlot(j, k)
      /\ \A k, j \in new : k.id = j.id => SameSlot(k, j)
    <2>1. m.id \in 1..minted.ids /\ minted' = minted
        BY <1>1 DEF KnownFit
    <2>2. Sound(n)
        BY <1>3 DEF Sound
    <2>3. SameSlot(m, n) /\ SameSlot(n, n)
        BY <1>3 DEF SameSlot
    <2> QED
        BY <1>3, <2>1, <2>2, <2>3
<1>7. /\ \A i \in table' : IsItem(i) /\ (i.kind = "match" => i \in Known \union new)
      /\ \A i \in Holds(Pending(r)) : i.kind = "match" => i \in Known \union new
    BY <1>1, <1>4, KnownIs DEF TypeOK
<1> HIDE DEF r, new
<1>8. /\ Becomes(c, r) /\ view' = view /\ spent' \in [Clients -> Nat]
      /\ minted' = [ids |-> minted'.ids, athletes |-> minted'.athletes]
      /\ minted'.ids \in Nat /\ minted'.ids >= minted.ids
    BY <1>5 DEF Looks
<1> QED
    BY <1>4, <1>6, <1>7, <1>8, StepFits

LEMMA CachedIsKnown ==
    ASSUME TypeOK, NEW c \in Clients, NEW m \in Cached(c)
    PROVE  m \in Known /\ IsMatch(m)
<1>1. CASE m \in Matches
    BY <1>1, KnownIs DEF TypeOK, IsItem
<1>2. CASE m \in view[c]
    BY <1>2, KnownIs DEF TypeOK
<1> QED
    BY <1>1, <1>2 DEF Cached

LEMMA PutWinnerFits ==
    ASSUME TypeOK, KnownFit, NEW c \in Clients, PutWinner(c) \/ ClearWinner(c)
    PROVE  TypeOK' /\ KnownFit'
<1>1. \E m \in Cached(c) : \E win, request :
        win \in {m.a1, m.a2, None} /\ PutMatch(c, m, win, request)
    <2>1. CASE PutWinner(c)
        <3>1. PICK m \in Cached(c) : \E w \in Contenders(m) \ {m.win} :
                PutMatch(c, m, w, IF m.win = None THEN "putWinner" ELSE "changeWinner")
            BY <2>1 DEF PutWinner
        <3>3. PICK w \in Contenders(m) \ {m.win} :
                PutMatch(c, m, w, IF m.win = None THEN "putWinner" ELSE "changeWinner")
            BY <3>1
        <3>2. w \in {m.a1, m.a2, None}
            BY DEF Contenders
        <3> QED
            BY <3>3, <3>2
    <2>2. CASE ClearWinner(c)
        BY <2>2 DEF ClearWinner
    <2> QED
        BY <2>1, <2>2
<1>2. PICK m \in Cached(c) : \E win, request :
        win \in {m.a1, m.a2, None} /\ PutMatch(c, m, win, request)
    BY <1>1
<1>4. PICK win, request : win \in {m.a1, m.a2, None} /\ PutMatch(c, m, win, request)
    BY <1>2
<1>3. m \in Known /\ IsMatch(m)
    BY CachedIsKnown
<1> QED
    BY <1>4, <1>3, PutMatchFits

LEMMA PostsLooks ==
    ASSUME TypeOK, NEW c \in Clients, NEW request, NEW todo, NEW then,
           Posts(c, request, todo, then)
    PROVE  Looks(c, Then(todo, then)) /\ minted'.ids = minted.ids + 1
<1>1. /\ Becomes(c, Then(todo, then)) /\ Starts(c, request)
      /\ minted' = [minted EXCEPT !.ids = @ + 1] /\ UNCHANGED <<table, view>>
    BY DEF Posts
<1>2. /\ minted' = [ids |-> minted'.ids, athletes |-> minted'.athletes]
      /\ minted'.ids = minted.ids + 1 /\ minted.ids \in Nat
    BY <1>1 DEF TypeOK
<1>3. spent' \in [Clients -> Nat]
    BY <1>1, TypeStarts
<1> QED
    BY <1>1, <1>2, <1>3 DEF Looks

LEMMA PostMatchFits ==
    ASSUME TypeOK, KnownFit, NEW c \in Clients, PostMatch(c)
    PROVE  TypeOK' /\ KnownFit'
<1>1. PICK round \in PostRounds, a1 \in minted.athletes, a2 \in minted.athletes :
        Posts(c, "postMatch", <<a1, a2>>,
              Creating(MatchItem(minted.ids + 1, Row(round, 1, a1, a2), None)))
    BY DEF PostMatch
<1> DEFINE id == minted.ids + 1
           row == Row(round, 1, a1, a2)
           n == MatchItem(id, row, None)
           new == {n}
           todo == <<a1, a2>>
           then == Creating(n)
           r == Then(todo, then)
<1>2. Posts(c, "postMatch", todo, then)
    BY <1>1
<1>3. LET k == MatchItem(id, row, None)
      IN  /\ k.kind = "match" /\ k.id = id /\ k.win = None
          /\ k.round = row.round /\ k.pos = row.pos /\ k.a1 = row.a1 /\ k.a2 = row.a2
          /\ IsMatch(k) /\ IsItem(k)
    BY MatchFields
<1>4. n.kind = "match" /\ n.id = minted.ids + 1 /\ n.win = None /\ IsItem(n)
    BY <1>3
<1> HIDE DEF n, todo
<1>5. IsRequest(r) /\ Holds(Pending(r)) = new
    <2>1. IsWrite(then)
        BY <1>4, Shaped
    <2>2. Holds(Pending(then)) = {n} /\ Pending(then) = then
        BY DEF Creating, Holds, Pending
    <2> HIDE DEF then
    <2>3. IsRequest(Then(todo, then)) /\ Pending(Then(todo, then)) = then
        BY <2>1, <2>2, Shaped, Handed
    <2> QED
        BY <2>2, <2>3
<1> HIDE DEF then
<1>6. Looks(c, r) /\ minted'.ids = minted.ids + 1
    BY <1>2, PostsLooks
<1> HIDE DEF r
<1>7. /\ \A k \in new : k.id \in 1..minted'.ids /\ Sound(k)
      /\ \A k \in new : \/ k.id > minted.ids
                        \/ \E j \in Known : j.id = k.id /\ SameSlot(j, k)
      /\ \A k, j \in new : k.id = j.id => SameSlot(k, j)
    BY <1>4, <1>6 DEF Sound, SameSlot, TypeOK
<1>8. /\ \A i \in table' : IsItem(i) /\ (i.kind = "match" => i \in Known \union new)
      /\ \A i \in Holds(Pending(r)) : i.kind = "match" => i \in Known \union new
    BY <1>5, <1>6, KnownIs DEF TypeOK, Looks
<1> HIDE DEF new
<1>9. /\ Becomes(c, r) /\ view' = view /\ spent' \in [Clients -> Nat]
      /\ minted' = [ids |-> minted'.ids, athletes |-> minted'.athletes]
      /\ minted'.ids \in Nat /\ minted'.ids >= minted.ids
    BY <1>6 DEF Looks
<1> QED
    BY <1>5, <1>7, <1>8, <1>9, StepFits

\* A request that carries no match.
LEMMA NoMatchFits ==
    ASSUME TypeOK, KnownFit, NEW c \in Clients, NEW r, IsRequest(r), Looks(c, r),
           \A i \in Holds(Pending(r)) : i.kind # "match"
    PROVE  TypeOK' /\ KnownFit'
BY LooksFits

LEMMA OtherItems ==
    /\ \A id, a, ms : IsItem(TimeItem(id, a, ms)) /\ TimeItem(id, a, ms).kind = "time"
    /\ \A id, a, mark : IsItem(ScoreItem(id, a, mark)) /\ ScoreItem(id, a, mark).kind = "score"
    /\ \A a : IsItem(AthleteItem(a)) /\ AthleteItem(a).kind = "athlete"
BY DEF IsItem, TimeItem, ScoreItem, AthleteItem

LEMMA OtherWrites ==
    ASSUME NEW item, NEW old, NEW todo, IsItem(item), item.kind # "match"
    PROVE  \A then \in {Creating(item), Upserting(old, item), Dropping(item)} :
            /\ IsRequest(then) /\ \A i \in Holds(Pending(then)) : i.kind # "match"
            /\ IsRequest(Then(todo, then))
            /\ \A i \in Holds(Pending(Then(todo, then))) : i.kind # "match"
<1> TAKE then \in {Creating(item), Upserting(old, item), Dropping(item)}
<1>1. IsWrite(then)
    BY Shaped
<1>2. Holds(Pending(then)) = {item} /\ Pending(then) = then
    BY DEF Creating, Upserting, Dropping, Holds, Pending
<1>3. IsRequest(then) /\ IsRequest(Then(todo, then))
    BY <1>1, Shaped
<1>4. Pending(Then(todo, then)) = then
    BY <1>2, Handed
<1> QED
    BY <1>2, <1>3, <1>4

LEMMA PostTimeFits ==
    ASSUME TypeOK, KnownFit, NEW c \in Clients, PostTime(c)
    PROVE  TypeOK' /\ KnownFit'
<1>1. PICK a \in minted.athletes, ms \in Elapsed :
        Posts(c, "postTime", <<a>>, Creating(TimeItem(minted.ids + 1, a, ms)))
    BY DEF PostTime
<1> DEFINE item == TimeItem(minted.ids + 1, a, ms)
           todo == <<a>>
           then == Creating(item)
<1>2. IsItem(item) /\ item.kind # "match"
    BY OtherItems
<1>3. Posts(c, "postTime", todo, then)
    BY <1>1
<1> HIDE DEF item, todo
<1>4. IsRequest(Then(todo, then)) /\ \A i \in Holds(Pending(Then(todo, then))) : i.kind # "match"
    BY <1>2, OtherWrites
<1> HIDE DEF then
<1>5. Looks(c, Then(todo, then))
    BY <1>3, PostsLooks
<1> QED
    BY <1>4, <1>5, NoMatchFits

LEMMA DeletesFit ==
    ASSUME TypeOK, KnownFit, NEW c \in Clients,
           DeleteMatch(c) \/ DeleteTime(c) \/ DeleteScore(c)
    PROVE  TypeOK' /\ KnownFit'
<1>1. \E kind, request : /\ Starts(c, request)
                         /\ \E item \in OfKind(kind) : Becomes(c, Dropping(item))
                         /\ UNCHANGED <<table, minted, view>>
    BY DEF DeleteMatch, DeleteTime, DeleteScore, Finds
<1>2. PICK kind, request : /\ Starts(c, request)
                           /\ \E item \in OfKind(kind) : Becomes(c, Dropping(item))
                           /\ UNCHANGED <<table, minted, view>>
    BY <1>1
<1>3. PICK item \in OfKind(kind) : Becomes(c, Dropping(item))
    BY <1>2
<1>4. item \in table /\ IsItem(item) /\ (item.kind = "match" => item \in Known)
    BY KnownIs DEF OfKind, Among, TypeOK
<1> DEFINE r == Dropping(item)
<1>5. IsRequest(r) /\ Holds(Pending(r)) = {item}
    BY <1>4, Shaped, Handed
<1> HIDE DEF r
<1>6. Looks(c, r)
    BY <1>2, <1>3, StartsLooks DEF r
<1> QED
    BY <1>4, <1>5, <1>6, LooksFits

LEMMA ReassignsFit ==
    ASSUME TypeOK, KnownFit, NEW c \in Clients, PutTime(c) \/ PutScore(c)
    PROVE  TypeOK' /\ KnownFit'
<1>1. \E kind, request, a : /\ Starts(c, request) /\ kind \in {"time", "score"}
                            /\ \E item \in OfKind(kind) : Becomes(c, Reassigned(item, a))
                            /\ UNCHANGED <<table, minted, view>>
    BY DEF PutTime, PutScore, Finds
<1>2. PICK kind, request, a : /\ Starts(c, request) /\ kind \in {"time", "score"}
                            /\ \E item \in OfKind(kind) : Becomes(c, Reassigned(item, a))
                            /\ UNCHANGED <<table, minted, view>>
    BY <1>1
<1>3. PICK item \in OfKind(kind) : Becomes(c, Reassigned(item, a))
    BY <1>2
<1> DEFINE new == [item EXCEPT !.athlete = a]
<1>4. IsItem(new) /\ new.kind # "match"
    <2>1. IsItem(item) /\ item.kind \in {"time", "score"}
        BY <1>2 DEF OfKind, Among, TypeOK
    <2>2. CASE item.kind = "time"
        <3>1. item = TimeItem(item.id, item.athlete, item.ms)
            BY <2>1, <2>2 DEF IsItem
        <3>2. new = TimeItem(item.id, a, item.ms)
            BY <3>1 DEF TimeItem
        <3> HIDE DEF new
        <3> QED
            BY <3>2, OtherItems
    <2>3. CASE item.kind = "score"
        <3>1. item = ScoreItem(item.id, item.athlete, item.mark)
            BY <2>1, <2>3 DEF IsItem
        <3>2. new = ScoreItem(item.id, a, item.mark)
            BY <3>1 DEF ScoreItem
        <3> HIDE DEF new
        <3> QED
            BY <3>2, OtherItems
    <2> QED
        BY <2>1, <2>2, <2>3
<1>5. PICK todo : Reassigned(item, a) = Then(todo, Upserting(item, new))
    BY DEF Reassigned
<1> HIDE DEF new
<1> DEFINE then == Upserting(item, new)
           r == Then(todo, then)
<1>6. IsRequest(r) /\ \A i \in Holds(Pending(r)) : i.kind # "match"
    BY <1>4, OtherWrites
<1> HIDE DEF then
<1>7. Becomes(c, r)
    BY <1>3, <1>5 DEF then
<1> HIDE DEF r
<1>8. Looks(c, r)
    BY <1>2, <1>7, StartsLooks
<1> QED
    BY <1>6, <1>8, NoMatchFits

LEMMA PostScoreFits ==
    ASSUME TypeOK, KnownFit, NEW c \in Clients, PostScore(c)
    PROVE  TypeOK' /\ KnownFit'
<1>1. PICK a \in minted.athletes, mark \in Marks :
        /\ Starts(c, "postScore")
        /\ Becomes(c, Checking(<<a>>, [at |-> "score", athlete |-> a, mark |-> mark]))
        /\ UNCHANGED <<table, minted, view>>
    BY DEF PostScore
<1> DEFINE then == [at |-> "score", athlete |-> a, mark |-> mark]
           todo == <<a>>
           r == Checking(todo, then)
<1>2. IsScoring(then) /\ Holds(then) = {}
    BY DEF IsScoring, Holds
<1>3. Becomes(c, r) /\ Starts(c, "postScore") /\ UNCHANGED <<table, minted, view>>
    BY <1>1
<1> HIDE DEF then, todo
<1>4. IsRequest(r) /\ Holds(Pending(r)) = {}
    BY <1>2, Shaped, Handed
<1> HIDE DEF r
<1>5. Looks(c, r)
    BY <1>3, StartsLooks
<1> QED
    BY <1>4, <1>5, NoMatchFits

LEMMA FindScoreFits ==
    ASSUME TypeOK, KnownFit, NEW c \in Clients, FindScore(c)
    PROVE  TypeOK' /\ KnownFit'
<1> DEFINE a == req[c].athlete
           held == {s \in OfKind("score") : s.athlete = a}
<1>1. CASE held = {}
    <2> DEFINE item == ScoreItem(minted.ids + 1, a, req[c].mark)
               r == Creating(item)
    <2>1. /\ Becomes(c, r) /\ minted' = [minted EXCEPT !.ids = @ + 1]
          /\ UNCHANGED <<table, view, spent>>
        BY <1>1 DEF FindScore
    <2>2. IsItem(item) /\ item.kind # "match"
        BY OtherItems
    <2> HIDE DEF item
    <2>3. IsRequest(r) /\ \A i \in Holds(Pending(r)) : i.kind # "match"
        BY <2>2, OtherWrites
    <2> HIDE DEF r
    <2>4. Looks(c, r)
        BY <2>1 DEF Looks, TypeOK
    <2> QED
        BY <2>3, <2>4, NoMatchFits
<1>2. CASE held # {}
    <2> DEFINE s == CHOOSE s \in held : TRUE
               new == [s EXCEPT !.mark = req[c].mark]
               r == Upserting(s, new)
    <2>1. Reads(c, r)
        BY <1>2 DEF FindScore
    <2>2. s \in held
        <3> HIDE DEF held
        <3> QED
            BY <1>2
    <2>3. IsItem(new) /\ new.kind # "match"
        <3>1. IsItem(s) /\ s.kind = "score"
            <4> HIDE DEF s
            <4> QED
                BY <2>2 DEF OfKind, Among, TypeOK
        <3> HIDE DEF s
        <3>2. s = ScoreItem(s.id, s.athlete, s.mark)
            BY <3>1 DEF IsItem
        <3>3. new = ScoreItem(s.id, s.athlete, req[c].mark)
            BY <3>2 DEF ScoreItem
        <3> HIDE DEF new
        <3> QED
            BY <3>3, OtherItems
    <2> HIDE DEF s, new
    <2>4. IsRequest(r) /\ \A i \in Holds(Pending(r)) : i.kind # "match"
        BY <2>3, OtherWrites
    <2> HIDE DEF r
    <2>5. Looks(c, r)
        BY <2>1, ReadsLooks
    <2> QED
        BY <2>4, <2>5, NoMatchFits
<1> QED
    BY <1>1, <1>2

LEMMA PostAthleteFits ==
    ASSUME TypeOK, KnownFit, NEW c \in Clients, PostAthlete(c)
    PROVE  TypeOK' /\ KnownFit'
<1>1. PICK a \in Athletes \ minted.athletes :
        /\ Starts(c, "postAthlete") /\ Becomes(c, Creating(AthleteItem(a)))
        /\ minted' = [minted EXCEPT !.athletes = @ \union {a}]
        /\ UNCHANGED <<table, view>>
    BY DEF PostAthlete
<1> DEFINE item == AthleteItem(a)
           r == Creating(item)
<1>2. IsItem(item) /\ item.kind # "match"
    BY OtherItems
<1>3. Becomes(c, r)
    BY <1>1
<1> HIDE DEF item
<1>4. IsRequest(r) /\ \A i \in Holds(Pending(r)) : i.kind # "match"
    BY <1>2, OtherWrites
<1> HIDE DEF r
<1>5. spent' \in [Clients -> Nat]
    BY <1>1, TypeStarts
<1>6. /\ minted' = [ids |-> minted'.ids, athletes |-> minted'.athletes]
      /\ minted'.ids \in Nat /\ minted'.ids >= minted.ids
    <2>1. minted' = [ids |-> minted.ids, athletes |-> minted.athletes \union {a}]
        BY <1>1 DEF TypeOK
    <2>2. minted.ids \in Nat
        BY DEF TypeOK
    <2> QED
        BY <2>1, <2>2
<1>7. Looks(c, r)
    BY <1>1, <1>3, <1>5, <1>6 DEF Looks
<1> QED
    BY <1>4, <1>7, NoMatchFits

LEMMA DeleteAthleteFits ==
    ASSUME TypeOK, KnownFit, NEW c \in Clients, DeleteAthlete(c)
    PROVE  TypeOK' /\ KnownFit'
<1>1. PICK a \in AthletesListed :
        /\ Starts(c, "deleteAthlete")
        /\ Becomes(c, [at |-> "queries", athlete |-> a, todo |-> {"time", "match", "score"},
                       hit |-> FALSE, bound |-> {item \in table : Refers(item, a)}])
        /\ UNCHANGED <<table, minted, view>>
    BY DEF DeleteAthlete
<1> DEFINE r == [at |-> "queries", athlete |-> a, todo |-> {"time", "match", "score"},
                 hit |-> FALSE, bound |-> {item \in table : Refers(item, a)}]
<1>2. IsRequest(r) /\ Holds(Pending(r)) = {}
    BY DEF IsRequest, Holds, Pending
<1>3. Becomes(c, r)
    BY <1>1
<1> HIDE DEF r
<1>4. Looks(c, r)
    BY <1>1, <1>3, StartsLooks
<1> QED
    BY <1>2, <1>4, NoMatchFits

LEMMA NextQuery ==
    ASSUME NEW a, NEW todo, NEW hit, NEW bound, NEW left, NEW now, NEW q, NEW r,
           q = [at |-> "queries", athlete |-> a, todo |-> todo, hit |-> hit, bound |-> bound],
           r = [q EXCEPT !.todo = left, !.hit = now]
    PROVE  r = [at |-> "queries", athlete |-> a, todo |-> left, hit |-> now, bound |-> bound]
OBVIOUS

LEMMA QueryReferencesFits ==
    ASSUME TypeOK, KnownFit, NEW c \in Clients, QueryReferences(c)
    PROVE  TypeOK' /\ KnownFit'
<1> DEFINE q == req[c]
           Asked(left, hit) == [q EXCEPT !.todo = left, !.hit = hit]
           Passed == [at |-> "remove", athlete |-> q.athlete, bound |-> q.bound]
<1>1. \E left, hit : Reads(c, Asked(left, hit)) \/ Reads(c, Idle) \/ Reads(c, Passed)
    <2>1. PICK kind \in q.todo :
            LET hit == q.hit \/ \E item \in OfKind(kind) : Refers(item, q.athlete)
                left == q.todo \ {kind}
            IN  Reads(c, IF left # {} THEN [q EXCEPT !.todo = left, !.hit = hit]
                         ELSE IF hit THEN Idle
                         ELSE [at |-> "remove", athlete |-> q.athlete, bound |-> q.bound])
        BY DEF QueryReferences
    <2> QED
        BY <2>1
<1>2. PICK left, hit : Reads(c, Asked(left, hit)) \/ Reads(c, Idle) \/ Reads(c, Passed)
    BY <1>1
<1>3. IsRequest(Asked(left, hit)) /\ Holds(Pending(Asked(left, hit))) = {}
    <2> DEFINE a == q.athlete
               todo == q.todo
               was == q.hit
               bound == q.bound
               r == Asked(left, hit)
    <2>1. q = [at |-> "queries", athlete |-> a, todo |-> todo, hit |-> was, bound |-> bound]
        <3>1. q.at = "queries" /\ IsRequest(q)
            BY DEF QueryReferences, TypeOK
        <3> QED
            BY <3>1, ByStage
    <2>2. r = [q EXCEPT !.todo = left, !.hit = hit]
        OBVIOUS
    <2> HIDE DEF a, todo, was, bound, q, r
    <2>3. r = [at |-> "queries", athlete |-> a, todo |-> left, hit |-> hit, bound |-> bound]
        BY <2>1, <2>2, NextQuery
    <2>4. IsRequest(r) /\ Holds(Pending(r)) = {}
        BY <2>3 DEF IsRequest, Holds, Pending
    <2> QED
        BY <2>4 DEF r
<1>4. /\ IsRequest(Passed) /\ Holds(Pending(Passed)) = {}
      /\ IsRequest(Idle) /\ Holds(Pending(Idle)) = {}
    BY DEF IsRequest, Holds, Pending, Idle
<1> HIDE DEF Asked, Passed, Idle
<1>5. \E r : Looks(c, r) /\ IsRequest(r) /\ Holds(Pending(r)) = {}
    BY <1>2, <1>3, <1>4, ReadsLooks
<1>6. PICK r : Looks(c, r) /\ IsRequest(r) /\ Holds(Pending(r)) = {}
    BY <1>5
<1> QED
    BY <1>6, NoMatchFits

-----------------------------------------------------------------------------
(* One item under one key.                                                  *)

LEMMA PutOverIsOne ==
    ASSUME KeysAreOne, NEW items, \A i, j \in items : Key(i) = Key(j) => i = j,
           table' = PutOver(items)
    PROVE  KeysAreOne'
<1>1. \A i \in table' : i \in items \/ (i \in table /\ \A n \in items : Key(n) # Key(i))
    BY DEF PutOver
<1>2. \A i, j \in table' : Key(i) = Key(j) => i = j
    BY <1>1 DEF KeysAreOne
<1> QED
    BY <1>2 DEF KeysAreOne

LEMMA KeysStep ==
    ASSUME MatchInv, NEW c \in Clients, Calls(c) \/ Asks(c)
    PROVE  KeysAreOne'
<1>1. CASE UNCHANGED table
    BY <1>1 DEF MatchInv, KeysAreOne
<1>2. CASE Create(c)
    <2>1. UNCHANGED table \/ table' = PutOver({req[c].item})
        BY <1>2 DEF Create, Writes
    <2> QED
        BY <1>1, <2>1, PutOverIsOne DEF MatchInv
<1>3. CASE Upsert(c)
    <2> DEFINE old == req[c].old
               item == req[c].item
    <2>1. \/ UNCHANGED table
          \/ /\ table' = Without(old) \union {item}
             /\ Key(item) = old \/ ~ Present(Key(item))
        BY <1>3 DEF Upsert, Writes
    <2>2. ASSUME table' = Without(old) \union {item}, Key(item) = old \/ ~ Present(Key(item))
          PROVE  KeysAreOne'
        <3>1. \A i \in table' : i = item \/ (i \in table /\ Key(i) # Key(item))
            BY <2>2 DEF Without, Present
        <3>2. \A i, j \in table' : Key(i) = Key(j) => i = j
            BY <3>1 DEF MatchInv, KeysAreOne
        <3> QED
            BY <3>2 DEF KeysAreOne
    <2> QED
        BY <1>1, <2>1, <2>2
<1>4. CASE Drop(c) \/ RemoveAthlete(c)
    <2>1. \E key : table' = Without(key)
        BY <1>4 DEF Drop, RemoveAthlete, Writes
    <2>2. \A i \in table' : i \in table
        BY <2>1, Keeping
    <2> QED
        BY <2>2 DEF MatchInv, KeysAreOne
<1>5. CASE WriteBracket(c)
    <2> DEFINE items == req[c].items
    <2>1. table' = PutOver(items)
        BY <1>5 DEF WriteBracket, Writes
    <2>2. req[c].at = "bracket" /\ IsRequest(req[c])
        BY <1>5 DEF WriteBracket, MatchInv, TypeOK
    <2>3. /\ \A t \in items : IsItem(t) /\ t.kind = "match"
          /\ \A s, t \in items : SameSlot(s, t) => s = t
        BY <2>2, ByStage DEF IsBracket, IsItem
    <2>4. \A t \in items : t \in Known
        BY <2>2, <2>3, KnownIs DEF Holds, Pending
    <2>5. \A i, j \in items : Key(i) = Key(j) => i = j
        <3> SUFFICES ASSUME NEW i \in items, NEW j \in items, Key(i) = Key(j) PROVE i = j
            OBVIOUS
        <3>1. IsItem(i) /\ IsItem(j) /\ i.kind = "match"
            BY <2>3
        <3>2. i.id = j.id
            BY <3>1, KeyNames
        <3>3. i \in Known /\ j \in Known
            BY <2>4
        <3> QED
            BY <3>2, <3>3, <2>3 DEF MatchInv, KnownFit
    <2> HIDE DEF items
    <2> QED
        BY <2>1, <2>5, PutOverIsOne DEF MatchInv
<1>6. CASE Asks(c)
    <2>1. UNCHANGED table
        BY <1>6 DEF Asks, SeedAthletes, AdvanceSource, Refetch, PutWinner, ClearWinner, PutMatch,
            PostMatch, PostTime, Posts, PutTime, PutScore, DeleteMatch, DeleteTime, DeleteScore,
            Finds, PostScore, PostAthlete, DeleteAthlete
    <2> QED
        BY <1>1, <2>1
<1>7. CASE CheckAthlete(c) \/ SeedRanking(c) \/ SeedEntry(c) \/ AdvanceDownstream(c)
            \/ FindScore(c) \/ QueryReferences(c)
    <2>1. UNCHANGED table
        <3>1. CASE CheckAthlete(c)
            BY <3>1 DEF CheckAthlete, Reads
        <3>2. CASE SeedRanking(c)
            BY <3>2 DEF SeedRanking, Reads
        <3>3. CASE SeedEntry(c)
            BY <3>3 DEF SeedEntry, Reads, Builds
        <3>4. CASE AdvanceDownstream(c)
            BY <3>4 DEF AdvanceDownstream, Reads, Builds
        <3>5. CASE FindScore(c)
            BY <3>5 DEF FindScore, Reads
        <3>6. CASE QueryReferences(c)
            BY <3>6 DEF QueryReferences, Reads
        <3> QED
            BY <1>7, <3>1, <3>2, <3>3, <3>4, <3>5, <3>6
    <2> QED
        BY <1>1, <2>1
<1> QED
    BY <1>2, <1>3, <1>4, <1>5, <1>6, <1>7 DEF Calls

-----------------------------------------------------------------------------
(* The invariant of the matches, and what follows from it.                  *)

LEMMA MatchInit == Init => MatchInv
<1> SUFFICES ASSUME Init PROVE MatchInv
    OBVIOUS
<1>1. TypeOK
    BY TypeInit
<1>2. Known = {}
    <2>1. \A i \in table : i.kind # "match"
        BY ShiftsAssumption DEF Init
    <2>2. \A c \in Clients : view[c] = {} /\ Holds(Pending(req[c])) = {}
        BY DEF Init, Idle, Holds, Pending
    <2> QED
        BY <2>1, <2>2 DEF Known
<1>3. KnownFit
    BY <1>2 DEF KnownFit
<1>4. KeysAreOne
    BY ShiftsAssumption DEF Init, KeysAreOne
<1> QED
    BY <1>1, <1>3, <1>4 DEF MatchInv

LEMMA MatchStep ==
    ASSUME MatchInv, [Next]_vars
    PROVE  MatchInv'
<1> USE DEF MatchInv
<1>1. CASE UNCHANGED vars
    BY <1>1 DEF vars, TypeOK, KnownFit, Known, KeysAreOne, Sound, SameSlot
<1>2. ASSUME NEW c \in Clients, Calls(c) \/ Asks(c) PROVE TypeOK' /\ KnownFit'
    <2>1. CASE CheckAthlete(c) \/ Create(c) \/ Upsert(c) \/ Drop(c) \/ RemoveAthlete(c)
        BY <2>1, CheckAthleteFits, CreateFits, UpsertFits, DropFits
    <2>2. CASE SeedRanking(c) \/ SeedEntry(c) \/ AdvanceDownstream(c) \/ WriteBracket(c)
        BY <2>2, SeedRankingFits, SeedEntryFits, AdvanceDownstreamFits, WriteBracketFits
    <2>3. CASE FindScore(c) \/ QueryReferences(c)
        BY <2>3, FindScoreFits, QueryReferencesFits
    <2>4. CASE \E override \in Overrides, force \in BOOLEAN : SeedAthletes(c, override, force)
        BY <2>4, SeedAthletesFits
    <2>5. CASE \E from \in EntryRounds, force \in BOOLEAN : AdvanceSource(c, from, force)
        BY <2>5, AdvanceSourceFits
    <2>6. CASE Refetch(c) \/ PutWinner(c) \/ ClearWinner(c)
        BY <2>6, RefetchFits, PutWinnerFits
    <2>7. CASE PostMatch(c) \/ PostTime(c) \/ PostScore(c) \/ PostAthlete(c)
        BY <2>7, PostMatchFits, PostTimeFits, PostScoreFits, PostAthleteFits
    <2>8. CASE DeleteMatch(c) \/ DeleteTime(c) \/ DeleteScore(c) \/ DeleteAthlete(c)
        BY <2>8, DeletesFit, DeleteAthleteFits
    <2>9. CASE PutTime(c) \/ PutScore(c)
        BY <2>9, ReassignsFit
    <2> QED
        BY <1>2, <2>1, <2>2, <2>3, <2>4, <2>5, <2>6, <2>7, <2>8, <2>9 DEF Calls, Asks
<1>3. ASSUME Next PROVE MatchInv'
    <2>1. PICK c \in Clients : Calls(c) \/ Asks(c)
        BY <1>3 DEF Next
    <2> HIDE DEF MatchInv
    <2>2. TypeOK' /\ KnownFit'
        BY <2>1, <1>2
    <2>3. KeysAreOne'
        BY <2>1, KeysStep
    <2> QED
        BY <2>2, <2>3 DEF MatchInv
<1> QED
    BY <1>1, <1>3

\* Whatever requests interleave, every item keeps its shape, an identifier stands
\* for one slot and no key for two items.
THEOREM ApiMatchesFit == Spec => []MatchInv
<1>1. Init => MatchInv
    BY MatchInit
<1>2. MatchInv /\ [Next]_vars => MatchInv'
    BY MatchStep
<1> QED
    BY <1>1, <1>2, PTL DEF Spec

\* A stored winner is one of the match's athletes, for any clients, requests and
\* interleaving, stale pages and forced writes included (validateMatchInput,
\* advanceBracket).
THEOREM WinnersContend == Spec => []StoredWinnerContends
<1>1. MatchInv => StoredWinnerContends
    <2> SUFFICES ASSUME MatchInv, NEW m \in Matches
                 PROVE  m.win \in Contenders(m) \union {None}
        BY DEF StoredWinnerContends
    <2>1. Sound(m)
        BY KnownIs DEF MatchInv, KnownFit
    <2> QED
        BY <2>1 DEF Sound, Contenders
<1> QED
    BY <1>1, ApiMatchesFit, PTL

\* An identifier names one stored match, so a lookup by identifier has one answer
\* whatever was moved, overwritten or created meanwhile (findMatchById).
THEOREM IdentifiersName == Spec => []OneMatchPerId
<1>1. MatchInv => OneMatchPerId
    <2> SUFFICES ASSUME MatchInv, NEW m \in Matches, NEW n \in Matches, m.id = n.id
                 PROVE  m = n
        BY DEF OneMatchPerId
    <2>1. m \in table /\ n \in table /\ m.kind = "match" /\ n.kind = "match"
        BY KnownIs
    <2>2. m.round = n.round
        BY KnownIs DEF MatchInv, KnownFit, SameSlot
    <2>3. Key(m) = Key(n)
        BY <2>1, <2>2, MatchKeys
    <2> QED
        BY <2>1, <2>3 DEF MatchInv, KeysAreOne
<1> QED
    BY <1>1, ApiMatchesFit, PTL

-----------------------------------------------------------------------------
(* A step moves one client, which has a request or may make one.            *)

LEMMA CallsMove ==
    ASSUME NEW c \in Clients, Calls(c)
    PROVE  req[c] # Idle /\ spent' = spent /\ \E r : Becomes(c, r)
<1>1. CASE CheckAthlete(c)
    BY <1>1 DEF CheckAthlete, Reads, Idle
<1>2. CASE Create(c)
    BY <1>2 DEF Create, Writes, Idle
<1>3. CASE Upsert(c)
    BY <1>3 DEF Upsert, Writes, Idle
<1>4. CASE Drop(c)
    BY <1>4 DEF Drop, Writes, Idle
<1>5. CASE SeedRanking(c)
    BY <1>5 DEF SeedRanking, Reads, Idle
<1>6. CASE SeedEntry(c)
    BY <1>6 DEF SeedEntry, Reads, Builds, Idle
<1>7. CASE AdvanceDownstream(c)
    <2>1. req[c].at = "downstream"
        BY <1>7 DEF AdvanceDownstream
    <2>2. \/ \E r : Reads(c, r)
          \/ \E existing, rows, win : Builds(c, existing, rows, win, "advance")
        BY <1>7 DEF AdvanceDownstream
    <2>3. spent' = spent /\ \E r : Becomes(c, r)
        BY <2>2 DEF Reads, Builds
    <2> QED
        BY <2>1, <2>3 DEF Idle
<1>8. CASE WriteBracket(c)
    BY <1>8 DEF WriteBracket, Writes, Idle
<1>9. CASE FindScore(c)
    BY <1>9 DEF FindScore, Reads, Idle
<1>10. CASE QueryReferences(c)
    BY <1>10 DEF QueryReferences, Reads, Idle
<1>11. CASE RemoveAthlete(c)
    BY <1>11 DEF RemoveAthlete, Writes, Idle
<1> QED
    BY <1>1, <1>2, <1>3, <1>4, <1>5, <1>6, <1>7, <1>8, <1>9, <1>10, <1>11 DEF Calls

LEMMA AsksMove ==
    ASSUME NEW c \in Clients, Asks(c)
    PROVE  /\ table' = table
           /\ \/ req' = req /\ spent' = spent
              \/ \E request : Starts(c, request) /\ \E r : Becomes(c, r)
<1>1. CASE \E override \in Overrides, force \in BOOLEAN : SeedAthletes(c, override, force)
    BY <1>1 DEF SeedAthletes
<1>2. CASE \E from \in EntryRounds, force \in BOOLEAN : AdvanceSource(c, from, force)
    BY <1>2 DEF AdvanceSource
<1>3. CASE Refetch(c)
    BY <1>3 DEF Refetch
<1>4. CASE PutWinner(c) \/ ClearWinner(c)
    BY <1>4 DEF PutWinner, ClearWinner, PutMatch
<1>5. CASE PostMatch(c) \/ PostTime(c) \/ PostScore(c) \/ PostAthlete(c)
    BY <1>5 DEF PostMatch, PostTime, PostScore, PostAthlete, Posts
<1>6. CASE DeleteMatch(c) \/ DeleteTime(c) \/ DeleteScore(c) \/ PutTime(c) \/ PutScore(c)
    BY <1>6 DEF DeleteMatch, DeleteTime, DeleteScore, PutTime, PutScore, Finds
<1>7. CASE DeleteAthlete(c)
    BY <1>7 DEF DeleteAthlete
<1> QED
    BY <1>1, <1>2, <1>3, <1>4, <1>5, <1>6, <1>7 DEF Asks

\* Nobody else moves, and nobody becomes active again.
LEMMA OneMoves ==
    ASSUME TypeOK, NEW c \in Clients, Calls(c) \/ Asks(c)
    PROVE  /\ \A d \in Clients : d # c => req'[d] = req[d]
           /\ \A d \in Clients : Active(d)' => Active(d)
           /\ req'[c] = req[c] \/ Active(c)
<1>1. CASE req' = req /\ spent' = spent
    BY <1>1 DEF Active
<1>2. CASE /\ Active(c) /\ \E r : Becomes(c, r)
           /\ spent' = spent \/ \E request : Starts(c, request)
    <2>1. \A d \in Clients : d # c => req'[d] = req[d] /\ spent'[d] = spent[d]
        BY <1>2 DEF Becomes, Starts, TypeOK
    <2>2. \A d \in Clients : d # c => (Active(d)' => Active(d))
        BY <2>1 DEF Active
    <2> QED
        BY <1>2, <2>1, <2>2
<1>3. CASE Calls(c)
    <2>1. req[c] # Idle /\ spent' = spent /\ \E r : Becomes(c, r)
        BY <1>3, CallsMove
    <2> QED
        BY <2>1, <1>2 DEF Active
<1>4. CASE Asks(c)
    <2>1. \/ req' = req /\ spent' = spent
          \/ \E request : Starts(c, request) /\ \E r : Becomes(c, r)
        BY <1>4, AsksMove
    <2>2. \A request : Starts(c, request) => Active(c)
        BY DEF Starts, Active
    <2> QED
        BY <2>1, <2>2, <1>1, <1>2
<1> QED
    BY <1>3, <1>4

\* What the requests that organise nothing have in hand.
LEMMA OthersAsk ==
    ASSUME OneOrganiser, MatchInv, WritesFit, NEW c \in Clients,
           \/ PutWinner(c) \/ ClearWinner(c)
           \/ PostMatch(c) \/ DeleteMatch(c)
           \/ PostTime(c) \/ PutTime(c) \/ DeleteTime(c)
           \/ PostScore(c) \/ PutScore(c) \/ DeleteScore(c)
           \/ PostAthlete(c) \/ DeleteAthlete(c)
    PROVE  \E r : Becomes(c, r) /\ r.at \notin Organising /\ WriteFits(Pending(r))
<1> USE DEF MatchInv
<1>1. ASSUME NEW todo, NEW then, then.at \notin Organising, then.at # "check", WriteFits(then)
      PROVE  /\ Then(todo, then).at \notin Organising /\ WriteFits(Pending(Then(todo, then)))
             /\ Checking(todo, then).at \notin Organising
             /\ WriteFits(Pending(Checking(todo, then)))
    <2>1. Pending(Checking(todo, then)) = then /\ Pending(then) = then
        BY <1>1 DEF Pending, Checking
    <2>2. Checking(todo, then).at \notin Organising
        BY DEF Checking, Organising
    <2>3. Then(todo, then) = then \/ Then(todo, then) = Checking(todo, then)
        BY DEF Then
    <2> QED
        BY <1>1, <2>1, <2>2, <2>3
<1>2. ASSUME NEW item, NEW old, item.kind # "match"
      PROVE  \A r \in {Creating(item), Upserting(old, item)} :
                r.at \notin Organising /\ r.at # "check" /\ WriteFits(r)
    BY <1>2 DEF Creating, Upserting, WriteFits, Organising
<1>3. CASE PutWinner(c) \/ ClearWinner(c)
    <2>1. \E m \in Cached(c) : \E win, request : PutMatch(c, m, win, request)
        BY <1>3 DEF PutWinner, ClearWinner
    <2>2. PICK m \in Cached(c) : \E win, request : PutMatch(c, m, win, request)
        BY <2>1
    <2>3. PICK win, request : PutMatch(c, m, win, request)
        BY <2>2
    <2> DEFINE n == [m EXCEPT !.win = win]
    <2>4. PICK todo, x : /\ x \in Matches /\ x.id = m.id
                         /\ Becomes(c, Then(todo, Upserting(x, n)))
        BY <2>3, PutMatchSends
    <2>5. m \in Known /\ IsMatch(m)
        BY CachedIsKnown
    <2>6. n.kind = "match" /\ n.id = m.id /\ SameSlot(n, m)
        <3>1. LET k == [m EXCEPT !.win = win]
              IN  /\ k.kind = "match" /\ k.id = m.id /\ k.win = win /\ k.a1 = m.a1 /\ k.a2 = m.a2
                  /\ SameSlot(k, m) /\ IsMatch(k) /\ IsItem(k)
            BY <2>5, Rewon
        <3> QED
            BY <3>1
    <2> HIDE DEF n
    <2>7. Key(x) = Key(n)
        <3>1. x \in Known /\ x.kind = "match"
            BY <2>4, KnownIs
        <3>2. SameSlot(x, m)
            BY <3>1, <2>4, <2>5 DEF KnownFit
        <3> QED
            BY <3>1, <3>2, <2>4, <2>6, MatchKeys DEF SameSlot
    <2> DEFINE then == Upserting(x, n)
    <2>8. then.at \notin Organising /\ then.at # "check" /\ WriteFits(then)
        BY <2>7 DEF Upserting, WriteFits, Organising
    <2> HIDE DEF then
    <2>9. /\ Then(todo, then).at \notin Organising
          /\ WriteFits(Pending(Then(todo, then)))
        BY <2>8, <1>1
    <2> QED
        BY <2>4, <2>9 DEF then
<1>4. CASE PostMatch(c)
    <2>1. PICK round \in PostRounds, a1 \in minted.athletes, a2 \in minted.athletes :
            Posts(c, "postMatch", <<a1, a2>>,
                  Creating(MatchItem(minted.ids + 1, Row(round, 1, a1, a2), None)))
        BY <1>4 DEF PostMatch
    <2> DEFINE todo == <<a1, a2>>
               n == MatchItem(minted.ids + 1, Row(round, 1, a1, a2), None)
               then == Creating(n)
    <2>2. Becomes(c, Then(todo, then))
        BY <2>1 DEF Posts
    <2>3. n.round = round
        BY DEF MatchItem, Row
    <2>4. round \notin Rounds
        BY DEF OneOrganiser
    <2> HIDE DEF n, todo
    <2>5. then.at \notin Organising /\ then.at # "check" /\ WriteFits(then)
        BY <2>3, <2>4 DEF Creating, WriteFits, Organising
    <2> HIDE DEF then
    <2>6. /\ Then(todo, then).at \notin Organising
          /\ WriteFits(Pending(Then(todo, then)))
        BY <2>5, <1>1
    <2> QED
        BY <2>2, <2>6
<1>5. CASE PostTime(c)
    <2>1. PICK a \in minted.athletes, ms \in Elapsed :
            Posts(c, "postTime", <<a>>, Creating(TimeItem(minted.ids + 1, a, ms)))
        BY <1>5 DEF PostTime
    <2> DEFINE todo == <<a>>
               item == TimeItem(minted.ids + 1, a, ms)
               then == Creating(item)
    <2>2. Becomes(c, Then(todo, then))
        BY <2>1 DEF Posts
    <2>3. item.kind # "match"
        BY OtherItems
    <2> HIDE DEF item, todo
    <2>4. then.at \notin Organising /\ then.at # "check" /\ WriteFits(then)
        BY <2>3, <1>2
    <2> HIDE DEF then
    <2>5. /\ Then(todo, then).at \notin Organising
          /\ WriteFits(Pending(Then(todo, then)))
        BY <2>4, <1>1
    <2> QED
        BY <2>2, <2>5
<1>6. CASE DeleteMatch(c) \/ DeleteTime(c) \/ DeleteScore(c)
    <2>1. \E item : Becomes(c, Dropping(item))
        BY <1>6 DEF DeleteMatch, DeleteTime, DeleteScore, Finds
    <2>2. \A item : /\ Dropping(item).at \notin Organising
                    /\ WriteFits(Pending(Dropping(item)))
        BY DEF Dropping, Pending, WriteFits, Organising
    <2> QED
        BY <2>1, <2>2
<1>7. CASE PutTime(c) \/ PutScore(c)
    <2>1. \E kind \in {"time", "score"} : \E a : \E item \in OfKind(kind) :
            Becomes(c, Reassigned(item, a))
        BY <1>7 DEF PutTime, PutScore, Finds
    <2>2. PICK kind \in {"time", "score"} : \E a : \E item \in OfKind(kind) :
            Becomes(c, Reassigned(item, a))
        BY <2>1
    <2>3. PICK a : \E item \in OfKind(kind) : Becomes(c, Reassigned(item, a))
        BY <2>2
    <2>4. PICK item \in OfKind(kind) : Becomes(c, Reassigned(item, a))
        BY <2>3
    <2> DEFINE new == [item EXCEPT !.athlete = a]
    <2>5. new.kind # "match"
        <3>1. IsItem(item) /\ item.kind \in {"time", "score"}
            BY DEF OfKind, Among, TypeOK
        <3> QED
            BY <3>1 DEF IsItem, TimeItem, ScoreItem
    <2>6. PICK todo : Reassigned(item, a) = Then(todo, Upserting(item, new))
        BY DEF Reassigned
    <2> HIDE DEF new
    <2> DEFINE then == Upserting(item, new)
    <2>7. then.at \notin Organising /\ then.at # "check" /\ WriteFits(then)
        BY <2>5, <1>2
    <2> HIDE DEF then
    <2>8. /\ Then(todo, then).at \notin Organising
          /\ WriteFits(Pending(Then(todo, then)))
        BY <2>7, <1>1
    <2> QED
        BY <2>4, <2>6, <2>8 DEF then
<1>8. CASE PostScore(c)
    <2>1. PICK a \in minted.athletes, mark \in Marks :
            Becomes(c, Checking(<<a>>, [at |-> "score", athlete |-> a, mark |-> mark]))
        BY <1>8 DEF PostScore
    <2> DEFINE then == [at |-> "score", athlete |-> a, mark |-> mark]
               todo == <<a>>
    <2>2. then.at \notin Organising /\ then.at # "check" /\ WriteFits(then)
        BY DEF WriteFits, Organising
    <2>3. Becomes(c, Checking(todo, then))
        BY <2>1
    <2> HIDE DEF then, todo
    <2>4. /\ Checking(todo, then).at \notin Organising
          /\ WriteFits(Pending(Checking(todo, then)))
        BY <2>2, <1>1
    <2> QED
        BY <2>3, <2>4
<1>9. CASE PostAthlete(c)
    <2>1. PICK a : Becomes(c, Creating(AthleteItem(a)))
        BY <1>9 DEF PostAthlete
    <2> DEFINE item == AthleteItem(a)
               r == Creating(item)
    <2>2. item.kind # "match"
        BY OtherItems
    <2>3. Becomes(c, r)
        BY <2>1
    <2> HIDE DEF item
    <2>4. r.at \notin Organising /\ r.at # "check" /\ WriteFits(r)
        BY <2>2, <1>2
    <2>5. Pending(r) = r
        BY <2>4 DEF Pending
    <2> QED
        BY <2>3, <2>4, <2>5
<1>10. CASE DeleteAthlete(c)
    <2>1. PICK a \in AthletesListed :
            Becomes(c, [at |-> "queries", athlete |-> a, todo |-> {"time", "match", "score"},
                        hit |-> FALSE, bound |-> {item \in table : Refers(item, a)}])
        BY <1>10 DEF DeleteAthlete
    <2> DEFINE r == [at |-> "queries", athlete |-> a, todo |-> {"time", "match", "score"},
                     hit |-> FALSE, bound |-> {item \in table : Refers(item, a)}]
    <2>2. r.at \notin Organising /\ WriteFits(Pending(r))
        BY DEF Pending, WriteFits, Organising
    <2>3. Becomes(c, r)
        BY <2>1
    <2> HIDE DEF r
    <2> QED
        BY <2>2, <2>3
<1> QED
    BY <1>3, <1>4, <1>5, <1>6, <1>7, <1>8, <1>9, <1>10

LEMMA CallsAsk ==
    ASSUME MatchInv, WritesFit, NEW c \in Clients,
           \/ CheckAthlete(c) \/ Create(c) \/ Upsert(c) \/ Drop(c) \/ RemoveAthlete(c)
           \/ WriteBracket(c) \/ FindScore(c) \/ QueryReferences(c)
    PROVE  \E r : Becomes(c, r) /\ r.at \notin Organising /\ WriteFits(Pending(r))
<1> USE DEF MatchInv
<1>1. Idle.at \notin Organising /\ WriteFits(Pending(Idle))
    BY DEF Idle, Pending, WriteFits, Organising
<1>2. ASSUME NEW item, NEW old, item.kind # "match"
      PROVE  \A r \in {Creating(item), Upserting(old, item)} :
                r.at \notin Organising /\ Pending(r) = r /\ WriteFits(r)
    BY <1>2 DEF Creating, Upserting, WriteFits, Organising, Pending
<1>3. CASE CheckAthlete(c)
    <2> DEFINE q == req[c]
               tail == [q EXCEPT !.todo = Tail(@)]
               then == q.then
    <2>1. q.at = "check" /\ IsRequest(q)
        BY <1>3 DEF CheckAthlete, TypeOK
    <2>2. q = Checking(q.todo, then) /\ (IsWrite(then) \/ IsScoring(then))
        BY <2>1, ByStage
    <2>3. Becomes(c, Idle) \/ Becomes(c, tail) \/ Becomes(c, then)
        BY <1>3 DEF CheckAthlete, Reads
    <2>4. tail.at = "check" /\ tail.then = then
        BY <2>2 DEF Checking
    <2>5. WriteFits(then)
        BY <2>1 DEF WritesFit, Pending
    <2> HIDE DEF q, tail
    <2>6. then.at \notin Organising /\ then.at # "check"
        BY <2>2 DEF IsWrite, IsScoring, Organising
    <2> HIDE DEF then, Idle
    <2>7. tail.at \notin Organising /\ WriteFits(Pending(tail))
        BY <2>4, <2>5 DEF Pending, Organising
    <2>8. WriteFits(Pending(then))
        BY <2>5, <2>6 DEF Pending
    <2> QED
        BY <1>1, <2>3, <2>6, <2>7, <2>8
<1>4. CASE Create(c) \/ Upsert(c) \/ Drop(c) \/ RemoveAthlete(c) \/ WriteBracket(c)
    <2>1. Becomes(c, Idle)
        BY <1>4 DEF Create, Upsert, Drop, RemoveAthlete, WriteBracket, Writes
    <2> HIDE DEF Idle
    <2> QED
        BY <1>1, <2>1
<1>5. CASE FindScore(c)
    <2> DEFINE a == req[c].athlete
               held == {s \in OfKind("score") : s.athlete = a}
    <2>1. CASE held = {}
        <3> DEFINE item == ScoreItem(minted.ids + 1, a, req[c].mark)
                   r == Creating(item)
        <3>1. Becomes(c, r)
            BY <1>5, <2>1 DEF FindScore
        <3>2. item.kind # "match"
            BY OtherItems
        <3> HIDE DEF item
        <3> QED
            BY <1>2, <3>1, <3>2
    <2>2. CASE held # {}
        <3> DEFINE s == CHOOSE s \in held : TRUE
                   new == [s EXCEPT !.mark = req[c].mark]
                   r == Upserting(s, new)
        <3>1. Becomes(c, r)
            BY <1>5, <2>2 DEF FindScore, Reads
        <3>2. s \in held
            <4> HIDE DEF held
            <4> QED
                BY <2>2
        <3>3. new.kind # "match"
            <4>1. IsItem(s) /\ s.kind = "score"
                <5> HIDE DEF s
                <5> QED
                    BY <3>2 DEF OfKind, Among, TypeOK
            <4> HIDE DEF s
            <4> QED
                BY <4>1 DEF IsItem, ScoreItem
        <3> HIDE DEF s, new
        <3> QED
            BY <1>2, <3>1, <3>3
    <2> QED
        BY <2>1, <2>2
<1>6. CASE QueryReferences(c)
    <2> DEFINE q == req[c]
               Asked(left, hit) == [q EXCEPT !.todo = left, !.hit = hit]
               Passed == [at |-> "remove", athlete |-> q.athlete, bound |-> q.bound]
    <2>1. \E left, hit : Becomes(c, Asked(left, hit)) \/ Becomes(c, Idle) \/ Becomes(c, Passed)
        <3>1. PICK kind \in q.todo :
                LET hit == q.hit \/ \E item \in OfKind(kind) : Refers(item, q.athlete)
                    left == q.todo \ {kind}
                IN  Reads(c, IF left # {} THEN [q EXCEPT !.todo = left, !.hit = hit]
                             ELSE IF hit THEN Idle
                             ELSE [at |-> "remove", athlete |-> q.athlete, bound |-> q.bound])
            BY <1>6 DEF QueryReferences
        <3> QED
            BY <3>1 DEF Reads
    <2>2. PICK left, hit : Becomes(c, Asked(left, hit)) \/ Becomes(c, Idle) \/ Becomes(c, Passed)
        BY <2>1
    <2>3. Asked(left, hit).at \notin Organising /\ WriteFits(Pending(Asked(left, hit)))
        <3>1. Asked(left, hit).at = "queries"
            <4>1. q = [at |-> "queries", athlete |-> q.athlete, todo |-> q.todo,
                       hit |-> q.hit, bound |-> q.bound]
                <5>1. q.at = "queries" /\ IsRequest(q)
                    BY <1>6 DEF QueryReferences, TypeOK
                <5> QED
                    BY <5>1, ByStage
            <4> HIDE DEF q
            <4> QED
                BY <4>1
        <3> HIDE DEF Asked
        <3> QED
            BY <3>1 DEF Pending, WriteFits, Organising
    <2>4. Passed.at \notin Organising /\ WriteFits(Pending(Passed))
        BY DEF Pending, WriteFits, Organising
    <2> HIDE DEF Asked, Passed, Idle
    <2> QED
        BY <1>1, <2>2, <2>3, <2>4
<1> QED
    BY <1>3, <1>4, <1>5, <1>6

-----------------------------------------------------------------------------
(* What the organiser asks.                                                 *)

\* A build that knows every row of its positions keeps their identifiers.
LEMMA BuildKeepsIds ==
    ASSUME MatchInv, NEW existing, NEW rows, NEW win, RowsFit(rows),
           \A m \in existing : m \in Known,
           \A m, n \in existing : m.round \in Rounds /\ SameSlot(m, n) => m = n,
           \A m \in Matches, p \in rows : SameSlot(m, p) =>
                \E e \in existing : e.id = m.id /\ SameSlot(e, m)
    PROVE  \A m \in Matches, t \in Identified(existing, rows, win) :
                SameSlot(m, t) => m.id = t.id
<1> DEFINE items == Identified(existing, rows, win)
<1>1. /\ minted.ids \in Nat /\ \A m \in existing : m.id \in 1..minted.ids
      /\ \A m, n \in existing : m.id = n.id => SameSlot(m, n)
    BY DEF MatchInv, TypeOK, KnownFit
<1>2. \A t \in items : /\ t.kind = "match" /\ IsMatch(t)
                       /\ \E p \in rows : SameSlot(t, p) /\ t.win = win[p]
                            /\ t.a1 = p.a1 /\ t.a2 = p.a2
                            /\ t.id = IdOf(existing, rows, p)
    BY <1>1, BuiltMatches
<1>3. /\ \A p \in rows \ Fresh(existing, rows) : \E h \in existing :
            /\ HeldAt(existing, p) = {h} /\ SameSlot(h, p)
            /\ IdOf(existing, rows, p) = h.id
      /\ \A p \in Fresh(existing, rows), m \in existing : ~ SameSlot(m, p)
    BY <1>1, HeldIds
<1> HIDE DEF items
<1>4. ASSUME NEW m \in Matches, NEW t \in items, SameSlot(m, t) PROVE m.id = t.id
    <2>1. PICK p \in rows : SameSlot(t, p) /\ t.id = IdOf(existing, rows, p)
        BY <1>2
    <2>2. SameSlot(m, p)
        BY <1>4, <2>1 DEF SameSlot
    <2>3. PICK e \in existing : e.id = m.id /\ SameSlot(e, m)
        BY <2>2
    <2>4. SameSlot(e, p)
        BY <2>2, <2>3 DEF SameSlot
    <2>5. p \notin Fresh(existing, rows)
        BY <1>3, <2>4
    <2>6. PICK h \in existing : SameSlot(h, p) /\ IdOf(existing, rows, p) = h.id
        BY <1>3, <2>5
    <2>7. p.round \in Rounds
        BY DEF RowsFit
    <2>8. h = e
        BY <2>4, <2>6, <2>7 DEF SameSlot
    <2> QED
        BY <2>1, <2>3, <2>6, <2>8
<1> QED
    BY <1>4 DEF items

Follows(c, r) ==
    /\ Becomes(c, r) /\ table' = table
    /\ Organises(c) /\ WriteFits(Pending(r)) /\ ReadFits(r)

LEMMA IdleFollows ==
    ASSUME NEW c \in Clients, Organises(c), Reads(c, Idle)
    PROVE  Follows(c, Idle)
BY DEF Follows, Reads, Idle, Pending, WriteFits, ReadFits

LEMMA SeedAsks ==
    ASSUME SlotInv, NEW c \in Clients,
           \/ \E override \in Overrides, force \in BOOLEAN : SeedAthletes(c, override, force)
           \/ SeedRanking(c)
    PROVE  \E r : Follows(c, r)
<1>1. ASSUME NEW override \in Overrides, NEW force \in BOOLEAN,
             SeedAthletes(c, override, force)
      PROVE  \E r : Follows(c, r)
    <2> DEFINE r == [at |-> "rank", listed |-> AthletesListed, override |-> override,
                     force |-> force]
    <2>1. Becomes(c, r) /\ table' = table
          /\ Starts(c, IF force THEN "forceSeed" ELSE "seed")
        BY <1>1 DEF SeedAthletes
    <2>2. Organises(c)
        BY <2>1 DEF Starts, Organises
    <2>3. WriteFits(Pending(r)) /\ ReadFits(r)
        BY DEF Pending, WriteFits, ReadFits
    <2> QED
        BY <2>1, <2>2, <2>3 DEF Follows
<1>2. CASE SeedRanking(c)
    <2>1. Organises(c)
        BY <1>2 DEF SeedRanking, SlotInv, OrganiserInv, Organising
    <2>2. \E rows, stage : Reads(c, Idle) \/
                Reads(c, [at |-> "entry", rows |-> rows, stage |-> stage, force |-> req[c].force])
        BY <1>2 DEF SeedRanking
    <2>3. PICK rows, stage : Reads(c, Idle) \/
                Reads(c, [at |-> "entry", rows |-> rows, stage |-> stage, force |-> req[c].force])
        BY <2>2
    <2> DEFINE r == [at |-> "entry", rows |-> rows, stage |-> stage, force |-> req[c].force]
    <2>4. WriteFits(Pending(r)) /\ ReadFits(r)
        BY DEF Pending, WriteFits, ReadFits
    <2>5. Reads(c, r) => Follows(c, r)
        <3> HIDE DEF r
        <3> QED
            BY <2>1, <2>4 DEF Follows, Reads
    <2> QED
        BY <2>1, <2>3, <2>5, IdleFollows
<1> QED
    BY <1>1, <1>2

LEMMA SeedEntryAsks ==
    ASSUME SlotInv, NEW c \in Clients, SeedEntry(c)
    PROVE  \E r : Follows(c, r)
<1> DEFINE existing == {m \in Matches : m.round = req[c].stage}
           rows == req[c].rows
           win == [row \in rows |-> None]
           items == Identified(existing, rows, win)
           r == [at |-> "bracket", items |-> items, request |-> "seed"]
<1>1. Organises(c)
    BY DEF SeedEntry, SlotInv, OrganiserInv, Organising
<1>2. RowsFit(rows) /\ \A p \in rows : p.round = req[c].stage
    <2>1. req[c].at = "entry" /\ IsRequest(req[c])
        BY DEF SeedEntry, SlotInv, MatchInv, TypeOK
    <2> QED
        BY <2>1, ByStage DEF IsEntry
<1>3. Reads(c, Idle) \/ Builds(c, existing, rows, win, "seed")
    BY DEF SeedEntry
<1>4. \A m \in Matches, t \in items : SameSlot(m, t) => m.id = t.id
    <2>1. \A m \in existing : m \in Known
        BY KnownIs
    <2>2. \A m, n \in existing : m.round \in Rounds /\ SameSlot(m, n) => m = n
        BY DEF SlotInv, OneRowPerSlot, SameSlot
    <2>3. \A m \in Matches, p \in rows : SameSlot(m, p) =>
                \E e \in existing : e.id = m.id /\ SameSlot(e, m)
        BY <1>2 DEF SameSlot
    <2>4. MatchInv
        BY DEF SlotInv
    <2> HIDE DEF existing, rows, win
    <2> QED
        BY <1>2, <2>1, <2>2, <2>3, <2>4, BuildKeepsIds
<1>5. Builds(c, existing, rows, win, "seed") => Follows(c, r)
    <2>1. Builds(c, existing, rows, win, "seed") => Becomes(c, r) /\ table' = table
        BY DEF Builds
    <2> HIDE DEF items
    <2>2. WriteFits(Pending(r)) /\ ReadFits(r)
        BY <1>4 DEF Pending, WriteFits, ReadFits
    <2> QED
        BY <1>1, <2>1, <2>2 DEF Follows
<1> QED
    BY <1>1, <1>3, <1>5, IdleFollows

LEMMA AdvanceAsks ==
    ASSUME SlotInv, NEW c \in Clients, NEW from \in EntryRounds, NEW force \in BOOLEAN,
           AdvanceSource(c, from, force)
    PROVE  \E r : Follows(c, r)
<1> DEFINE rows == AdvanceTargets(from, OfRound(Matches, from))
           r == [at |-> "downstream", rows |-> rows, todo |-> Downstream[from],
                 existing |-> {}, force |-> force]
<1>1. Becomes(c, r) /\ table' = table
      /\ Starts(c, IF force THEN "forceAdvance" ELSE "advance")
    BY DEF AdvanceSource
<1>2. Organises(c)
    BY <1>1 DEF Starts, Organises
<1>3. Downstream[from] # <<"small_final">>
    <2>1. Downstream[from] = <<"half">> \/ Downstream[from] = <<"final", "small_final">>
        BY DEF Downstream, EntryRounds
    <2> QED
        BY <2>1, Lengths
<1> HIDE DEF rows
<1>4. WriteFits(Pending(r)) /\ ReadFits(r)
    BY <1>3 DEF Pending, WriteFits, ReadFits
<1> QED
    BY <1>1, <1>2, <1>4 DEF Follows

\* What the last listing leaves out, no row is in.
LEMMA SeenIsWhole ==
    ASSUME SlotInv, NEW c \in Clients, req[c].at = "downstream", IsDownstream(req[c])
    PROVE  /\ \A m, n \in SeenBy(c) : SameSlot(m, n) => m = n
           /\ \A m \in Matches : m.round = Head(req[c].todo) => m \in SeenBy(c)
           /\ Len(req[c].todo) = 1 =>
                \A m \in Matches, p \in req[c].rows : SameSlot(m, p) =>
                    \E e \in SeenBy(c) : e.id = m.id /\ SameSlot(e, m)
<1> DEFINE q == req[c]
           seen == SeenBy(c)
           listed == {m \in Matches : m.round = Head(q.todo)}
<1>1. seen = q.existing \union listed
    BY DEF SeenBy
<1>2. \A m, n \in q.existing : SameSlot(m, n) => m = n
    BY DEF SlotInv, ReadsFit, ReadFits
<1>3. \/ q.todo = <<"half">> /\ Head(q.todo) = "half" /\ q.existing = {}
            /\ \A p \in q.rows : p.round = "half"
      \/ q.todo = <<"final", "small_final">> /\ Head(q.todo) = "final" /\ q.existing = {}
      \/ q.todo = <<"small_final">> /\ Head(q.todo) = "small_final"
            /\ (\A p \in q.rows : p.round \in {"final", "small_final"})
            /\ \A m \in q.existing : m.round = "final"
    BY DEF IsDownstream
<1>4. \A m, n \in listed : SameSlot(m, n) => m = n
    <2>1. Head(q.todo) \in Rounds
        BY <1>3 DEF Rounds, EntryRounds
    <2> HIDE DEF q
    <2> QED
        BY <2>1 DEF SlotInv, OneRowPerSlot, SameSlot
<1>5. ASSUME NEW m \in q.existing, NEW n \in listed PROVE ~ SameSlot(m, n)
    BY <1>3 DEF SameSlot
<1>6. \A m, n \in seen : SameSlot(m, n) => m = n
    <2> HIDE DEF seen, listed, q
    <2> QED
        BY <1>1, <1>2, <1>4, <1>5 DEF SameSlot
<1>7. ASSUME Len(q.todo) = 1, NEW m \in Matches, NEW p \in q.rows, SameSlot(m, p)
      PROVE  \E e \in seen : e.id = m.id /\ SameSlot(e, m)
    <2>1. CASE q.todo = <<"half">>
        <3>1. m \in listed
            BY <1>3, <1>7, <2>1 DEF SameSlot
        <3> QED
            BY <1>1, <3>1 DEF SameSlot
    <2>2. CASE q.todo = <<"small_final">>
        <3>1. m.round \in {"final", "small_final"} /\ Head(q.todo) = "small_final"
            BY <1>3, <1>7, <2>2 DEF SameSlot
        <3>2. CASE m.round = "final"
            <4>1. \E n \in q.existing : n.id = m.id /\ SameSlot(m, n)
                BY <3>2, <2>2 DEF SlotInv, ReadsFit, ReadFits
            <4> QED
                BY <4>1, <1>1 DEF SameSlot
        <3>3. CASE m.round = "small_final"
            BY <3>1, <3>3, <1>1 DEF SameSlot
        <3> QED
            BY <3>1, <3>2, <3>3
    <2>3. q.todo # <<"final", "small_final">>
        BY <1>7, Lengths
    <2> QED
        BY <1>3, <2>1, <2>2, <2>3
<1> QED
    BY <1>1, <1>6, <1>7

LEMMA AdvanceDownstreamAsks ==
    ASSUME SlotInv, NEW c \in Clients, AdvanceDownstream(c)
    PROVE  \E r : Follows(c, r)
<1> DEFINE q == req[c]
           seen == SeenBy(c)
           win == [row \in q.rows |-> SurvivingWinner(seen, row)]
           next == [at |-> "downstream", rows |-> q.rows, todo |-> <<"small_final">>,
                    existing |-> seen, force |-> q.force]
           items == Identified(seen, q.rows, win)
           built == [at |-> "bracket", items |-> items, request |-> "advance"]
<1>1. /\ IsDownstream(q)
      /\ \A m \in seen : m \in Known /\ m.kind = "match" /\ IsMatch(m)
      /\ \/ Reads(c, Idle)
         \/ Builds(c, seen, q.rows, win, "advance") /\ Len(q.todo) = 1
         \/ Reads(c, next) /\ q.todo = <<"final", "small_final">>
    BY DownstreamStep DEF SlotInv, MatchInv
<1>2. Organises(c) /\ q.at = "downstream"
    BY DEF AdvanceDownstream, SlotInv, OrganiserInv, Organising
<1>3. /\ \A m, n \in seen : SameSlot(m, n) => m = n
      /\ \A m \in Matches : m.round = Head(q.todo) => m \in seen
      /\ Len(q.todo) = 1 =>
            \A m \in Matches, p \in q.rows : SameSlot(m, p) =>
                \E e \in seen : e.id = m.id /\ SameSlot(e, m)
    BY <1>1, <1>2, SeenIsWhole
<1>4. CASE Reads(c, Idle)
    BY <1>2, <1>4, IdleFollows
<1>5. CASE Builds(c, seen, q.rows, win, "advance") /\ Len(q.todo) = 1
    <2>1. RowsFit(q.rows)
        BY <1>1 DEF IsDownstream
    <2>2. \A m \in Matches, t \in items : SameSlot(m, t) => m.id = t.id
        <3>1. MatchInv
            BY DEF SlotInv
        <3>2. \A m, n \in seen : m.round \in Rounds /\ SameSlot(m, n) => m = n
            BY <1>3
        <3>3. \A m \in Matches, p \in q.rows : SameSlot(m, p) =>
                \E e \in seen : e.id = m.id /\ SameSlot(e, m)
            BY <1>3, <1>5
        <3>4. \A m \in seen : m \in Known
            BY <1>1
        <3> HIDE DEF q, seen, win
        <3> QED
            BY <2>1, <3>1, <3>2, <3>3, <3>4, BuildKeepsIds
    <2>3. Becomes(c, built) /\ table' = table
        BY <1>5 DEF Builds
    <2> HIDE DEF items
    <2>4. WriteFits(Pending(built)) /\ ReadFits(built)
        BY <2>2 DEF Pending, WriteFits, ReadFits
    <2> QED
        BY <1>2, <2>3, <2>4 DEF Follows
<1>6. CASE Reads(c, next) /\ q.todo = <<"final", "small_final">>
    <2>1. Head(q.todo) = "final"
        BY <1>6
    <2> HIDE DEF seen, q
    <2>2. \A m \in Matches : m.round = "final" => \E n \in seen : n.id = m.id /\ SameSlot(m, n)
        BY <1>3, <2>1 DEF SameSlot
    <2>3. WriteFits(Pending(next)) /\ ReadFits(next)
        BY <1>3, <2>2 DEF Pending, WriteFits, ReadFits
    <2> HIDE DEF next
    <2> QED
        BY <1>2, <1>6, <2>3 DEF Follows, Reads
<1> QED
    BY <1>1, <1>4, <1>5, <1>6

-----------------------------------------------------------------------------
(* One row in a position.                                                   *)

LEMMA ReadersKeep ==
    ASSUME NEW c \in Clients,
           \/ CheckAthlete(c) \/ SeedRanking(c) \/ SeedEntry(c) \/ AdvanceDownstream(c)
           \/ FindScore(c) \/ QueryReferences(c) \/ Asks(c)
    PROVE  table' = table
<1>1. CASE CheckAthlete(c)
    BY <1>1 DEF CheckAthlete, Reads
<1>2. CASE SeedRanking(c)
    BY <1>2 DEF SeedRanking, Reads
<1>3. CASE SeedEntry(c)
    BY <1>3 DEF SeedEntry, Reads, Builds
<1>4. CASE AdvanceDownstream(c)
    <2>1. \/ \E r : Reads(c, r)
          \/ \E existing, rows, win : Builds(c, existing, rows, win, "advance")
        BY <1>4 DEF AdvanceDownstream
    <2> QED
        BY <2>1 DEF Reads, Builds
<1>5. CASE FindScore(c)
    BY <1>5 DEF FindScore, Reads
<1>6. CASE QueryReferences(c)
    BY <1>6 DEF QueryReferences, Reads
<1>7. CASE Asks(c)
    <2>1. /\ table' = table
          /\ \/ req' = req /\ spent' = spent
             \/ \E request : Starts(c, request) /\ \E r : Becomes(c, r)
        BY <1>7, AsksMove
    <2> QED
        BY <2>1
<1> QED
    BY <1>1, <1>2, <1>3, <1>4, <1>5, <1>6, <1>7

LEMMA MatchesNext == \A m : m \in Matches' <=> m \in table' /\ m.kind = "match"
BY DEF Matches, OfKind, Among

\* Only the bracket's write fills a free position.
LEMMA OthersFillNone ==
    ASSUME SlotInv, NEW c \in Clients,
           \/ CheckAthlete(c) \/ Create(c) \/ Upsert(c) \/ Drop(c) \/ RemoveAthlete(c)
           \/ SeedRanking(c) \/ SeedEntry(c) \/ AdvanceDownstream(c)
           \/ FindScore(c) \/ QueryReferences(c) \/ Asks(c)
    PROVE  /\ OneRowPerSlot'
           /\ \A m \in Matches' : m.round \in Rounds =>
                \E n \in Matches : n.id = m.id /\ SameSlot(m, n)
<1> USE DEF SlotInv, MatchInv
<1>1. ASSUME \A m \in table' : m.kind = "match" /\ m.round \in Rounds => m \in table
      PROVE  /\ OneRowPerSlot'
             /\ \A m \in Matches' : m.round \in Rounds =>
                    \E n \in Matches : n.id = m.id /\ SameSlot(m, n)
    <2>1. \A m \in Matches' : m.round \in Rounds => m \in Matches
        BY <1>1, MatchesNext, KnownIs
    <2>2. OneRowPerSlot'
        BY <2>1 DEF OneRowPerSlot
    <2> QED
        BY <2>1, <2>2 DEF SameSlot
<1>2. CASE table' = table
    BY <1>1, <1>2
<1>3. CASE Create(c)
    <2> DEFINE item == req[c].item
    <2>1. req[c].at = "create"
        BY <1>3 DEF Create
    <2>2. item.kind = "match" => item.round \notin Rounds
        BY <2>1 DEF WritesFit, WriteFits, Pending
    <2>3. \A m \in table' : m \in table \/ m = item
        BY <1>3 DEF Create, Writes, PutOver
    <2> HIDE DEF item
    <2> QED
        BY <1>1, <2>2, <2>3
<1>4. CASE Upsert(c)
    <2> DEFINE item == req[c].item
               old == req[c].old
    <2>1. req[c].at = "upsert" /\ IsRequest(req[c])
        BY <1>4 DEF Upsert, TypeOK
    <2>2. IsItem(item) /\ (item.kind = "match" => old = Key(item) /\ item \in Known)
        <3>1. IsItem(item)
            BY <2>1, ByStage
        <3>2. item \in Holds(Pending(req[c]))
            BY <2>1 DEF Holds, Pending
        <3>3. item.kind = "match" => old = Key(item)
            BY <2>1 DEF WritesFit, WriteFits, Pending
        <3> QED
            BY <3>1, <3>2, <3>3, KnownIs
    <2>3. \/ table' = table
          \/ table' = Without(old) \union {item} /\ Present(old)
        BY <1>4 DEF Upsert, Writes
    <2> HIDE DEF item, old
    <2>4. CASE table' = Without(old) \union {item} /\ Present(old) /\ item.kind = "match"
        <3>1. PICK i \in table : Key(i) = old
            BY <2>4 DEF Present
        <3>2. i.kind = "match" /\ i.id = item.id
            <4>1. IsItem(i) /\ IsItem(item) /\ Key(i) = Key(item)
                BY <2>2, <2>4, <3>1 DEF TypeOK
            <4>2. i.kind = item.kind /\ (i.kind = "match" => i.id = item.id /\ i.round = item.round)
                BY <4>1, KeyNames
            <4> QED
                BY <2>4, <4>2
        <3>3. i \in Matches /\ i \in Known /\ SameSlot(item, i)
            BY <2>2, <2>4, <3>2, KnownIs DEF KnownFit
        <3>4. \A m \in Matches' : m = item \/ (m \in Matches /\ Key(m) # old)
            BY <2>4, MatchesNext, KnownIs DEF Without
        <3>5. ASSUME NEW m \in Matches', NEW n \in Matches', m.round \in Rounds, SameSlot(m, n)
              PROVE  m = n
            <4>1. ASSUME NEW k \in Matches, Key(k) # old, SameSlot(k, item),
                         k.round \in Rounds
                  PROVE  FALSE
                <5>1. SameSlot(k, i)
                    BY <3>3, <4>1 DEF SameSlot
                <5>2. k = i
                    BY <3>3, <4>1, <5>1 DEF OneRowPerSlot, SameSlot
                <5> QED
                    BY <3>1, <4>1, <5>2
            <4>2. CASE m = item /\ n # item
                <5>1. n \in Matches /\ Key(n) # old
                    BY <3>4, <4>2
                <5> QED
                    BY <3>5, <4>1, <4>2, <5>1 DEF SameSlot
            <4>3. CASE m # item /\ n = item
                <5>1. m \in Matches /\ Key(m) # old
                    BY <3>4, <4>3
                <5> QED
                    BY <3>5, <4>1, <4>3, <5>1 DEF SameSlot
            <4>4. CASE m # item /\ n # item
                <5>1. m \in Matches /\ n \in Matches
                    BY <3>4, <4>4
                <5> QED
                    BY <3>5, <5>1 DEF OneRowPerSlot, SameSlot
            <4> QED
                BY <4>2, <4>3, <4>4
        <3>6. OneRowPerSlot'
            BY <3>5 DEF OneRowPerSlot, SameSlot
        <3>7. \A m \in Matches' : \E n \in Matches : n.id = m.id /\ SameSlot(m, n)
            BY <3>2, <3>3, <3>4 DEF SameSlot
        <3> QED
            BY <3>6, <3>7
    <2>5. CASE table' = Without(old) \union {item} /\ item.kind # "match"
        <3>1. \A m \in table' : m.kind = "match" => m \in table
            BY <2>5, Keeping
        <3> QED
            BY <1>1, <3>1
    <2> QED
        BY <1>2, <2>3, <2>4, <2>5
<1>5. CASE Drop(c) \/ RemoveAthlete(c)
    <2>1. \E key : table' = Without(key)
        BY <1>5 DEF Drop, RemoveAthlete, Writes
    <2>2. \A m \in table' : m \in table
        BY <2>1, Keeping
    <2> QED
        BY <1>1, <2>2
<1> QED
    BY <1>2, <1>3, <1>4, <1>5, ReadersKeep

LEMMA BracketWrites ==
    ASSUME SlotInv, NEW c \in Clients, WriteBracket(c)
    PROVE  OneRowPerSlot'
<1> USE DEF SlotInv, MatchInv
<1> DEFINE items == req[c].items
<1>1. req[c].at = "bracket" /\ IsRequest(req[c])
    BY DEF WriteBracket, TypeOK
<1>2. /\ \A t \in items : IsItem(t) /\ t.kind = "match"
      /\ \A s, t \in items : SameSlot(s, t) => s = t
    BY <1>1, ByStage DEF IsBracket, IsItem
<1>3. \A m \in Matches, t \in items : SameSlot(m, t) => m.id = t.id
    BY <1>1 DEF ReadsFit, ReadFits
<1>4. table' = PutOver(items)
    BY DEF WriteBracket, Writes
<1> HIDE DEF items
<1>5. \A m \in Matches' : m \in items \/ (m \in Matches /\ \A t \in items : Key(m) # Key(t))
    BY <1>4, MatchesNext, KnownIs DEF PutOver
<1>6. ASSUME NEW m \in Matches, NEW t \in items, SameSlot(m, t) PROVE Key(m) = Key(t)
    BY <1>2, <1>3, <1>6, KnownIs, MatchKeys DEF SameSlot
<1>7. ASSUME NEW m \in Matches', NEW n \in Matches', m.round \in Rounds, SameSlot(m, n)
      PROVE  m = n
    <2>1. CASE m \in items /\ n \in items
        BY <1>2, <1>7, <2>1
    <2>2. CASE m \notin items /\ n \notin items
        BY <1>5, <1>7, <2>2 DEF OneRowPerSlot, SameSlot
    <2>3. CASE m \in items /\ n \notin items
        BY <1>5, <1>6, <1>7, <2>3 DEF SameSlot
    <2>4. CASE m \notin items /\ n \in items
        BY <1>5, <1>6, <1>7, <2>4
    <2> QED
        BY <2>1, <2>2, <2>3, <2>4
<1> QED
    BY <1>7 DEF OneRowPerSlot, SameSlot

LEMMA StaleReadsFit ==
    ASSUME NEW r, IsRequest(r), ReadFits(r),
           \A m \in Matches' : m.round \in Rounds =>
                \E n \in Matches : n.id = m.id /\ SameSlot(m, n)
    PROVE  ReadFits(r)'
<1>1. ASSUME r.at = "bracket", NEW m \in Matches', NEW t \in r.items, SameSlot(m, t)
      PROVE  m.id = t.id
    <2>1. t.round \in Rounds
        BY <1>1, ByStage DEF IsBracket
    <2>2. PICK n \in Matches : n.id = m.id /\ SameSlot(m, n)
        BY <1>1, <2>1 DEF SameSlot
    <2>3. SameSlot(n, t)
        BY <1>1, <2>2 DEF SameSlot
    <2> QED
        BY <1>1, <2>2, <2>3 DEF ReadFits
<1>2. ASSUME r.at = "downstream", r.todo = <<"small_final">>,
             NEW m \in Matches', m.round = "final"
      PROVE  \E n \in r.existing : n.id = m.id /\ SameSlot(m, n)
    <2>1. PICK k \in Matches : k.id = m.id /\ SameSlot(m, k)
        BY <1>2 DEF Rounds
    <2>2. k.round = "final"
        BY <1>2, <2>1 DEF SameSlot
    <2>3. PICK n \in r.existing : n.id = k.id /\ SameSlot(k, n)
        BY <1>2, <2>2 DEF ReadFits
    <2> QED
        BY <2>1, <2>3 DEF SameSlot
<1>3. r.at = "downstream" => \A m, n \in r.existing : SameSlot(m, n) => m = n
    BY DEF ReadFits
<1> QED
    BY <1>1, <1>2, <1>3 DEF ReadFits

LEMMA SlotStep ==
    ASSUME OneOrganiser, SlotInv, [Next]_vars
    PROVE  SlotInv'
<1>1. MatchInv'
    BY MatchStep DEF SlotInv
<1>2. ASSUME req' = req, table' = table, spent' = spent PROVE SlotInv'
    <2>1. OrganiserInv' /\ WritesFit'
        BY <1>2 DEF SlotInv, OrganiserInv, WritesFit, Active, WriteFits
    <2>2. ReadsFit' /\ OneRowPerSlot'
        <3>1. \A m : m \in Matches' <=> m \in Matches
            BY <1>2 DEF Matches, OfKind, Among
        <3> QED
            BY <1>2, <3>1 DEF SlotInv, ReadsFit, ReadFits, OneRowPerSlot
    <2> QED
        BY <1>1, <2>1, <2>2 DEF SlotInv
<1>3. ASSUME NEW c \in Clients, Calls(c) \/ Asks(c), NEW r, Becomes(c, r),
             WriteFits(Pending(r)), ReadFits(r), r.at \in Organising => Organises(c),
             r.at \in {"downstream", "bracket"} => table' = table
      PROVE  SlotInv'
    <2>1. /\ \A d \in Clients : d # c => req'[d] = req[d]
          /\ \A d \in Clients : Active(d)' => Active(d)
          /\ req'[c] = req[c] \/ Active(c)
        BY <1>3, OneMoves DEF SlotInv, MatchInv
    <2>2. req'[c] = r
        BY <1>3 DEF Becomes, SlotInv, MatchInv, TypeOK
    <2>3. OrganiserInv'
        BY <1>3, <2>1, <2>2 DEF SlotInv, OrganiserInv
    <2>4. WritesFit'
        <3>1. \A d \in Clients : WriteFits(Pending(req'[d]))
            BY <1>3, <2>1, <2>2 DEF SlotInv, WritesFit
        <3> QED
            BY <3>1 DEF WritesFit, WriteFits
    <2>5. CASE WriteBracket(c)
        <3>1. Active(c) /\ req[c].at \in Organising
            BY <2>5 DEF WriteBracket, Active, Idle, Organising
        <3>2. ASSUME NEW d \in Clients, d # c PROVE req'[d].at \notin Organising
            <4>1. SUFFICES ASSUME req[d].at \in Organising PROVE FALSE
                BY <2>1, <3>2
            <4>2. Active(d)
                BY <4>1 DEF Active, Idle, Organising
            <4> QED
                BY <3>1, <3>2, <4>1, <4>2 DEF SlotInv, OrganiserInv
        <3>3. req'[c].at \notin Organising
            BY <2>5 DEF WriteBracket, Writes, Becomes, Idle, Organising, SlotInv, MatchInv, TypeOK
        <3>4. \A d \in Clients : req'[d].at \notin {"downstream", "bracket"}
            BY <3>2, <3>3 DEF Organising
        <3>5. ReadsFit'
            BY <3>4 DEF ReadsFit, ReadFits
        <3>6. OneRowPerSlot'
            BY <2>5, BracketWrites
        <3> QED
            BY <1>1, <2>3, <2>4, <3>5, <3>6 DEF SlotInv
    <2>6. CASE ~ WriteBracket(c)
        <3>1. /\ OneRowPerSlot'
              /\ \A m \in Matches' : m.round \in Rounds =>
                    \E n \in Matches : n.id = m.id /\ SameSlot(m, n)
            BY <1>3, <2>6, OthersFillNone DEF Calls
        <3>2. ReadFits(r)'
            <4>1. CASE r.at \in {"downstream", "bracket"}
                <5>1. \A m : m \in Matches' <=> m \in Matches
                    BY <1>3, <4>1 DEF Matches, OfKind, Among
                <5> QED
                    BY <1>3, <5>1 DEF ReadFits
            <4>2. CASE r.at \notin {"downstream", "bracket"}
                BY <4>2 DEF ReadFits
            <4> QED
                BY <4>1, <4>2
        <3>3. ASSUME NEW d \in Clients PROVE ReadFits(req[d])'
            <4>1. CASE d = c
                BY <2>2, <3>2, <4>1 DEF ReadFits
            <4>2. CASE d # c
                <5> DEFINE q == req[d]
                <5>1. IsRequest(q) /\ ReadFits(q)
                    BY DEF SlotInv, MatchInv, TypeOK, ReadsFit
                <5>2. q' = q
                    BY <2>1, <4>2
                <5> HIDE DEF q
                <5> QED
                    BY <3>1, <5>1, <5>2, StaleReadsFit DEF q
            <4> QED
                BY <4>1, <4>2
        <3>4. ReadsFit'
            BY <3>3 DEF ReadsFit
        <3> QED
            BY <1>1, <2>3, <2>4, <3>1, <3>4 DEF SlotInv
    <2> QED
        BY <2>5, <2>6
<1>4. ASSUME NEW c \in Clients, Calls(c) \/ Asks(c) PROVE SlotInv'
    <2>1. ASSUME \E r : Follows(c, r) PROVE SlotInv'
        <3>1. PICK r : Follows(c, r)
            BY <2>1
        <3> QED
            BY <1>3, <1>4, <3>1 DEF Follows
    <2>2. ASSUME \E r : Becomes(c, r) /\ r.at \notin Organising /\ WriteFits(Pending(r))
          PROVE  SlotInv'
        <3>1. PICK r : Becomes(c, r) /\ r.at \notin Organising /\ WriteFits(Pending(r))
            BY <2>2
        <3>2. ReadFits(r) /\ r.at \notin {"downstream", "bracket"}
            BY <3>1 DEF ReadFits, Organising
        <3> QED
            BY <1>3, <1>4, <3>1, <3>2
    <2>3. CASE \/ \E override \in Overrides, force \in BOOLEAN :
                    SeedAthletes(c, override, force)
               \/ SeedRanking(c)
        BY <2>1, <2>3, SeedAsks
    <2>4. CASE SeedEntry(c)
        BY <2>1, <2>4, SeedEntryAsks
    <2>5. CASE \E from \in EntryRounds, force \in BOOLEAN : AdvanceSource(c, from, force)
        BY <2>1, <2>5, AdvanceAsks
    <2>6. CASE AdvanceDownstream(c)
        BY <2>1, <2>6, AdvanceDownstreamAsks
    <2>7. CASE Refetch(c)
        BY <2>7, <1>2 DEF Refetch
    <2>8. CASE \/ PutWinner(c) \/ ClearWinner(c)
               \/ PostMatch(c) \/ DeleteMatch(c)
               \/ PostTime(c) \/ PutTime(c) \/ DeleteTime(c)
               \/ PostScore(c) \/ PutScore(c) \/ DeleteScore(c)
               \/ PostAthlete(c) \/ DeleteAthlete(c)
        BY <2>2, <2>8, OthersAsk DEF SlotInv
    <2>9. CASE \/ CheckAthlete(c) \/ Create(c) \/ Upsert(c) \/ Drop(c) \/ RemoveAthlete(c)
               \/ WriteBracket(c) \/ FindScore(c) \/ QueryReferences(c)
        BY <2>2, <2>9, CallsAsk DEF SlotInv
    <2> QED
        BY <1>4, <2>3, <2>4, <2>5, <2>6, <2>7, <2>8, <2>9 DEF Calls, Asks
<1>5. CASE UNCHANGED vars
    BY <1>2, <1>5 DEF vars
<1> QED
    BY <1>4, <1>5 DEF Next

LEMMA SlotInit ==
    ASSUME OneOrganiser, Init
    PROVE  SlotInv
<1>1. PICK shift \in Shifts :
        /\ table = shift.table
        /\ spent = [c \in Clients |-> IF c \in shift.clients THEN 0 ELSE Budget[c]]
    BY DEF Init
<1>2. \A c \in Clients : req[c] = Idle
    BY DEF Init
<1>3. MatchInv
    BY MatchInit
<1>4. \A m : m \notin Matches
    BY <1>1, ShiftsAssumption DEF Matches, OfKind, Among
<1>5. \A c \in Clients : Active(c) => c \in shift.clients
    BY <1>1, <1>2, BoundsAssumption DEF Active
<1>6. OrganiserInv
    BY <1>2, <1>5 DEF OrganiserInv, OneOrganiser, Organising, Idle
<1>7. WritesFit /\ ReadsFit
    BY <1>2 DEF WritesFit, ReadsFit, WriteFits, ReadFits, Pending, Idle
<1>8. OneRowPerSlot
    BY <1>4 DEF OneRowPerSlot
<1> QED
    BY <1>3, <1>6, <1>7, <1>8 DEF SlotInv

(***************************************************************************)
(* With one organiser at work, and no match posted into the bracket by     *)
(* hand, a position of a round never has two rows, whatever the panels and *)
(* the administration write between the organiser's calls: of all the      *)
(* writers only the organiser's transaction fills a free position, and it  *)
(* puts its rows under the identifiers its own listing found.  A seed and  *)
(* an advance list their rounds before they write, so the listing may be   *)
(* old: SlotInv says it still names every row the round has (seedBracket,  *)
(* advanceBracket, writeBracketMatches).                                   *)
(***************************************************************************)
THEOREM OneOrganiserOneRow ==
    ASSUME OneOrganiser
    PROVE  Spec => []OneRowPerSlot
<1>1. Init => SlotInv
    BY SlotInit
<1>2. SlotInv /\ [Next]_vars => SlotInv'
    BY SlotStep
<1>3. SlotInv => OneRowPerSlot
    BY DEF SlotInv
<1> QED
    BY <1>1, <1>2, <1>3, PTL DEF Spec

-----------------------------------------------------------------------------
(* A re-run alone.                                                          *)

LEMMA QuietAsks ==
    ASSUME TypeOK, NEW c \in Clients,
           \/ \E override \in Overrides, force \in BOOLEAN : SeedAthletes(c, override, force)
           \/ PutWinner(c) \/ ClearWinner(c)
           \/ PostMatch(c) \/ DeleteMatch(c)
           \/ PostTime(c) \/ PutTime(c) \/ DeleteTime(c)
           \/ PostScore(c) \/ PutScore(c) \/ DeleteScore(c)
           \/ PostAthlete(c) \/ DeleteAthlete(c)
    PROVE  \E r : Becomes(c, r) /\ ~ Reruns(r)
<1>1. ASSUME NEW todo, NEW then, ~ Reruns(then)
      PROVE  ~ Reruns(Then(todo, then)) /\ ~ Reruns(Checking(todo, then))
    BY <1>1 DEF Reruns, Then, Checking
<1>2. \A item, old : ~ Reruns(Creating(item)) /\ ~ Reruns(Upserting(old, item))
                     /\ ~ Reruns(Dropping(item))
    BY DEF Reruns, Creating, Upserting, Dropping
<1>3. CASE \E override \in Overrides, force \in BOOLEAN : SeedAthletes(c, override, force)
    <2>1. PICK override \in Overrides, force \in BOOLEAN : SeedAthletes(c, override, force)
        BY <1>3
    <2> DEFINE r == [at |-> "rank", listed |-> AthletesListed, override |-> override,
                     force |-> force]
    <2>2. Becomes(c, r)
        BY <2>1 DEF SeedAthletes
    <2>3. ~ Reruns(r)
        BY DEF Reruns
    <2> QED
        BY <2>2, <2>3
<1>4. CASE PutWinner(c) \/ ClearWinner(c)
    <2>1. \E m \in Cached(c) : \E win, request : PutMatch(c, m, win, request)
        BY <1>4 DEF PutWinner, ClearWinner
    <2>2. PICK m \in Cached(c) : \E win, request : PutMatch(c, m, win, request)
        BY <2>1
    <2>3. PICK win, request : PutMatch(c, m, win, request)
        BY <2>2
    <2>4. PICK todo, x : Becomes(c, Then(todo, Upserting(x, [m EXCEPT !.win = win])))
        BY <2>3, PutMatchSends
    <2> QED
        BY <2>4, <1>1, <1>2
<1>5. CASE PostMatch(c) \/ PostTime(c)
    <2>1. \E request, todo, item : Posts(c, request, todo, Creating(item))
        BY <1>5 DEF PostMatch, PostTime
    <2>2. PICK request, todo, item : Posts(c, request, todo, Creating(item))
        BY <2>1
    <2>3. Becomes(c, Then(todo, Creating(item)))
        BY <2>2 DEF Posts
    <2> QED
        BY <2>3, <1>1, <1>2
<1>6. CASE DeleteMatch(c) \/ DeleteTime(c) \/ DeleteScore(c)
    <2>1. \E item : Becomes(c, Dropping(item))
        BY <1>6 DEF DeleteMatch, DeleteTime, DeleteScore, Finds
    <2> QED
        BY <2>1, <1>2
<1>7. CASE PutTime(c) \/ PutScore(c)
    <2>1. \E item, a : Becomes(c, Reassigned(item, a))
        BY <1>7 DEF PutTime, PutScore, Finds
    <2>2. PICK item, a : Becomes(c, Reassigned(item, a))
        BY <2>1
    <2>3. PICK todo : Reassigned(item, a) = Then(todo, Upserting(item, [item EXCEPT !.athlete = a]))
        BY DEF Reassigned
    <2> QED
        BY <2>2, <2>3, <1>1, <1>2
<1>8. CASE PostScore(c)
    <2>1. PICK a \in minted.athletes, mark \in Marks :
            Becomes(c, Checking(<<a>>, [at |-> "score", athlete |-> a, mark |-> mark]))
        BY <1>8 DEF PostScore
    <2>2. ~ Reruns([at |-> "score", athlete |-> a, mark |-> mark])
        BY DEF Reruns
    <2> QED
        BY <2>1, <2>2, <1>1
<1>9. CASE PostAthlete(c)
    <2>1. \E item : Becomes(c, Creating(item))
        BY <1>9 DEF PostAthlete
    <2> QED
        BY <2>1, <1>2
<1>10. CASE DeleteAthlete(c)
    <2>1. PICK a \in AthletesListed :
            Becomes(c, [at |-> "queries", athlete |-> a, todo |-> {"time", "match", "score"},
                        hit |-> FALSE, bound |-> {item \in table : Refers(item, a)}])
        BY <1>10 DEF DeleteAthlete
    <2> DEFINE r == [at |-> "queries", athlete |-> a, todo |-> {"time", "match", "score"},
                     hit |-> FALSE, bound |-> {item \in table : Refers(item, a)}]
    <2>2. Becomes(c, r)
        BY <2>1
    <2>3. ~ Reruns(r)
        BY DEF Reruns
    <2> QED
        BY <2>2, <2>3
<1> QED
    BY <1>3, <1>4, <1>5, <1>6, <1>7, <1>8, <1>9, <1>10

LEMMA QuietCalls ==
    ASSUME TypeOK, NEW c \in Clients,
           \/ CheckAthlete(c) \/ Create(c) \/ Upsert(c) \/ Drop(c) \/ RemoveAthlete(c)
           \/ SeedRanking(c) \/ SeedEntry(c) \/ WriteBracket(c)
           \/ FindScore(c) \/ QueryReferences(c)
    PROVE  \E r : Becomes(c, r) /\ ~ Reruns(r)
<1>1. ~ Reruns(Idle)
    BY DEF Reruns, Idle
<1>2. \A item, old : ~ Reruns(Creating(item)) /\ ~ Reruns(Upserting(old, item))
    BY DEF Reruns, Creating, Upserting
<1>3. CASE CheckAthlete(c)
    <2> DEFINE q == req[c]
               tail == [q EXCEPT !.todo = Tail(@)]
               then == q.then
    <2>1. q.at = "check" /\ IsRequest(q)
        BY <1>3 DEF CheckAthlete, TypeOK
    <2>2. q = Checking(q.todo, then) /\ (IsWrite(then) \/ IsScoring(then))
        BY <2>1, ByStage
    <2>3. Becomes(c, Idle) \/ Becomes(c, tail) \/ Becomes(c, then)
        BY <1>3 DEF CheckAthlete, Reads
    <2>4. tail.at = "check"
        BY <2>2 DEF Checking
    <2> HIDE DEF q, tail
    <2>5. ~ Reruns(then) /\ ~ Reruns(tail)
        BY <2>2, <2>4 DEF IsWrite, IsScoring, Reruns
    <2> QED
        BY <1>1, <2>3, <2>5
<1>4. CASE Create(c) \/ Upsert(c) \/ Drop(c) \/ RemoveAthlete(c) \/ WriteBracket(c)
    <2>1. Becomes(c, Idle)
        BY <1>4 DEF Create, Upsert, Drop, RemoveAthlete, WriteBracket, Writes
    <2> QED
        BY <1>1, <2>1
<1>5. CASE SeedRanking(c)
    <2>1. \E rows, stage : Reads(c, Idle) \/
                Reads(c, [at |-> "entry", rows |-> rows, stage |-> stage, force |-> req[c].force])
        BY <1>5 DEF SeedRanking
    <2>2. PICK rows, stage : Reads(c, Idle) \/
                Reads(c, [at |-> "entry", rows |-> rows, stage |-> stage, force |-> req[c].force])
        BY <2>1
    <2> DEFINE r == [at |-> "entry", rows |-> rows, stage |-> stage, force |-> req[c].force]
    <2>3. ~ Reruns(r)
        BY DEF Reruns
    <2>4. Becomes(c, Idle) \/ Becomes(c, r)
        BY <2>2 DEF Reads
    <2> QED
        BY <1>1, <2>3, <2>4
<1>6. CASE SeedEntry(c)
    <2>1. \E existing, rows, win : Reads(c, Idle) \/ Builds(c, existing, rows, win, "seed")
        BY <1>6 DEF SeedEntry
    <2>2. PICK existing, rows, win : Reads(c, Idle) \/ Builds(c, existing, rows, win, "seed")
        BY <2>1
    <2> DEFINE items == Identified(existing, rows, win)
               r == [at |-> "bracket", items |-> items, request |-> "seed"]
    <2>3. Becomes(c, Idle) \/ Becomes(c, r)
        BY <2>2 DEF Reads, Builds
    <2> HIDE DEF items
    <2>4. ~ Reruns(r)
        BY DEF Reruns
    <2> QED
        BY <1>1, <2>3, <2>4
<1>7. CASE FindScore(c)
    <2>1. \E item, old : Becomes(c, Creating(item)) \/ Becomes(c, Upserting(old, item))
        BY <1>7 DEF FindScore, Reads
    <2> QED
        BY <1>2, <2>1
<1>8. CASE QueryReferences(c)
    <2> DEFINE q == req[c]
               Asked(left, hit) == [q EXCEPT !.todo = left, !.hit = hit]
               Passed == [at |-> "remove", athlete |-> q.athlete, bound |-> q.bound]
    <2>1. \E left, hit : Becomes(c, Asked(left, hit)) \/ Becomes(c, Idle) \/ Becomes(c, Passed)
        <3>1. PICK kind \in q.todo :
                LET hit == q.hit \/ \E item \in OfKind(kind) : Refers(item, q.athlete)
                    left == q.todo \ {kind}
                IN  Reads(c, IF left # {} THEN [q EXCEPT !.todo = left, !.hit = hit]
                             ELSE IF hit THEN Idle
                             ELSE [at |-> "remove", athlete |-> q.athlete, bound |-> q.bound])
            BY <1>8 DEF QueryReferences
        <3> QED
            BY <3>1 DEF Reads
    <2>2. PICK left, hit : Becomes(c, Asked(left, hit)) \/ Becomes(c, Idle) \/ Becomes(c, Passed)
        BY <2>1
    <2>3. Asked(left, hit).at = "queries"
        <3>1. q = [at |-> "queries", athlete |-> q.athlete, todo |-> q.todo,
                   hit |-> q.hit, bound |-> q.bound]
            <4>1. q.at = "queries" /\ IsRequest(q)
                BY <1>8 DEF QueryReferences, TypeOK
            <4> QED
                BY <4>1, ByStage
        <3> HIDE DEF q
        <3> QED
            BY <3>1
    <2>4. ~ Reruns(Passed)
        BY DEF Reruns
    <2> HIDE DEF Asked, Passed
    <2> QED
        BY <1>1, <2>2, <2>3, <2>4 DEF Reruns
<1> QED
    BY <1>3, <1>4, <1>5, <1>6, <1>7, <1>8

\* The rows a re-run builds from the table as it stands.
LEMMA BuildKeepsWinners ==
    ASSUME MatchInv, NEW existing, NEW rows, RowsFit(rows),
           existing \subseteq Matches
    PROVE  \A m \in Matches,
              t \in Identified(existing, rows, [row \in rows |-> SurvivingWinner(existing, row)]) :
                Key(m) = Key(t) /\ m.a1 = t.a1 /\ m.a2 = t.a2 => t.win = m.win
<1> DEFINE win == [row \in rows |-> SurvivingWinner(existing, row)]
           items == Identified(existing, rows, win)
<1>1. /\ minted.ids \in Nat /\ \A m \in Known : m.id \in 1..minted.ids
      /\ \A m, n \in Known : m.id = n.id => SameSlot(m, n)
    BY DEF MatchInv, TypeOK, KnownFit
<1>2. \A m \in Matches : m \in Known /\ m.kind = "match" /\ m \in table
    BY KnownIs DEF Matches, OfKind, Among
<1>3. /\ \A m \in existing : m.id \in 1..minted.ids
      /\ \A m, n \in existing : m.id = n.id => SameSlot(m, n)
    BY <1>1, <1>2
<1>4. \A t \in items : /\ t.kind = "match" /\ IsMatch(t)
                       /\ \E p \in rows : SameSlot(t, p) /\ t.win = win[p]
                            /\ t.a1 = p.a1 /\ t.a2 = p.a2
                            /\ t.id = IdOf(existing, rows, p)
    <2> HIDE DEF win
    <2> QED
        BY <1>1, <1>3, BuiltMatches
<1>5. /\ \A p \in rows \ Fresh(existing, rows) : \E h \in existing :
            /\ HeldAt(existing, p) = {h} /\ SameSlot(h, p)
            /\ IdOf(existing, rows, p) = h.id
      /\ \A p \in Fresh(existing, rows), m \in existing : ~ SameSlot(m, p)
    BY <1>1, <1>3, HeldIds
<1>6. LET fresh == Fresh(existing, rows)
      IN  /\ Cardinality(fresh) \in Nat
          /\ \A p \in fresh :
                IdOf(existing, rows, p) \in
                    (minted.ids + 1)..(minted.ids + Cardinality(fresh))
          /\ \A p, q \in fresh :
                IdOf(existing, rows, p) = IdOf(existing, rows, q) => p = q
    BY <1>1, <1>3, FreshIds
<1>7. \A p \in rows : win[p] = SurvivingWinner(existing, p)
    OBVIOUS
<1> HIDE DEF items, win
<1>8. ASSUME NEW m \in Matches, NEW t \in items, Key(m) = Key(t), m.a1 = t.a1, m.a2 = t.a2
      PROVE  t.win = m.win
    <2>1. PICK p \in rows : /\ SameSlot(t, p) /\ t.win = win[p]
                            /\ t.a1 = p.a1 /\ t.a2 = p.a2
                            /\ t.id = IdOf(existing, rows, p)
        BY <1>4
    <2>2. m.id = t.id /\ m.round = t.round
        <3>1. IsItem(m) /\ IsItem(t) /\ m.kind = "match" /\ t.kind = "match"
            BY <1>2, <1>4 DEF MatchInv, TypeOK, IsItem
        <3> QED
            BY <1>8, <3>1, KeyNames
    <2>3. p \notin Fresh(existing, rows)
        <3>1. m.id \in 1..minted.ids
            BY <1>1, <1>2
        <3>2. SUFFICES ASSUME p \in Fresh(existing, rows) PROVE FALSE
            OBVIOUS
        <3>3. IdOf(existing, rows, p) >= minted.ids + 1
            BY <1>1, <1>6, <3>2
        <3> QED
            BY <1>1, <2>1, <2>2, <3>1, <3>3
    <2>4. PICK h \in existing : /\ HeldAt(existing, p) = {h} /\ SameSlot(h, p)
                                /\ IdOf(existing, rows, p) = h.id
        BY <1>5, <2>3
    <2>5. h = m
        <3>1. h \in Matches /\ h.kind = "match" /\ m.kind = "match" /\ h \in table /\ m \in table
            BY <1>2
        <3>2. h.id = m.id /\ h.round = m.round
            BY <2>1, <2>2, <2>4 DEF SameSlot
        <3>3. Key(h) = Key(m)
            BY <3>1, <3>2, MatchKeys
        <3> QED
            BY <3>1, <3>3 DEF MatchInv, KeysAreOne
    <2>6. SurvivingWinner(existing, p) = h.win
        <3>1. \/ /\ SurvivingWinner(existing, p) = None
                 /\ \A k \in existing : HeldAt(existing, p) = {k} =>
                        ~ (k.a1 = p.a1 /\ k.a2 = p.a2)
              \/ \E k \in existing : /\ HeldAt(existing, p) = {k}
                                     /\ SameSlot(k, p)
                                     /\ k.a1 = p.a1 /\ k.a2 = p.a2
                                     /\ SurvivingWinner(existing, p) = k.win
            BY <1>1, <1>3, Survivors
        <3>2. h.a1 = p.a1 /\ h.a2 = p.a2
            BY <1>8, <2>1, <2>5
        <3>3. PICK k \in existing : /\ HeldAt(existing, p) = {k}
                                    /\ SurvivingWinner(existing, p) = k.win
            BY <2>4, <3>1, <3>2
        <3>4. k = h
            BY <2>4, <3>3
        <3> QED
            BY <3>3, <3>4
    <2> QED
        BY <1>7, <2>1, <2>5, <2>6
<1> QED
    BY <1>8 DEF items, win

LEMMA RerunAsks ==
    ASSUME AloneInv, NEW c \in Clients,
           \/ \E from \in EntryRounds, force \in BOOLEAN : AdvanceSource(c, from, force)
           \/ AdvanceDownstream(c)
    PROVE  table' = table /\ \E r : Becomes(c, r) /\ RerunFits(r)
<1> USE DEF AloneInv, MatchInv
<1>1. CASE \E from \in EntryRounds, force \in BOOLEAN : AdvanceSource(c, from, force)
    <2>1. PICK from \in EntryRounds, force \in BOOLEAN : AdvanceSource(c, from, force)
        BY <1>1
    <2> DEFINE rows == AdvanceTargets(from, OfRound(Matches, from))
               r == [at |-> "downstream", rows |-> rows, todo |-> Downstream[from],
                     existing |-> {}, force |-> force]
    <2>2. Becomes(c, r) /\ table' = table
        BY <2>1 DEF AdvanceSource
    <2> HIDE DEF rows
    <2>3. RerunFits(r)
        BY DEF RerunFits
    <2> QED
        BY <2>2, <2>3
<1>2. CASE AdvanceDownstream(c)
    <2> DEFINE q == req[c]
               seen == SeenBy(c)
               win == [row \in q.rows |-> SurvivingWinner(seen, row)]
               next == [at |-> "downstream", rows |-> q.rows, todo |-> <<"small_final">>,
                        existing |-> seen, force |-> q.force]
               items == Identified(seen, q.rows, win)
               built == [at |-> "bracket", items |-> items, request |-> "advance"]
    <2>1. /\ IsDownstream(q)
          /\ \A m \in seen : m \in Known /\ m.kind = "match" /\ IsMatch(m)
          /\ \/ Reads(c, Idle)
             \/ Builds(c, seen, q.rows, win, "advance") /\ Len(q.todo) = 1
             \/ Reads(c, next) /\ q.todo = <<"final", "small_final">>
        BY <1>2, DownstreamStep
    <2>2. seen \subseteq Matches
        <3>1. q.existing \subseteq Matches
            BY <1>2 DEF AdvanceDownstream, RerunFits
        <3> QED
            BY <3>1 DEF SeenBy
    <2>3. CASE Reads(c, Idle)
        BY <2>3 DEF Reads, Idle, RerunFits
    <2>4. CASE Builds(c, seen, q.rows, win, "advance")
        <3>1. RowsFit(q.rows)
            BY <2>1 DEF IsDownstream
        <3>2. \A m \in Matches, t \in items :
                Key(m) = Key(t) /\ m.a1 = t.a1 /\ m.a2 = t.a2 => t.win = m.win
            <4> HIDE DEF q, seen
            <4> QED
                BY <2>2, <3>1, BuildKeepsWinners
        <3>3. Becomes(c, built) /\ table' = table
            BY <2>4 DEF Builds
        <3> HIDE DEF items
        <3>4. RerunFits(built)
            BY <3>2 DEF RerunFits
        <3> QED
            BY <3>3, <3>4
    <2>5. CASE Reads(c, next)
        <3> HIDE DEF seen, q
        <3>1. RerunFits(next)
            BY <2>2 DEF RerunFits
        <3> HIDE DEF next
        <3> QED
            BY <2>5, <3>1 DEF Reads
    <2> QED
        BY <2>1, <2>3, <2>4, <2>5
<1> QED
    BY <1>1, <1>2

LEMMA AloneInit ==
    ASSUME OneClient, Init
    PROVE  AloneInv
<1>1. PICK shift \in Shifts :
        spent = [c \in Clients |-> IF c \in shift.clients THEN 0 ELSE Budget[c]]
    BY DEF Init
<1>2. \A c \in Clients : req[c] = Idle
    BY DEF Init
<1>3. \A c \in Clients : Active(c) => c \in shift.clients
    BY <1>1, <1>2, BoundsAssumption DEF Active
<1>4. \A c \in Clients : RerunFits(req[c])
    BY <1>2 DEF RerunFits, Idle
<1> QED
    BY <1>3, <1>4, MatchInit DEF AloneInv, OneClient

LEMMA AloneStep ==
    ASSUME AloneInv, [Next]_vars
    PROVE  AloneInv'
<1>1. MatchInv'
    BY MatchStep DEF AloneInv
<1>2. ASSUME req' = req, table' = table, spent' = spent PROVE AloneInv'
    <2>1. \A m : m \in Matches' <=> m \in Matches
        BY <1>2 DEF Matches, OfKind, Among
    <2>2. \A c \in Clients : RerunFits(req[c])'
        BY <1>2, <2>1 DEF AloneInv, RerunFits
    <2> QED
        BY <1>1, <1>2, <2>2 DEF AloneInv, Active
<1>3. ASSUME NEW c \in Clients, Calls(c) \/ Asks(c), NEW r, Becomes(c, r), Active(c),
             \/ ~ Reruns(r)
             \/ table' = table /\ RerunFits(r)
      PROVE  AloneInv'
    <2>1. /\ \A d \in Clients : d # c => req'[d] = req[d]
          /\ \A d \in Clients : Active(d)' => Active(d)
          /\ req'[c] = req[c] \/ Active(c)
        BY <1>3, OneMoves DEF AloneInv, MatchInv
    <2>2. req'[c] = r
        BY <1>3 DEF Becomes, AloneInv, MatchInv, TypeOK
    <2>3. ASSUME NEW d \in Clients, d # c PROVE req'[d] = Idle
        BY <1>3, <2>1, <2>2, <2>3 DEF AloneInv, Active
    <2>4. RerunFits(req[c])'
        <3>1. CASE ~ Reruns(r)
            BY <2>2, <3>1 DEF RerunFits, Reruns
        <3>2. CASE table' = table /\ RerunFits(r)
            <4>1. \A m : m \in Matches' <=> m \in Matches
                BY <3>2 DEF Matches, OfKind, Among
            <4> QED
                BY <2>2, <3>2, <4>1 DEF RerunFits
        <3> QED
            BY <1>3, <3>1, <3>2
    <2>5. \A d \in Clients : d # c => RerunFits(req[d])'
        BY <2>3 DEF RerunFits, Idle
    <2>6. \A d \in Clients : RerunFits(req[d])'
        BY <2>4, <2>5
    <2>7. \A d, e \in Clients : Active(d)' /\ Active(e)' => d = e
        BY <2>1 DEF AloneInv
    <2> QED
        BY <1>1, <2>6, <2>7 DEF AloneInv
<1>4. ASSUME NEW c \in Clients, Calls(c) \/ Asks(c) PROVE AloneInv'
    <2>1. TypeOK
        BY DEF AloneInv, MatchInv
    <2>2. \/ Active(c)
          \/ req' = req /\ table' = table /\ spent' = spent
        <3>1. CASE Calls(c)
            <4>1. req[c] # Idle /\ spent' = spent /\ \E r : Becomes(c, r)
                BY <3>1, CallsMove
            <4> QED
                BY <4>1 DEF Active
        <3>2. CASE Asks(c)
            <4>1. /\ table' = table
                  /\ \/ req' = req /\ spent' = spent
                     \/ \E request : Starts(c, request) /\ \E r : Becomes(c, r)
                BY <3>2, AsksMove
            <4> QED
                BY <4>1 DEF Starts, Active
        <3> QED
            BY <1>4, <3>1, <3>2
    <2>3. SUFFICES ASSUME Active(c) PROVE AloneInv'
        BY <1>2, <2>2
    <2>4. ASSUME \E r : Becomes(c, r) /\ ~ Reruns(r) PROVE AloneInv'
        <3>1. PICK r : Becomes(c, r) /\ ~ Reruns(r)
            BY <2>4
        <3> QED
            BY <1>3, <1>4, <2>3, <3>1
    <2>5. CASE \/ \E from \in EntryRounds, force \in BOOLEAN : AdvanceSource(c, from, force)
               \/ AdvanceDownstream(c)
        <3>1. table' = table /\ \E r : Becomes(c, r) /\ RerunFits(r)
            BY <2>5, RerunAsks
        <3>2. PICK r : Becomes(c, r) /\ RerunFits(r)
            BY <3>1
        <3> QED
            BY <1>3, <1>4, <2>3, <3>1, <3>2
    <2>6. CASE \/ \E override \in Overrides, force \in BOOLEAN :
                    SeedAthletes(c, override, force)
               \/ PutWinner(c) \/ ClearWinner(c)
               \/ PostMatch(c) \/ DeleteMatch(c)
               \/ PostTime(c) \/ PutTime(c) \/ DeleteTime(c)
               \/ PostScore(c) \/ PutScore(c) \/ DeleteScore(c)
               \/ PostAthlete(c) \/ DeleteAthlete(c)
        BY <2>1, <2>4, <2>6, QuietAsks
    <2>7. CASE \/ CheckAthlete(c) \/ Create(c) \/ Upsert(c) \/ Drop(c) \/ RemoveAthlete(c)
               \/ SeedRanking(c) \/ SeedEntry(c) \/ WriteBracket(c)
               \/ FindScore(c) \/ QueryReferences(c)
        BY <2>1, <2>4, <2>7, QuietCalls
    <2>8. CASE Refetch(c)
        BY <2>8, <1>2 DEF Refetch
    <2> QED
        BY <1>4, <2>5, <2>6, <2>7, <2>8 DEF Calls, Asks
<1>5. CASE UNCHANGED vars
    BY <1>2, <1>5 DEF vars
<1> QED
    BY <1>4, <1>5 DEF Next

RerunKeepsPlayed ==
    \A c \in Clients :
        (req[c].at = "bracket" /\ req[c].request = "advance" /\ req'[c] = Idle) =>
            \A m \in Matches : m.win # None =>
                \E n \in Matches' :
                    n.id = m.id /\ (n.a1 = m.a1 /\ n.a2 = m.a2 => n.win = m.win)

\* Only its own write takes a bracket out of a client's hands.
LEMMA OnlyItsWrite ==
    ASSUME AloneInv, NEW c \in Clients, req[c].at = "bracket", req'[c] = Idle, [Next]_vars
    PROVE  WriteBracket(c)
<1>1. req[c] # Idle
    BY DEF Idle
<1>2. PICK d \in Clients : Calls(d) \/ Asks(d)
    BY <1>1 DEF Next, vars
<1>3. d = c
    <2>1. \A e \in Clients : e # d => req'[e] = req[e]
        BY <1>2, OneMoves DEF AloneInv, MatchInv
    <2> QED
        BY <1>1, <2>1
<1>4. ~ Asks(c)
    <2>1. SUFFICES ASSUME Asks(c) PROVE FALSE
        OBVIOUS
    <2>2. /\ table' = table
          /\ \/ req' = req /\ spent' = spent
             \/ \E request : Starts(c, request) /\ \E r : Becomes(c, r)
        BY <2>1, AsksMove
    <2> QED
        BY <1>1, <2>2 DEF Starts
<1>5. Calls(c)
    BY <1>2, <1>3, <1>4
<1> QED
    BY <1>5 DEF Calls, CheckAthlete, Create, Upsert, Drop, SeedRanking, SeedEntry,
           AdvanceDownstream, FindScore, QueryReferences, RemoveAthlete

LEMMA RerunStep ==
    ASSUME AloneInv, [Next]_vars
    PROVE  RerunKeepsPlayed
<1>1. ASSUME NEW c \in Clients, req[c].at = "bracket", req[c].request = "advance",
             req'[c] = Idle, NEW m \in Matches, m.win # None
      PROVE  \E n \in Matches' :
                n.id = m.id /\ (n.a1 = m.a1 /\ n.a2 = m.a2 => n.win = m.win)
    <2> DEFINE items == req[c].items
    <2>1. table' = PutOver(items)
        BY <1>1, OnlyItsWrite DEF WriteBracket, Writes
    <2>2. \A t \in items : IsMatch(t) /\ t.kind = "match"
        <3>1. IsRequest(req[c])
            BY DEF AloneInv, MatchInv, TypeOK
        <3> QED
            BY <1>1, <3>1, ByStage DEF IsBracket
    <2>3. \A t \in items :
            Key(m) = Key(t) /\ m.a1 = t.a1 /\ m.a2 = t.a2 => t.win = m.win
        BY <1>1 DEF AloneInv, RerunFits
    <2> HIDE DEF items
    <2>4. m \in table /\ m.kind = "match" /\ IsItem(m)
        BY KnownIs DEF Matches, OfKind, Among, AloneInv, MatchInv, TypeOK
    <2>5. CASE \A t \in items : Key(m) # Key(t)
        <3>1. m \in table'
            BY <2>1, <2>4, <2>5 DEF PutOver
        <3>2. m \in Matches'
            BY <2>4, <3>1, MatchesNext
        <3> QED
            BY <3>2
    <2>6. CASE \E t \in items : Key(m) = Key(t)
        <3>1. PICK t \in items : Key(m) = Key(t)
            BY <2>6
        <3>2. t \in Matches'
            BY <2>1, <2>2, MatchesNext DEF PutOver
        <3>3. t.id = m.id
            <4>1. IsItem(t) /\ t.kind = "match"
                BY <2>2 DEF IsItem
            <4> QED
                BY <2>4, <3>1, <4>1, KeyNames
        <3> QED
            BY <2>3, <3>1, <3>2, <3>3
    <2> QED
        BY <2>5, <2>6
<1> QED
    BY <1>1 DEF RerunKeepsPlayed

(***************************************************************************)
(* With one client at a time a re-run of the advance takes no result away, *)
(* forced or not: a match whose pair it writes unchanged keeps its         *)
(* identifier and the winner it had, and a match it does not write stays.  *)
(* The re-run lists its downstream rounds one after the other and the      *)
(* identifier of a row it kept is the one its listing found, so the rows   *)
(* its transaction replaces are the rows it looked the winners up in       *)
(* (advanceBracket).                                                       *)
(***************************************************************************)
THEOREM OneClientKeepsPlayed ==
    ASSUME OneClient
    PROVE  Spec => PlayedStaysPlayed
<1>1. Init => AloneInv
    BY AloneInit
<1>2. AloneInv /\ [Next]_vars => AloneInv'
    BY AloneStep
<1>3. AloneInv /\ [Next]_vars => [RerunKeepsPlayed]_vars
    BY RerunStep
<1> QED
    BY <1>1, <1>2, <1>3, PTL DEF Spec, PlayedStaysPlayed, RerunKeepsPlayed
=============================================================================
