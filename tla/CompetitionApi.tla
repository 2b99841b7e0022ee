---------------------------- MODULE CompetitionApi ----------------------------
(***************************************************************************)
(* The competition server (server/src/functions/{matches,times,scores,     *)
(* athletes}/handler.ts over server/src/core/competitionDb.ts).  A request *)
(* reads the table, decides, and writes once; nothing holds the table      *)
(* between two of its calls, so requests of different clients interleave   *)
(* call by call.  The table holds the athletes, the qualification Times    *)
(* and Scores and the bracket of one discipline and gender.                *)
(*                                                                         *)
(* A request refused on its first read leaves no trace and is not taken.   *)
(***************************************************************************)
EXTENDS Standings

CONSTANTS
    Clients,      \* callers with one request in flight each
    May,          \* the requests each client makes
    Athletes,     \* athletes there may be
    Discipline,   \* "speed" or "freestyle"
    Elapsed,      \* elapsed times a Time may be posted with
    Marks,        \* marks a Score may be posted with
    MaxAthletes,  \* MAX_ATHLETES_PER_COMP
    PostRounds,   \* rounds a Match may be posted in by hand
    Overrides,    \* entry stages an organiser asks for, "auto" for none
    Shifts,       \* the clients that work side by side, and the table they find
    Prompt,       \* the pages' lists are re-read the moment the table changes
    Counted,      \* requests that count against the bound
    Budget        \* bound: counted requests each client makes

Requests ==
    {"seed", "advance", "forceSeed", "forceAdvance", "putWinner", "changeWinner",
     "clearWinner", "postMatch", "deleteMatch", "postTime", "putTime", "deleteTime",
     "postScore", "putScore", "deleteScore", "postAthlete", "deleteAthlete"}

ASSUME ClientsAssumption == May \in [Clients -> SUBSET Requests]
ASSUME AthletesAssumption == Athletes \subseteq Nat \ {None}
ASSUME OverridesAssumption == Overrides \subseteq EntryRounds \union {"auto"}
ASSUME BoundsAssumption == MaxAthletes \in Nat /\ Budget \in [Clients -> Nat]

VARIABLES
    table,   \* the items of the competition's partition
    minted,  \* identifiers randomUUID has given out: how many, and the athletes'
    req,     \* each client's request in flight
    view,    \* the match list each client's page has cached
    spent    \* counted requests each client has made

vars == <<table, minted, req, view, spent>>

-----------------------------------------------------------------------------
(* The table.  An item's key is its sort key: a Match moves when its round  *)
(* changes, a Time or a Score when its athlete does.                        *)

AthleteItem(a) == [kind |-> "athlete", athlete |-> a]
TimeItem(id, a, ms) == [kind |-> "time", id |-> id, athlete |-> a, ms |-> ms]
ScoreItem(id, a, mark) == [kind |-> "score", id |-> id, athlete |-> a, mark |-> mark]
MatchItem(id, row, win) ==
    [kind |-> "match", id |-> id, round |-> row.round, pos |-> row.pos,
     a1 |-> row.a1, a2 |-> row.a2, win |-> win]

\* What the partition holds.
IsMatch(i) == i = MatchItem(i.id, Row(i.round, i.pos, i.a1, i.a2), i.win)
IsItem(i) ==
    \/ i.kind = "athlete" /\ i = AthleteItem(i.athlete)
    \/ i.kind = "time" /\ i = TimeItem(i.id, i.athlete, i.ms)
    \/ i.kind = "score" /\ i = ScoreItem(i.id, i.athlete, i.mark)
    \/ i.kind = "match" /\ IsMatch(i)

Key(item) ==
    CASE item.kind = "athlete" -> <<"athlete", item.athlete>>
      [] item.kind = "time" -> <<"time", item.athlete, item.id>>
      [] item.kind = "score" -> <<"score", item.athlete>>
      [] item.kind = "match" -> <<"match", item.round, item.id>>

\* A competition starts without a bracket, which only requests write; a table
\* holds one item under a key.
ASSUME ShiftsAssumption ==
    \A shift \in Shifts :
        /\ \A i \in shift.table : IsItem(i) /\ i.kind # "match"
        /\ \A i, j \in shift.table : Key(i) = Key(j) => i = j

Among(items, kind) == {item \in items : item.kind = kind}
OfKind(kind) == Among(table, kind)
Matches == OfKind("match")
Present(key) == \E item \in table : Key(item) = key
AthletesListed == {item.athlete : item \in OfKind("athlete")}

\* The table once items are put over whatever holds their keys.
PutOver(items) == {i \in table : Key(i) \notin {Key(n) : n \in items}} \union items
Without(key) == {i \in table : Key(i) # key}

\* References the athlete deletion looks for.
Refers(item, a) ==
    \/ item.kind \in {"time", "score"} /\ item.athlete = a
    \/ item.kind = "match" /\ a \in {item.a1, item.a2, item.win}

-----------------------------------------------------------------------------
(* Requests.  A write is what is left to do once a request has decided.     *)

Idle == [at |-> "idle"]
Creating(item) == [at |-> "create", item |-> item]
Upserting(old, new) == [at |-> "upsert", old |-> Key(old), item |-> new]
Dropping(item) == [at |-> "drop", item |-> item]

\* A request whose athletes are looked up before its next call.
Checking(todo, then) == [at |-> "check", todo |-> todo, then |-> then]

Starts(c, request) ==
    /\ req[c] = Idle /\ request \in May[c] /\ spent[c] < Budget[c]
    /\ spent' = [spent EXCEPT ![c] = IF request \in Counted THEN @ + 1 ELSE @]

Becomes(c, r) == req' = [req EXCEPT ![c] = r]

\* A call that only reads.
Reads(c, r) == Becomes(c, r) /\ UNCHANGED <<table, minted, view, spent>>

\* A call that writes ends the request.
Writes(c, items) ==
    /\ table' = items
    /\ Becomes(c, Idle)
    /\ UNCHANGED <<minted, view, spent>>

Init ==
    /\ \E shift \in Shifts :
        /\ table = shift.table
        /\ spent = [c \in Clients |-> IF c \in shift.clients THEN 0 ELSE Budget[c]]
    /\ minted = [ids |-> 0, athletes |-> AthletesListed]
    /\ req = [c \in Clients |-> Idle]
    /\ view = [c \in Clients |-> {}]

\* The request checks its next athlete: 400 when it is gone.
CheckAthlete(c) ==
    /\ req[c].at = "check"
    /\ Reads(c, IF Head(req[c].todo) \notin AthletesListed THEN Idle
                ELSE IF Len(req[c].todo) > 1
                     THEN [req[c] EXCEPT !.todo = Tail(@)] ELSE req[c].then)

Then(todo, r) == IF todo = <<>> THEN r ELSE Checking(todo, r)

\* conditionalPut with attribute_not_exists: 409 when the key is taken.
Create(c) ==
    /\ req[c].at = "create"
    /\ Writes(c, IF Present(Key(req[c].item)) THEN table ELSE PutOver({req[c].item}))

\* In place the key must still be held (404); a move needs the old key held and
\* the new one free (409), in one transaction.
Upsert(c) ==
    /\ req[c].at = "upsert"
    /\ LET old == req[c].old
           new == Key(req[c].item)
       IN  Writes(c, IF Present(old) /\ (new = old \/ ~Present(new))
                     THEN Without(old) \union {req[c].item} ELSE table)

\* Deletes of a Time, a Match and a Score are unconditional.
Drop(c) ==
    /\ req[c].at = "drop"
    /\ Writes(c, Without(Key(req[c].item)))

-----------------------------------------------------------------------------
(* Bracket seeding and advance.                                            *)

SeedAthletes(c, override, force) ==
    /\ Starts(c, IF force THEN "forceSeed" ELSE "seed")
    /\ Becomes(c, [at |-> "rank", listed |-> AthletesListed, override |-> override,
                   force |-> force])
    /\ UNCHANGED <<table, minted, view>>

SeedRanking(c) ==
    /\ req[c].at = "rank"
    /\ LET ranked == IF Discipline = "freestyle"
                     THEN RankAthletesByOverall(req[c].listed, OfKind("score"))
                     ELSE RankAthletesByBestTime(req[c].listed, OfKind("time"))
           stage == ChooseSeedStage(ranked, req[c].override)
       IN  Reads(c, IF ~CanSeed(ranked, stage) THEN Idle
                    ELSE [at |-> "entry", rows |-> SeedFromPairs(ranked, stage),
                          stage |-> stage, force |-> req[c].force])

\* Mutant: every bracket row gets a fresh identifier.
MutHeldAt(existing, row) == {}

\* The last of the rows at a position, in listing order, keeps its identifier;
\* a free position gets a fresh one.
HeldAt(existing, row) ==
    LET here == {m \in existing : m.round = row.round /\ m.pos = row.pos}
    IN  IF here = {} THEN {} ELSE {CHOOSE m \in here : \A n \in here : n.id <= m.id}

\* The rows of a write whose position is free, in the order they are written.
Fresh(existing, rows) == {row \in rows : HeldAt(existing, row) = {}}
WriteOrder(row) == IF row.round = "small_final" THEN 5 ELSE row.pos

IdOf(existing, rows, row) ==
    LET fresh == Fresh(existing, rows)
    IN  IF row \in fresh
        THEN minted.ids + Cardinality({r \in fresh : WriteOrder(r) <= WriteOrder(row)})
        ELSE (CHOOSE m \in HeldAt(existing, row) : TRUE).id

\* The matches the rows become, with the winner each is given.
Identified(existing, rows, win) ==
    {MatchItem(IdOf(existing, rows, row), row, win[row]) : row \in rows}

\* The rows are built: one transaction is left to send.
Builds(c, existing, rows, win, request) ==
    /\ Becomes(c, [at |-> "bracket", items |-> Identified(existing, rows, win),
                   request |-> request])
    /\ minted' = [minted EXCEPT !.ids = @ + Cardinality(Fresh(existing, rows))]
    /\ UNCHANGED <<table, view, spent>>


\* A match of the entry round that holds anything is 409, unless forced.
IsFilled(m) == {m.a1, m.a2, m.win} # {None}

SeedEntry(c) ==
    /\ req[c].at = "entry"
    /\ LET existing == {m \in Matches : m.round = req[c].stage}
       IN  IF ~req[c].force /\ \E m \in existing : IsFilled(m)
           THEN Reads(c, Idle)
           ELSE Builds(c, existing, req[c].rows, [row \in req[c].rows |-> None], "seed")

AdvanceSource(c, from, force) ==
    /\ Starts(c, IF force THEN "forceAdvance" ELSE "advance")
    /\ LET source == OfRound(Matches, from)
       IN  /\ CanAdvance(from, source)
           /\ \A i \in DOMAIN source : source[i].win # None
           /\ Becomes(c, [at |-> "downstream", rows |-> AdvanceTargets(from, source),
                          todo |-> Downstream[from], existing |-> {}, force |-> force])
    /\ UNCHANGED <<table, minted, view>>

\* A slot that already holds another athlete.
Collides(m, row) ==
    \/ m.a1 \notin {None, row.a1}
    \/ m.a2 \notin {None, row.a2}

\* Mutant: a re-run clears the winner it finds.
MutSurvivingWinner(existing, row) == None

\* The winner survives with the pair it was decided for.
SurvivingWinner(existing, row) ==
    LET held == {m \in HeldAt(existing, row) : m.a1 = row.a1 /\ m.a2 = row.a2}
    IN  IF held = {} THEN None ELSE (CHOOSE m \in held : TRUE).win

\* The downstream rounds are listed one after the other.
AdvanceDownstream(c) ==
    /\ req[c].at = "downstream"
    /\ LET seen == req[c].existing \union {m \in Matches : m.round = Head(req[c].todo)}
           rows == req[c].rows
           survivor == [row \in rows |-> SurvivingWinner(seen, row)]
       IN  IF Len(req[c].todo) > 1
           THEN Reads(c, [req[c] EXCEPT !.existing = seen, !.todo = Tail(@)])
           ELSE IF ~req[c].force
                   /\ \E row \in rows : \E m \in HeldAt(seen, row) : Collides(m, row)
           THEN Reads(c, Idle)
           ELSE Builds(c, seen, rows, survivor, "advance")

\* writeBracketMatches: every put is unconditional, all land or none does.
WriteBracket(c) ==
    /\ req[c].at = "bracket"
    /\ Writes(c, PutOver(req[c].items))

-----------------------------------------------------------------------------
(* Match, Time, Score and Athlete requests.                                *)

\* The page's list is read again: at its own pace, or on a db_update.  (One that makes
\* no more requests is let be.)
Refetch(c) ==
    /\ ~Prompt /\ "putWinner" \in May[c] /\ spent[c] < Budget[c]
    /\ view' = [view EXCEPT ![c] = Matches]
    /\ UNCHANGED <<table, minted, req, spent>>

\* A page puts a match of its cached list back with another winner.  The lookup
\* finds the row by its identifier; slots the found row has go unchecked.
PutMatch(c, m, win, request) ==
    /\ Starts(c, request)
    /\ \E x \in Matches :
        /\ x.id = m.id
        /\ Becomes(c, Then(SelectSeq(<<m.a1, m.a2>>,
                                      LAMBDA a : a \notin {None, x.a1, x.a2, x.win}),
                           Upserting(x, [m EXCEPT !.win = win])))
    /\ UNCHANGED <<table, minted, view>>

Cached(c) == IF Prompt THEN Matches ELSE view[c]

PutWinner(c) ==
    \E m \in Cached(c) : \E w \in Contenders(m) \ {m.win} :
        PutMatch(c, m, w, IF m.win = None THEN "putWinner" ELSE "changeWinner")
ClearWinner(c) == \E m \in Cached(c) : PutMatch(c, m, None, "clearWinner")

\* A request that stores a new item under a fresh identifier.
Posts(c, request, todo, then) ==
    /\ Starts(c, request)
    /\ Becomes(c, Then(todo, then))
    /\ minted' = [minted EXCEPT !.ids = @ + 1]
    /\ UNCHANGED <<table, view>>

PostMatch(c) ==
    \E round \in PostRounds, a1, a2 \in minted.athletes :
        /\ a1 < a2
        /\ Posts(c, "postMatch", <<a1, a2>>,
                 Creating(MatchItem(minted.ids + 1, Row(round, 1, a1, a2), None)))

PostTime(c) ==
    \E a \in minted.athletes, ms \in Elapsed :
        Posts(c, "postTime", <<a>>, Creating(TimeItem(minted.ids + 1, a, ms)))

\* Requests by identifier: the item is looked up first, 404 when it is gone.
Finds(c, request, kind, Next(_)) ==
    /\ Starts(c, request)
    /\ \E item \in OfKind(kind) : Becomes(c, Next(item))
    /\ UNCHANGED <<table, minted, view>>

DeleteMatch(c) == Finds(c, "deleteMatch", "match", Dropping)
DeleteTime(c) == Finds(c, "deleteTime", "time", Dropping)
DeleteScore(c) == Finds(c, "deleteScore", "score", Dropping)

\* An edit may reassign the item; only a new athlete is looked up.
Reassigned(item, a) ==
    Then(SelectSeq(<<a>>, LAMBDA b : b # item.athlete),
         Upserting(item, [item EXCEPT !.athlete = a]))

PutTime(c) ==
    \E a \in minted.athletes : Finds(c, "putTime", "time", LAMBDA item : Reassigned(item, a))
PutScore(c) ==
    \E a \in minted.athletes : Finds(c, "putScore", "score", LAMBDA item : Reassigned(item, a))

\* The Score POST looks its key up and re-uses the identifier it finds.
PostScore(c) ==
    \E a \in minted.athletes, mark \in Marks :
        /\ Starts(c, "postScore")
        /\ Becomes(c, Checking(<<a>>, [at |-> "score", athlete |-> a, mark |-> mark]))
        /\ UNCHANGED <<table, minted, view>>

FindScore(c) ==
    /\ req[c].at = "score"
    /\ LET a == req[c].athlete
           held == {s \in OfKind("score") : s.athlete = a}
       IN  IF held = {}
           THEN /\ Becomes(c, Creating(ScoreItem(minted.ids + 1, a, req[c].mark)))
                /\ minted' = [minted EXCEPT !.ids = @ + 1]
                /\ UNCHANGED <<table, view, spent>>
           ELSE LET s == CHOOSE s \in held : TRUE
                IN  Reads(c, Upserting(s, [s EXCEPT !.mark = req[c].mark]))

\* The cap is read before the athlete is created.
PostAthlete(c) ==
    \E a \in Athletes \ minted.athletes :
        /\ Starts(c, "postAthlete")
        /\ Cardinality(AthletesListed) < MaxAthletes
        /\ Becomes(c, Creating(AthleteItem(a)))
        /\ minted' = [minted EXCEPT !.athletes = @ \union {a}]
        /\ UNCHANGED <<table, view>>

\* Three reference queries run side by side; the delete follows when none hits.
\* `bound` is history: the references there were when the request came in.
DeleteAthlete(c) ==
    \E a \in AthletesListed :
        /\ Starts(c, "deleteAthlete")
        /\ Becomes(c, [at |-> "queries", athlete |-> a, todo |-> {"time", "match", "score"},
                       hit |-> FALSE, bound |-> {item \in table : Refers(item, a)}])
        /\ UNCHANGED <<table, minted, view>>

\* Mutant: the last query to answer decides.
MutQueryReferences(c) ==
    /\ req[c].at = "queries"
    /\ \E kind \in req[c].todo :
        LET hit == \E item \in OfKind(kind) : Refers(item, req[c].athlete)
            left == req[c].todo \ {kind}
        IN  Reads(c, IF left # {} THEN [req[c] EXCEPT !.todo = left, !.hit = hit]
                     ELSE IF hit THEN Idle
                     ELSE [at |-> "remove", athlete |-> req[c].athlete, bound |-> req[c].bound])

QueryReferences(c) ==
    /\ req[c].at = "queries"
    /\ \E kind \in req[c].todo :
        LET hit == req[c].hit \/ \E item \in OfKind(kind) : Refers(item, req[c].athlete)
            left == req[c].todo \ {kind}
        IN  Reads(c, IF left # {} THEN [req[c] EXCEPT !.todo = left, !.hit = hit]
                     ELSE IF hit THEN Idle
                     ELSE [at |-> "remove", athlete |-> req[c].athlete, bound |-> req[c].bound])

RemoveAthlete(c) ==
    /\ req[c].at = "remove"
    /\ Writes(c, Without(Key(AthleteItem(req[c].athlete))))

-----------------------------------------------------------------------------
Calls(c) ==
    \/ CheckAthlete(c) \/ Create(c) \/ Upsert(c) \/ Drop(c)
    \/ SeedRanking(c) \/ SeedEntry(c) \/ AdvanceDownstream(c) \/ WriteBracket(c)
    \/ FindScore(c) \/ QueryReferences(c) \/ RemoveAthlete(c)

Asks(c) ==
    \/ \E override \in Overrides, force \in BOOLEAN :
            SeedAthletes(c, override, force)
    \/ \E from \in EntryRounds, force \in BOOLEAN : AdvanceSource(c, from, force)
    \/ Refetch(c) \/ PutWinner(c) \/ ClearWinner(c)
    \/ PostMatch(c) \/ DeleteMatch(c)
    \/ PostTime(c) \/ PutTime(c) \/ DeleteTime(c)
    \/ PostScore(c) \/ PutScore(c) \/ DeleteScore(c)
    \/ PostAthlete(c) \/ DeleteAthlete(c)

Next == \E c \in Clients : Calls(c) \/ Asks(c)

Spec == Init /\ [][Next]_vars

-----------------------------------------------------------------------------
(* Properties.                                                             *)


\* With one organiser a position of a round has one row, whatever the panels and
\* the administration write or delete meanwhile (seedBracket, advanceBracket).
OneRowPerSlot ==
    \A m, n \in Matches :
        (m.round \in Rounds /\ m.round = n.round /\ m.pos = n.pos) => m = n

\* An athlete is removed only when every reference there was at the request is
\* gone: the three queries run at different moments (athleteHasReferences).
KeepsReferenced ==
    \A c \in Clients : req[c].at = "remove" => req[c].bound \intersect table = {}

\* What a rankings request computes from the table it reads.
Qualified(items) ==
    LET listed == {i.athlete : i \in Among(items, "athlete")}
    IN  IF Discipline = "freestyle"
        THEN RankAthletesByOverall(listed, Among(items, "score"))
        ELSE RankAthletesByBestTime(listed, Among(items, "time"))

Overall(items) == ComputeOverallStandings(Among(items, "match"), Qualified(items))

Combined(items) ==
    LET marked == RankAthletesByOverall({i.athlete : i \in Among(items, "athlete")},
                                        Among(items, "score"))
    IN  ComputeCombinedRanking(Overall(items), ComputeOverallStandings({}, marked))

\* Everyone the bracket or the ranking knows is placed, once, in rank order; the
\* combined title lists an athlete once, one rank below those with a better average.
EveryonePlaced ==
    LET rows == Overall(table) both == Combined(table)
    IN  /\ {p.athlete : p \in ToSet(rows)}
             = ToSet(Qualified(table)) \union UNION {Contenders(m) : m \in Matches}
        /\ \A i, j \in DOMAIN rows :
            i < j => rows[i].athlete # rows[j].athlete /\ rows[i].rank < rows[j].rank
        /\ \A i, j \in DOMAIN both : both[i].athlete = both[j].athlete => i = j
        /\ \A r \in ToSet(both) : r.rank = 1 + Cardinality({s \in ToSet(both) : s.sum < r.sum})

\* A firm rank lies where rule G3 puts its source: the finals 1-2 and 3-4, quarter
\* losers 5-8, the tail below the bracket (computeOverallStandings).
FirmRanksFitTheirSource ==
    \A p \in ToSet(Overall(table)) : p.firm =>
        CASE p.source = "final" -> p.rank \in 1..2
          [] p.source = "small_final" -> p.rank \in 3..4
          [] p.source = "quarter" -> p.rank \in 5..8
          [] p.source = "qualification" -> p.rank > BracketSize(Matches)
          [] OTHER -> FALSE

\* Nothing decided is rewritten, no filled slot changes hands, the ranking stands.
OnlyAddsResults ==
    /\ \A m \in Matches : m.win # None => m \in Matches'
    /\ \A m \in Matches : \E n \in Matches' :
        Key(n) = Key(m) /\ m.a1 \in {None, n.a1} /\ m.a2 \in {None, n.a2}
    /\ Qualified(table) = Qualified(table')

FirmRanks(items) ==
    {[athlete |-> p.athlete, rank |-> p.rank] : p \in {q \in ToSet(Overall(items)) : q.firm}}

\* A rank shown as firm is final: a step that only adds results never moves it
\* and never makes it provisional again (standings.ts, the band model).
FirmRanksStay == [][OnlyAddsResults => FirmRanks(table) \subseteq FirmRanks(table')]_vars

\* A re-run advance takes no result off a pair that stayed, forced or not, while nobody
\* works beside the organiser (advanceBracket).  A winner another client stores between
\* the run's listing and its write is put back to undecided.
PlayedStaysPlayed ==
    [][\A c \in Clients :
        (req[c].at = "bracket" /\ req[c].request = "advance" /\ req'[c] = Idle) =>
            \A m \in Matches : m.win # None =>
                \E n \in Matches' :
                    n.id = m.id /\ (n.a1 = m.a1 /\ n.a2 = m.a2 => n.win = m.win)]_vars
=============================================================================
