------------------------------ MODULE Standings ------------------------------
(***************************************************************************)
(* Overall standings and the combined title (server/src/core/              *)
(* standings.ts): bracket rows merged with the qualification order, band   *)
(* by band, an athlete keeping the first band that places it.              *)
(***************************************************************************)
EXTENDS BracketProgression, Rankings, SequencesExt

Contenders(m) == {m.a1, m.a2} \ {None}

DecidedWinner(m) == IF m.win \in Contenders(m) THEN m.win ELSE None
IsDecided(m) == DecidedWinner(m) # None

OfRound(matches, round) ==
    LET Key(m) == <<m.pos, m.id>>
    IN  SortedBy({m \in matches : m.round = round}, Key)

\* An athlete the bracket places without a qualification result comes last.
ByQuali(S, quali) ==
    LET Key(a) == IF \E i \in DOMAIN quali : quali[i] = a
                  THEN <<CHOOSE i \in DOMAIN quali : quali[i] = a, a>>
                  ELSE <<Infinity, a>>
    IN  SortedBy(S, Key)

Place(a, source, firm) == [athlete |-> a, source |-> source, firm |-> firm]
PlaceAll(seq, source, firm) == [i \in DOMAIN seq |-> Place(seq[i], source, firm)]

\* Mutant: both contenders of an undecided match are shown as firm.
MutMatchBand(matches, round, quali) ==
    LET Band(m) ==
            IF IsDecided(m)
            THEN PlaceAll(<<m.win>> \o SetToSeq(Contenders(m) \ {m.win}), round, TRUE)
            ELSE PlaceAll(ByQuali(Contenders(m), quali), round, TRUE)
        rows == OfRound(matches, round)
    IN  FlattenSeq([i \in DOMAIN rows |-> Band(rows[i])])

\* Final and small final: the winner over the loser, else both provisional.
MatchBand(matches, round, quali) ==
    LET Band(m) ==
            IF IsDecided(m)
            THEN PlaceAll(<<m.win>> \o SetToSeq(Contenders(m) \ {m.win}), round, TRUE)
            ELSE PlaceAll(ByQuali(Contenders(m), quali), round, FALSE)
        rows == OfRound(matches, round)
    IN  FlattenSeq([i \in DOMAIN rows |-> Band(rows[i])])

\* Semi-finalists, and quarter winners nobody advanced yet.
TopFourBand(matches, quali) ==
    LET inHalf == UNION {Contenders(m) : m \in {x \in matches : x.round = "half"}}
        through == {m.win : m \in {x \in matches : x.round = "quarter" /\ IsDecided(x)}}
        seq == ByQuali(inHalf \union through, quali)
    IN  [i \in DOMAIN seq |->
            Place(seq[i], IF seq[i] \in inHalf THEN "half" ELSE "quarter", FALSE)]

\* Mutant: a quarter loser is firm while another quarter is still open.
MutQuarterRest(matches, quali) ==
    LET quarters == {m \in matches : m.round = "quarter"}
    IN  PlaceAll(ByQuali(UNION {Contenders(m) : m \in quarters}, quali), "quarter",
                 \E m \in quarters : IsDecided(m))

\* Everyone else of the quarters: the losers, once every quarter is decided.
QuarterRest(matches, quali) ==
    LET quarters == {m \in matches : m.round = "quarter"}
    IN  PlaceAll(ByQuali(UNION {Contenders(m) : m \in quarters}, quali), "quarter",
                 \A m \in quarters : IsDecided(m))

\* Mutant: an athlete is placed by every band that lists it.
MutFirstPlaces(seq) == seq

\* An athlete's first band wins.
FirstPlaces(seq) ==
    LET first == {i \in DOMAIN seq : \A j \in 1..(i - 1) : seq[j].athlete # seq[i].athlete}
        order == SortedBy(first, LAMBDA i : <<i>>)
    IN  [k \in DOMAIN order |-> seq[order[k]]]

BracketSize(matches) ==
    IF \E m \in matches : m.round = "quarter" THEN 8
    ELSE IF \E m \in matches : m.round = "half" THEN 4 ELSE 0

ComputeOverallStandings(listed, quali) ==
    LET matches == {m \in listed : m.round \in Rounds}
        banded == FirstPlaces(MatchBand(matches, "final", quali)
                              \o MatchBand(matches, "small_final", quali)
                              \o TopFourBand(matches, quali)
                              \o QuarterRest(matches, quali))
        unplaced(a) == \A i \in DOMAIN banded : banded[i].athlete # a
        tail == PlaceAll(SelectSeq(quali, unplaced), "qualification", matches # {})
        floor == Max({Len(banded), BracketSize(matches)})
    IN  [i \in 1..(Len(banded) + Len(tail)) |->
            IF i <= Len(banded) THEN banded[i] @@ [rank |-> i]
            ELSE tail[i - Len(banded)] @@ [rank |-> floor + i - Len(banded)]]

\* The average of two ranks is kept doubled.  Equal averages share a rank.
ComputeCombinedRanking(speed, freestyle) ==
    LET By(rows, a) == rows[CHOOSE i \in DOMAIN rows : rows[i].athlete = a]
        both == {p.athlete : p \in ToSet(speed)} \intersect {p.athlete : p \in ToSet(freestyle)}
        Sum(a) == By(speed, a).rank + By(freestyle, a).rank
        Key(a) == <<Sum(a), Min({By(speed, a).rank, By(freestyle, a).rank}), a>>
        order == SortedBy(both, Key)
        rank[i \in DOMAIN order] ==
            IF i > 1 /\ Sum(order[i - 1]) = Sum(order[i]) THEN rank[i - 1] ELSE i
    IN  [i \in DOMAIN order |->
            [athlete |-> order[i], sum |-> Sum(order[i]), rank |-> rank[i],
             firm |-> By(speed, order[i]).firm /\ By(freestyle, order[i]).firm]]
=============================================================================
