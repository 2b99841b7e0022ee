------------------------------- MODULE Rankings -------------------------------
(***************************************************************************)
(* Qualification rankings (server/src/core/rankings.ts).  One gender of    *)
(* one competition.  Athletes are numbered in the order the athlete        *)
(* listing has them, by name, so the number stands for the name in every   *)
(* tiebreak.  A Time is a record with the athlete and the elapsed time, a  *)
(* Score one with the athlete and the mark: whether it is a DNF, the       *)
(* overall, and the four judged components in tiebreak order.              *)
(***************************************************************************)
EXTENDS Integers, Sequences, FiniteSets, FiniteSetsExt

\* Above every elapsed time and every overall.
Infinity == 10000000

\* u comes before v, the first difference deciding.
Precedes(u, v) == \E i \in DOMAIN u : u[i] < v[i] /\ \A j \in 1..(i - 1) : u[j] = v[j]

\* The elements of S in the order of their keys, which are distinct.
SortedBy(S, Key(_)) ==
    LET First(T) == CHOOSE x \in T : \A y \in T \ {x} : Precedes(Key(x), Key(y))
        sorted[T \in SUBSET S] ==
            IF T = {} THEN <<>> ELSE <<First(T)>> \o sorted[T \ {First(T)}]
    IN  sorted[S]

RunsOf(times, a) == {t \in times : t.athlete = a}

BestTime(times, a) == Min({t.ms : t \in RunsOf(times, a)})

\* Of two equal best runs one is the backup; an athlete of one run has none.
SecondBest(times, a) ==
    LET best == CHOOSE t \in RunsOf(times, a) : t.ms = BestTime(times, a)
        rest == RunsOf(times, a) \ {best}
    IN  IF rest = {} THEN Infinity ELSE Min({t.ms : t \in rest})

RankAthletesByBestTime(athletes, times) ==
    LET Key(a) == <<BestTime(times, a), SecondBest(times, a), a>>
    IN  SortedBy({a \in athletes : RunsOf(times, a) # {}}, Key)

SortOverall(mark) == IF mark.dnf THEN -Infinity ELSE mark.overall

RankAthletesByOverall(athletes, scores) ==
    LET Mark(a) == (CHOOSE s \in scores : s.athlete = a).mark
        Key(a) == <<-SortOverall(Mark(a))>> \o [i \in 1..4 |-> -Mark(a).parts[i]] \o <<a>>
    IN  SortedBy({a \in athletes : \E s \in scores : s.athlete = a}, Key)
=============================================================================
