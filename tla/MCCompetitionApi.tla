--------------------------- MODULE MCCompetitionApi ---------------------------
(* CompetitionApi on small competitions.                                   *)
EXTENDS CompetitionApi

\* The first n athletes, each with a qualification Time in their order; 2 and 3
\* tie on it and have a second run to part them.
Field(n) ==
    {AthleteItem(a) : a \in 1..n}
        \union {TimeItem(100 + a, a, IF a = 3 THEN 20 ELSE 10 * a) : a \in 1..n}
        \union {TimeItem(110, 2, 25), TimeItem(111, 3, 24)}

Mark(n) == [dnf |-> n = 0, overall |-> n, parts |-> <<n, 0, 0, 0>>]
SomeMarks == {Mark(0), Mark(1)}

\* An organiser, a panel and a desk beside the bracket; a planner who forces nothing, a
\* referee's panel and a desk that removes matches beside a ranking that changes; a judge and a
\* clerk beside the scores.
Office ==
    [organiser |-> {"seed", "forceSeed", "advance"},
     panel |-> {"putWinner", "changeWinner", "clearWinner"},
     desk |-> {"postMatch", "deleteMatch", "deleteAthlete"},
     planner |-> {"seed"},
     referee |-> {"putWinner", "changeWinner", "clearWinner"},
     remover |-> {"deleteMatch"},
     timing |-> {"postTime"},
     judge |-> {"postScore", "deleteScore"},
     clerk |-> {"postScore", "deleteAthlete", "postAthlete"}]
OfficeBudget == [organiser |-> 3, panel |-> 2, desk |-> 1,
                 planner |-> 2, referee |-> 1, remover |-> 2, timing |-> 1, judge |-> 2, clerk |-> 2]
OfficeShifts ==
    {[clients |-> {"organiser", "panel", "desk"}, table |-> Field(4)],
     [clients |-> {"planner", "referee", "remover", "timing"}, table |-> Field(4)],
     [clients |-> {"judge", "clerk"},
      table |-> {AthleteItem(1), AthleteItem(2), TimeItem(101, 1, 10),
                 ScoreItem(201, 1, Mark(0))}]}

\* One office at a time works through a whole competition.  The first corrects
\* the bracket, the second what the bracket was seeded from, the third runs a
\* field that fills the quarter-finals.
Alone ==
    [small |-> {"seed", "forceSeed", "advance", "forceAdvance", "putWinner", "changeWinner",
                "clearWinner"},
     timing |-> {"seed", "forceSeed", "advance", "putWinner", "postTime", "putTime",
                 "deleteTime", "putScore", "deleteScore"},
     large |-> {"seed", "advance", "putWinner"}]
Corrections == Requests \ {"seed", "advance", "putWinner"}
AloneBudget == [small |-> 2, timing |-> 1, large |-> 1]
AloneShifts ==
    LET scored(S) == {ScoreItem(200 + a, a, Mark(a % 2)) : a \in S}
    IN  {[clients |-> {"small"}, table |-> Field(5) \union scored({1, 3, 5})],
         [clients |-> {"timing"}, table |-> Field(5) \union scored({1, 3, 5})],
         [clients |-> {"large"}, table |-> Field(9) \union scored({8, 9})]}
=============================================================================
