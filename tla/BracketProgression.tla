-------------------------- MODULE BracketProgression --------------------------
(***************************************************************************)
(* Which bracket rows a seeding or an advance writes (server/src/core/     *)
(* bracketProgression.ts).  A row is identified by its round and its       *)
(* position; an athlete slot or a winner nobody fills is None.             *)
(***************************************************************************)
EXTENDS Integers, Sequences

None == 0

EntryRounds == {"quarter", "half"}
Rounds == EntryRounds \union {"final", "small_final"}

\* Pairs of qualification ranks, by position.
SeedPairs ==
    [quarter |-> <<<<1, 8>>, <<4, 5>>, <<2, 7>>, <<3, 6>>>>,
     half |-> <<<<1, 4>>, <<2, 3>>>>]

\* The seeds a round needs, and the source rows an advance out of it needs.
SeedsNeeded == [quarter |-> 8, half |-> 4]
RowsNeeded == [quarter |-> 4, half |-> 2]

Row(round, pos, a1, a2) == [round |-> round, pos |-> pos, a1 |-> a1, a2 |-> a2]

\* The stage an operator asks for, or the one the field size calls for.
ChooseSeedStage(ranked, override) ==
    IF override # "auto" THEN override
    ELSE IF Len(ranked) >= 9 THEN "quarter" ELSE "half"

CanSeed(ranked, stage) == Len(ranked) >= SeedsNeeded[stage]

SeedFromPairs(ranked, stage) ==
    LET pairs == SeedPairs[stage]
    IN  {Row(stage, i, ranked[pairs[i][1]], ranked[pairs[i][2]]) : i \in DOMAIN pairs}

LoserOf(m) == IF m.win = None THEN None
              ELSE IF m.win = m.a1 THEN m.a2
              ELSE IF m.win = m.a2 THEN m.a1 ELSE None

CanAdvance(from, source) == from \in EntryRounds /\ Len(source) = RowsNeeded[from]

\* The rows `from` feeds; `source` lists its matches by position.
AdvanceTargets(from, source) ==
    IF from = "quarter"
    THEN {Row("half", 1, source[1].win, source[2].win),
          Row("half", 2, source[3].win, source[4].win)}
    ELSE {Row("final", 1, source[1].win, source[2].win),
          Row("small_final", 1, LoserOf(source[1]), LoserOf(source[2]))}

Downstream == [quarter |-> <<"half">>, half |-> <<"final", "small_final">>]
=============================================================================
