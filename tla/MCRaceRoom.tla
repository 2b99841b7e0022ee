----------------------------- MODULE MCRaceRoom -----------------------------
(* RaceRoom on a small race.                                               *)
EXTENDS RaceRoom

\* Each lane's judge has a buzzer on a computer of its own.
SplitJudges == [l \in Lanes |-> {l}]

\* A series at 1-0: athlete 1 won the first run, which panel 2 scored with the
\* last stop, every Time was saved and the clocks are reset.
OneRunIn ==
    LET claim == Minted(2, InitialStamp, TRUE, 0)
        wins  == [a \in Athletes |-> IF a = 1 THEN 1 ELSE 0]
        shown == [FreshBoard EXCEPT !.wins = wins, !.closed = Both(TRUE)]
        row   == [run |-> 1, post |-> 1, athlete |-> 1, ms |-> 1]
    IN  /\ board = [p \in Panels |->
                      IF p = 2 THEN [shown EXCEPT !.credited = 1, !.runLane = 1] ELSE shown]
        /\ stamp = [p \in Panels |-> claim]
        /\ net = {} /\ rest = {}
        /\ times = {row, [row EXCEPT !.post = 2, !.athlete = 2, !.ms = 2]}
        /\ winner = 0
        /\ ledger = [r \in 1..MaxRuns |-> IF r = 1 THEN 1 ELSE 0]
        /\ count = [NoCount EXCEPT !.runs = 1, !.posts = 2]

SeriesSpec == OneRunIn /\ [][Next]_vars
=============================================================================
