---------------------------- MODULE MCScoreDesk ----------------------------
(* ScoreDesk with a lead desk for both slots, and a second judge for one.  *)
EXTENDS ScoreDesk

SharedJudges == [s \in Slots |-> 1..s]
\* Presses in all, by pace: what is in flight together is worth more orders than presses.
MaxTogether == [p \in Paces |-> IF p = "patient" THEN 4 ELSE 3]
\* The brisk empty no field again.
TypedByPace == [p \in Paces |-> IF p = "brisk" THEN Marks \ {0} ELSE Marks]
LeadJudges == [s \in Slots |-> {1}]
=============================================================================
