---------------------------- MODULE MCBattleRoom ----------------------------
(* BattleRoom on two panels and budgets of a few ticks.                    *)
EXTENDS BattleRoom

\* The two formats give different budgets.
ShortPresets == [m \in Modes |-> IF m = "quali" THEN 3 ELSE 2]
=============================================================================
