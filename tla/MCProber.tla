------------------------------ MODULE MCProber ------------------------------
(***************************************************************************)
(* Prober with one provider, small counts and short delays.                *)
(***************************************************************************)
EXTENDS Prober, TLC

CONSTANTS P1

MeasuredDef == [f \in 0 .. MIN_SAMPLES |-> 1]
RiseDef == [b \in Baselines |-> 2]
FallDef == [b \in Baselines |-> 1]
OneProvider == <<P1>>
LeaseDef == [p \in Providers |-> 2]
BudgetDef == [p \in Providers |-> 1]
=============================================================================
