--------------------------- MODULE MCHealthBuffer ---------------------------
(***************************************************************************)
(* HealthBuffer for TLC: a gateway that fills its buffer and reads it, and *)
(* one that only contends with it.                                         *)
(***************************************************************************)
EXTENDS HealthBuffer

CONSTANTS G1, G2

RecordsDef == (G1 :> 3) @@ (G2 :> 1)
ReadsDef == (G1 :> 1) @@ (G2 :> 0)
LossesDef == (G1 :> 1) @@ (G2 :> 0)
=============================================================================
