----------------------------- MODULE MCGateway -----------------------------
(***************************************************************************)
(* Gateway with two replicas, one account, limits of one, short windows.   *)
(***************************************************************************)
EXTENDS Gateway, TLC

LimitDef == [l \in Limiters |-> 1]
Symmetric == Permutations(Requests) \cup Permutations(Replicas)
CountedDef == Accounts \cup {Address}
=============================================================================
