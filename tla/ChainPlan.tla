----------------------------- MODULE ChainPlan -----------------------------
(***************************************************************************)
(* The plan of a walk: how long a request may take, how many providers its *)
(* chain holds, and how long each may be waited for.                       *)
(***************************************************************************)
EXTENDS HopBudget

CONSTANTS
  Deadlines, \* what a request's deadlineMs may be
  Hops,      \* how many providers the chain holds
  Cap,       \* each hop's fastTimeoutMs, or maxTimeoutMs on a healthy last hop
  Overhead   \* most time the walk itself spends between attempts (a bound)

ASSUME ChainPlanAssumption ==
  /\ Deadlines \subseteq Nat
  /\ Hops \in Nat \ {0}
  /\ Cap \in [0 .. Hops - 1 -> Nat]
  /\ Overhead \in Nat
=============================================================================
