----------------------------- MODULE HopBudget -----------------------------
(***************************************************************************)
(* Dividing a request's deadline over the hops of its chain                *)
(* (apps/gateway/src/budget.ts).                                           *)
(***************************************************************************)
EXTENDS Integers

CONSTANT MinUseful  \* MIN_USEFUL_ATTEMPT_MS

ASSUME MinUsefulAssumption == MinUseful \in Nat \ {0}

Lesser(a, b) == IF a <= b THEN a ELSE b
Greater(a, b) == IF a >= b THEN a ELSE b

\* hopBudget's "exhausted": too little is left to open a connection.
Exhausted(remaining) == remaining < MinUseful

perAttempt_NoReserve(remaining, hopsLeft, cap) ==
  Lesser(Greater(MinUseful, Lesser(cap, remaining)), cap)

perAttempt_CapOnly(remaining, hopsLeft, cap) == Greater(MinUseful, cap)

\* hopBudget's perAttemptMs: what is left after reserving the floor for every
\* hop still to come, but at least the floor and at most the cap.
perAttempt(remaining, hopsLeft, cap) ==
  Lesser(Greater(MinUseful, Lesser(cap, remaining - hopsLeft * MinUseful)), cap)
=============================================================================
