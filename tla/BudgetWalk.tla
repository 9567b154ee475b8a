----------------------------- MODULE BudgetWalk -----------------------------
(***************************************************************************)
(* One walk of a planned chain against its deadline: the arithmetic of     *)
(* runChain's loop (apps/gateway/src/chain.ts) around hopBudget, without   *)
(* what the attempts do or come to.  It is what Attempt implements.        *)
(***************************************************************************)
EXTENDS ChainPlan

VARIABLES
  deadline,   \* the request's deadlineMs
  i,          \* the hop about to run
  remaining,  \* what is left of the deadline
  lost,       \* what the walk itself has spent: rankings, claims, store calls
  exhausted   \* the walk was stopped for lack of time

vars == <<deadline, i, remaining, lost, exhausted>>

TypeOK ==
  /\ deadline \in Deadlines
  /\ i \in 0 .. Hops
  /\ remaining \in Int
  /\ lost \in 0 .. Overhead
  /\ exhausted \in BOOLEAN

Init ==
  /\ deadline \in Deadlines
  /\ i = 0
  /\ remaining = deadline
  /\ lost = 0
  /\ exhausted = FALSE

hopsLeft == Hops - i - 1

\* The deadline runs from the start of runChain, and the stores are awaited before
\* the first hop and between hops.
Wait ==
  /\ i < Hops /\ ~exhausted
  /\ \E d \in 1 .. Overhead - lost :
       /\ lost' = lost + d
       /\ remaining' = remaining - d
  /\ UNCHANGED <<deadline, i, exhausted>>

\* The hop runs and gives its answer, or is cut off, within its budget.
Attempt ==
  /\ i < Hops /\ ~exhausted
  /\ ~Exhausted(remaining)
  /\ \E spent \in 0 .. perAttempt(remaining, hopsLeft, Cap[i]) :
       remaining' = remaining - spent
  /\ i' = i + 1
  /\ UNCHANGED <<deadline, lost, exhausted>>

\* BUDGET_EXCEEDED: the rest of the chain is not tried.
GiveUp ==
  /\ i < Hops /\ ~exhausted
  /\ Exhausted(remaining)
  /\ exhausted' = TRUE
  /\ UNCHANGED <<deadline, i, remaining, lost>>

Finished == (i = Hops \/ exhausted) /\ UNCHANGED vars

Next == Wait \/ Attempt \/ GiveUp \/ Finished

Spec == Init /\ [][Next]_vars

-----------------------------------------------------------------------------
\* A chain that could give every hop its floor when it started gives a hop up only
\* when the walk itself has spent more than the floors of all the hops behind it:
\* slow answers alone starve nobody (budget.ts: "each attempt RESERVES time for the
\* hops behind it").  The reserve is exact, so one millisecond spent in between is
\* enough to starve the last hop of a slow chain.
EveryHopReached ==
  exhausted /\ deadline >= Hops * MinUseful => lost > hopsLeft * MinUseful
=============================================================================
