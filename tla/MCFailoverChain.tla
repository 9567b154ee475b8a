-------------------------- MODULE MCFailoverChain --------------------------
(***************************************************************************)
(* Small instances of FailoverChain for TLC.  The unit of time is the      *)
(* floor of one attempt.                                                   *)
(***************************************************************************)
EXTENDS FailoverChain

CONSTANTS A, B, C

PriorityA == <<A>>
PriorityAB == <<A, B>>
PriorityABC == <<A, B, C>>

\* How well the providers are: all well; the first one not; none of them.
AllHealthy == {[p \in Providers |-> "healthy"]}
FirstDemoted == {[p \in Providers |-> IF p = A THEN "demoted" ELSE "healthy"]}
HealthyOrDemoted == AllHealthy \cup FirstDemoted
Views ==
  HealthyOrDemoted \cup
  {[p \in Providers |-> IF p = A THEN "degraded" ELSE "healthy"],
   [p \in Providers |-> "demoted"]}

\* Every key open but those named.
With(probes, cooling) ==
  [k \in Keys |-> IF k \in probes THEN "halfopen"
                  ELSE IF k \in cooling THEN "cooling" ELSE "open"]
AllBlocked == With({}, {blk(p) : p \in Providers})
Fresh == With({}, {})
Mixed == With({blk(A), acct(B)}, {})

AccountProbeStore == {With({acct(A)}, {})}
Stores == {Fresh, Mixed, AllBlocked, With({acct(C)}, {blk(A)}), With({blk(A)}, {acct(B)})}
Contended == {AllBlocked, Mixed}

LapsingA == {blk(A)}
NoKeys == {}

\* Bound: two requests that overlap find the same health.
SameHealth ==
  \A r, o \in Requests : "new" \in {q[r].pc, q[o].pc} \/ q[r].health = q[o].health
SameHealthSpec == Init /\ [][Next /\ SameHealth']_vars /\ Fairness
=============================================================================
