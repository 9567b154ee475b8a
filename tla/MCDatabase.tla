----------------------------- MODULE MCDatabase -----------------------------
(***************************************************************************)
(* Database across the turn of 2024, with short retention.                 *)
(***************************************************************************)
EXTENDS Database

FilesDef == <<"0000", "0001", "0002">>
NeedsDef == {<<"0001", "0000">>}
NewYearDef == [t \in 0 .. MaxDay + 7 * WeeksAhead |-> IF t < 9 THEN 9 - 366 ELSE 9]
TablesDef == <<"requests", "request_attempts">>

CONSTANT MaxBeside  \* bound: the deployments that the jobs run beside

\* Further deployments race each other only, before a day has passed or a job has run.
Undisturbed ==
  /\ day = Start /\ partitions = {} /\ crashes = 0
  /\ ensure = R!Unstarted /\ retain = R!Resting

MCNext == DatabaseNext /\ (deploys <= MaxBeside \/ Undisturbed)'

MCSpec ==
  /\ DatabaseInit /\ [][MCNext]_database
  /\ WF_database(R!Retain /\ UNCHANGED migration)
  /\ WF_database(R!Tick /\ UNCHANGED migration)
=============================================================================
