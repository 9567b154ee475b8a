----------------------------- MODULE HealthLog ------------------------------
(***************************************************************************)
(* What a buffered health store promises, without buffers, commands or     *)
(* retries: every replica's observations reach the one log in the order    *)
(* they were made and once each.  Only a full buffer sheds any, and only a *)
(* reply that is lost can bring back what had already landed.              *)
(***************************************************************************)
EXTENDS Integers, Sequences, SequencesExt

CONSTANTS
  Replicas,
  Observations,
  Limit         \* MAX_PENDING

VARIABLES
  log,      \* the observations the shared record is the fold of
  waiting,  \* each replica's observations that are not in it yet
  losses    \* commands or replies lost

Newest(seq, n) == IF Len(seq) <= n THEN seq ELSE SubSeq(seq, Len(seq) - n + 1, Len(seq))

Init ==
  /\ log = <<>>
  /\ waiting = [r \in Replicas |-> <<>>]
  /\ losses = 0

\* An observation is made; one more than fit, an older one is shed.
Record(r) ==
  /\ \E o \in Observations :
       LET w == Append(waiting[r], o)
       IN  \/ waiting' = [waiting EXCEPT ![r] = w]
           \/ \E k \in DOMAIN waiting[r] :
                /\ Len(w) > Limit
                /\ waiting' = [waiting EXCEPT ![r] = RemoveAt(w, k)]
  /\ UNCHANGED <<log, losses>>

\* The oldest that wait land together.
Land(r) ==
  /\ \E k \in 1 .. Len(waiting[r]) :
       /\ log' = log \o SubSeq(waiting[r], 1, k)
       /\ waiting' = [waiting EXCEPT ![r] = SubSeq(@, k + 1, Len(@))]
  /\ UNCHANGED losses

\* Those of a failed write no longer fit beside the newer ones.
Shed(r) ==
  /\ Len(waiting[r]) > Limit
  /\ waiting' = [waiting EXCEPT ![r] = Newest(@, Limit)]
  /\ UNCHANGED <<log, losses>>

\* A command or a reply is lost: what the replica landed last may wait once more, or the
\* end of it, and the whole of it may be too much.
Lose(r) ==
  /\ losses' = losses + 1
  /\ \E i \in 1 .. Len(log) + 1, j \in 0 .. Len(log) :
       LET w == SubSeq(log, i, j) \o waiting[r]
       IN  /\ \A k \in i .. Len(log) : log[k].by = r <=> k <= j
           /\ waiting' \in {[waiting EXCEPT ![r] = w], [waiting EXCEPT ![r] = Newest(w, Limit)]}
  /\ UNCHANGED log

Next == \E r \in Replicas : Record(r) \/ Land(r) \/ Shed(r) \/ Lose(r)

Spec == Init /\ [][Next]_<<log, waiting, losses>>
=============================================================================
