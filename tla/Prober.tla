------------------------------- MODULE Prober -------------------------------
(***************************************************************************)
(* The background probes of demoted providers (apps/gateway/src/prober.ts) *)
(* run by several gateways over one health store and one table of leases.  *)
(* A pass reads a snapshot once and then takes its candidates in turn; it  *)
(* awaits a lease and then the probe, and the others go on meanwhile.      *)
(* Health writes are taken to land at once: they are flushed well within   *)
(* what a lease has left when its probe ends.  A pass over several         *)
(* candidates may reach one with a snapshot older than that one's lease.   *)
(*                                                                         *)
(* Instants are relative to the present, which is 0: a tick of the clock   *)
(* moves every stored instant one into the past, as far as it matters.     *)
(***************************************************************************)
EXTENDS Health, SequencesExt, FiniteSets

CONSTANTS
  Replicas,    \* the gateways
  Candidates,  \* the providers, in the order a pass takes them
  Traffic,     \* the outcomes live requests record
  LeaseTtl,    \* of each provider: maxTimeoutMs + 5 s
  Budget,      \* of each provider: fastTimeoutMs, a probe is over within this
  MaxFaults,   \* bound: failed store calls and restarts
  Never        \* no lastProbe entry

Providers == ToSet(Candidates)

ASSUME ProberAssumption ==
  /\ IsFiniteSet(Replicas)
  /\ Candidates \in Seq(Providers) /\ Candidates # <<>> /\ IsInjective(Candidates)
  /\ Traffic \subseteq Outcomes
  /\ LeaseTtl \in [Providers -> Nat] /\ Budget \in [Providers -> Nat \ {0}]
  /\ \A p \in Providers : Budget[p] < LeaseTtl[p]
  /\ MaxFaults \in Nat
  /\ Never \notin [at : Int, n : Nat]

VARIABLES
  health,     \* the store's state of each provider
  up,         \* does the provider answer a probe?
  lease,      \* how long each provider's lease still runs; 0 when nobody holds it
  fired,      \* the gateway's interval has fired and its tick has not begun
  pc,         \* where each gateway's tick is
  seen,       \* the snapshot the pass works on: which providers were demoted
  todo,       \* the candidates the pass has not taken yet
  age,        \* how long the gateway's probe has been under way
  lastProbe,  \* #lastProbe of each gateway
  faults,     \* failed store calls and restarts so far
  sentIn,     \* history: was the probe under way sent in the present demotion?
  clean       \* history: clean probes of this demotion since the last that was not

vars == <<health, up, lease, fired, pc, seen, todo, age, lastProbe, faults, sentIn, clean>>
store == <<health, up, lease, clean>>
passes == <<fired, pc, seen, todo, age, lastProbe, sentIn>>

now == 0

\* Bound on the number of probes: the backoff is at its ceiling.
MostProbes == CHOOSE n \in 1 .. PROBE_MAX + 1 : probeDelay(n - 1) = PROBE_MAX

PC == {"idle", "pass", "leasing", "probing"}

TypeOK ==
  /\ health \in [Providers -> HealthState]
  /\ up \in [Providers -> BOOLEAN]
  /\ lease \in [Providers -> Nat] /\ \A p \in Providers : lease[p] <= LeaseTtl[p]
  /\ fired \in [Replicas -> BOOLEAN]
  /\ pc \in [Replicas -> PC]
  /\ seen \in [Replicas -> SUBSET Providers]
  /\ todo \in [Replicas -> Seq(Providers)]
  /\ age \in [Replicas -> Nat]
  /\ \A r \in Replicas : age[r] > 0 => pc[r] = "probing" /\ age[r] <= Budget[Head(todo[r])]
  /\ lastProbe \in [Replicas -> [Providers -> [at : Int, n : Nat] \cup {Never}]]
  /\ faults \in 0 .. MaxFaults
  /\ sentIn \in [Replicas -> BOOLEAN]
  /\ clean \in [Providers -> 0 .. PROBE_CLEAN]

\* A provider that has just been demoted by its traffic.
Demoted ==
  [initial(now) EXCEPT !.state = "demoted", !.p0 = Measured[0], !.s = H_DEMOTE]

Init ==
  /\ health \in [Providers -> {initial(now), Demoted}]
  /\ up \in [Providers -> BOOLEAN]
  /\ lease = [p \in Providers |-> 0]
  /\ fired = [r \in Replicas |-> FALSE]
  /\ pc = [r \in Replicas |-> "idle"]
  /\ seen = [r \in Replicas |-> {}]
  /\ todo = [r \in Replicas |-> <<>>]
  /\ age = [r \in Replicas |-> 0]
  /\ lastProbe = [r \in Replicas |-> [p \in Providers |-> Never]]
  /\ faults = 0
  /\ sentIn = [r \in Replicas |-> FALSE]
  /\ clean = [p \in Providers |-> 0]

Fault == faults < MaxFaults /\ faults' = faults + 1

-----------------------------------------------------------------------------
\* The candidate a pass is at.
id(r) == Head(todo[r])

\* The pass moves on to the next candidate, or is over.
MoveOn(r) ==
  /\ todo' = [todo EXCEPT ![r] = Tail(@)]
  /\ pc' = [pc EXCEPT ![r] = IF Len(todo[r]) = 1 THEN "idle" ELSE "pass"]

\* The timer fires: a pass begins, unless one is running, with one snapshot.
Tick(r) ==
  /\ pc[r] = "idle" /\ fired[r]
  /\ fired' = [fired EXCEPT ![r] = FALSE]
  /\ pc' = [pc EXCEPT ![r] = "pass"]
  /\ seen' = [seen EXCEPT ![r] = {p \in Providers : health[p].state = "demoted"}]
  /\ todo' = [todo EXCEPT ![r] = Candidates]
  /\ UNCHANGED <<store, age, lastProbe, faults, sentIn>>

\* The snapshot fails: no opinion, and nothing is probed.
TickFails(r) ==
  /\ pc[r] = "idle" /\ fired[r]
  /\ Fault
  /\ fired' = [fired EXCEPT ![r] = FALSE]
  /\ UNCHANGED <<store, pc, seen, todo, age, lastProbe, sentIn>>

\* Not demoted in the snapshot: its backoff is forgotten.
Forget(r) ==
  /\ pc[r] = "pass"
  /\ id(r) \notin seen[r]
  /\ lastProbe' = [lastProbe EXCEPT ![r][id(r)] = Never]
  /\ MoveOn(r)
  /\ UNCHANGED <<store, fired, seen, age, faults, sentIn>>

due(r, p) ==
  LET last == lastProbe[r][p]
  IN  last # Never => now - last.at >= probeDelay(last.n - 1)

\* Demoted, but probed too recently by this gateway.
NotDue(r) ==
  /\ pc[r] = "pass"
  /\ id(r) \in seen[r]
  /\ ~due(r, id(r))
  /\ MoveOn(r)
  /\ UNCHANGED <<store, fired, seen, age, lastProbe, faults, sentIn>>

\* Demoted and due: the lease is asked for.
AskLease(r) ==
  /\ pc[r] = "pass"
  /\ id(r) \in seen[r]
  /\ due(r, id(r))
  /\ pc' = [pc EXCEPT ![r] = "leasing"]
  /\ UNCHANGED <<store, fired, seen, todo, age, lastProbe, faults, sentIn>>

Attempt(r, p) ==
  LET last == lastProbe[r][p] IN Clamped((IF last = Never THEN 0 ELSE last.n) + 1, MostProbes)

\* Pacing is recorded, and the probe is sent.
Send(r) ==
  /\ lastProbe' = [lastProbe EXCEPT ![r][id(r)] = [at |-> now, n |-> Attempt(r, id(r))]]
  /\ pc' = [pc EXCEPT ![r] = "probing"]
  /\ age' = [age EXCEPT ![r] = 0]
  /\ sentIn' = [sentIn EXCEPT ![r] = health[id(r)].state = "demoted"]
  /\ UNCHANGED <<health, up, clean, fired, seen, todo>>

\* The lease is free, and taken.
Leased(r) ==
  /\ pc[r] = "leasing"
  /\ lease[id(r)] = 0
  /\ lease' = [lease EXCEPT ![id(r)] = LeaseTtl[id(r)]]
  /\ Send(r)
  /\ UNCHANGED faults

\* Another gateway holds it: this one does nothing, and notes nothing.
LeaseHeld(r) ==
  /\ pc[r] = "leasing"
  /\ lease[id(r)] > 0
  /\ MoveOn(r)
  /\ UNCHANGED <<store, fired, seen, age, lastProbe, faults, sentIn>>

LeaseFails_Open(r) ==
  /\ pc[r] = "leasing"
  /\ Fault
  /\ Send(r)
  /\ UNCHANGED lease

\* The lease cannot be asked for, or its answer is lost: fail closed.
LeaseFails(r) ==
  /\ pc[r] = "leasing"
  /\ Fault
  /\ \/ UNCHANGED lease
     \/ lease[id(r)] = 0 /\ lease' = [lease EXCEPT ![id(r)] = LeaseTtl[id(r)]]
  /\ MoveOn(r)
  /\ UNCHANGED <<health, up, clean, fired, seen, age, lastProbe, sentIn>>

\* The probe is back, clean or not, and recorded.
ProbeEnds(r) ==
  /\ pc[r] = "probing"
  /\ \E ok \in (IF up[id(r)] THEN {TRUE} ELSE BOOLEAN) :
       /\ health' = [health EXCEPT ![id(r)] = observeProbe(@, ok, now)]
       /\ clean' = [clean EXCEPT ![id(r)] =
            IF ok /\ sentIn[r] THEN Clamped(@ + 1, PROBE_CLEAN) ELSE 0]
  /\ age' = [age EXCEPT ![r] = 0]
  /\ MoveOn(r)
  /\ UNCHANGED <<up, lease, fired, seen, lastProbe, faults, sentIn>>

\* A gateway restarts and forgets; the lease it held runs out by itself.
Restart(r) ==
  /\ Fault
  /\ fired' = [fired EXCEPT ![r] = FALSE]
  /\ pc' = [pc EXCEPT ![r] = "idle"]
  /\ todo' = [todo EXCEPT ![r] = <<>>]
  /\ seen' = [seen EXCEPT ![r] = {}]
  /\ age' = [age EXCEPT ![r] = 0]
  /\ lastProbe' = [lastProbe EXCEPT ![r] = [p \in Providers |-> Never]]
  /\ UNCHANGED <<store, sentIn>>

-----------------------------------------------------------------------------
\* A live request records an outcome.  A demotion starts a new count of probes,
\* and the probes already under way belong to the old one.
Observe(p, o) ==
  /\ health' = [health EXCEPT ![p] = observe(@, o, now)]
  /\ health' # health
  /\ LET fell == health[p].state # "demoted" /\ health'[p].state = "demoted"
     IN  /\ clean' = IF fell THEN [clean EXCEPT ![p] = 0] ELSE clean
         /\ sentIn' = IF fell
              THEN [r \in Replicas |->
                      sentIn[r] /\ ~(pc[r] = "probing" /\ id(r) = p)]
              ELSE sentIn
  /\ UNCHANGED <<up, lease, fired, pc, seen, todo, age, lastProbe, faults>>

\* The provider is back for good.
ComesBack(p) ==
  /\ ~up[p]
  /\ up' = [up EXCEPT ![p] = TRUE]
  /\ UNCHANGED <<health, lease, clean, passes, faults>>

\* Nothing is stored further back than it is compared with.
Earlier(t, horizon) == IF t <= -horizon THEN t ELSE t - 1

LeasesLater_Kept == lease

\* The leases after an interval: each is dropped when its time is up.
LeasesLater == [p \in Providers |-> IF lease[p] = 0 THEN 0 ELSE lease[p] - 1]

\* One interval passes; a tick that finds a pass running returns at once.  A pass
\* takes no time but for its probes.
Clock ==
  /\ \A r \in Replicas : pc[r] = "probing" => age[r] < Budget[id(r)]
  /\ \A r \in Replicas : pc[r] \notin {"pass", "leasing"}
  /\ \A r \in Replicas : pc[r] = "idle" => ~fired[r]
  /\ health' = [p \in Providers |->
       [health[p] EXCEPT !.enteredAt = Earlier(@, DWELL_RECOVER)]]
  /\ lease' = LeasesLater
  /\ age' = [r \in Replicas |-> IF pc[r] = "probing" THEN age[r] + 1 ELSE 0]
  /\ lastProbe' = [r \in Replicas |-> [p \in Providers |->
       IF lastProbe[r][p] = Never THEN Never
       ELSE [lastProbe[r][p] EXCEPT !.at = Earlier(@, PROBE_MAX)]]]
  /\ fired' = [r \in Replicas |-> pc[r] = "idle"]
  /\ UNCHANGED <<up, clean, pc, seen, todo, faults, sentIn>>

Step(r) ==
  \/ Forget(r)
  \/ NotDue(r)
  \/ AskLease(r)
  \/ Leased(r)
  \/ LeaseHeld(r)
  \/ ProbeEnds(r)

Faulty(r) == TickFails(r) \/ LeaseFails(r) \/ Restart(r)

Next ==
  \/ \E r \in Replicas : Tick(r) \/ Step(r) \/ Faulty(r)
  \/ \E p \in Providers : ComesBack(p) \/ \E o \in Traffic : Observe(p, o)
  \/ Clock

\* Timers fire, store calls and probes end, and time passes.
Fairness ==
  /\ \A r \in Replicas : WF_vars(Tick(r)) /\ WF_vars(Step(r))
  /\ WF_vars(Clock)

Spec == Init /\ [][Next]_vars /\ Fairness

-----------------------------------------------------------------------------
\* No two gateways probe a provider at once: their results would mix in a count
\* that is supposed to be of probes in a row (prober.ts, lease).
OneProbeAtATime ==
  \A r, s \in Replicas :
    r # s /\ pc[r] = "probing" /\ pc[s] = "probing" => id(r) # id(s)

\* Nothing but probes lifts a demoted provider, and those that do were clean, in
\* a row, and sent since it was demoted: neither live traffic, nor a result left
\* over from an earlier demotion counts (health.ts, observe and observeProbe).
LiftIsEarned ==
  [][\A p \in Providers :
       health[p].state = "demoted" /\ health'[p].state # "demoted"
         => clean'[p] >= PROBE_CLEAN]_vars

\* A provider that answers again does get out of rotation's exile, whatever
\* restarts, lost leases and earlier backoff stood in the way (prober.ts:102).
Recovers ==
  \A p \in Providers :
    (up[p] /\ health[p].state = "demoted") ~> health[p].state # "demoted"
=============================================================================
