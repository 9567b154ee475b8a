--------------------------- MODULE Prober_proofs ---------------------------
(***************************************************************************)
(* Proofs about Prober: no two gateways probe a provider at once, however  *)
(* many gateways and candidates there are, and whatever fails or restarts. *)
(* A probe is over before its lease is: the age of one and the rest of the *)
(* other add up to LeaseTtl, so nobody finds the lease free meanwhile.     *)
(* And only probes lift a provider: those of its present demotion, if      *)
(* every pass gets to it before its lease could run out.                   *)
(***************************************************************************)
EXTENDS Prober, FiniteSetTheorems, TLAPS

Typed ==
  /\ pc \in [Replicas -> PC]
  /\ todo \in [Replicas -> Seq(Providers)]
  /\ age \in [Replicas -> Nat]
  /\ lease \in [Providers -> Nat] /\ \A p \in Providers : lease[p] <= LeaseTtl[p]

\* A pass under way has a candidate it is at.
AtCandidate == \A r \in Replicas : pc[r] # "idle" => todo[r] # <<>>

\* A probe under way has been so since its lease was taken.
Covered ==
  \A r \in Replicas : pc[r] = "probing" =>
    lease[id(r)] + age[r] = LeaseTtl[id(r)] /\ age[r] <= Budget[id(r)]

IInv == Typed /\ AtCandidate /\ Covered /\ OneProbeAtATime

LEMMA InitInv == Init => IInv
<1> SUFFICES ASSUME Init PROVE IInv
  OBVIOUS
<1>1. <<>> \in Seq(Providers)
  OBVIOUS
<1> QED
  BY <1>1, ProberAssumption
  DEF Init, IInv, Typed, AtCandidate, Covered, OneProbeAtATime, PC

\* Where a pass under way is.
LEMMA HasCandidate ==
  ASSUME IInv, NEW r \in Replicas, pc[r] # "idle"
  PROVE  /\ id(r) \in Providers
         /\ Tail(todo[r]) \in Seq(Providers)
         /\ Len(todo[r]) # 1 => Tail(todo[r]) # <<>>
<1>1. todo[r] \in Seq(Providers) /\ todo[r] # <<>>
  BY DEF IInv, Typed, AtCandidate
<1>2. Head(todo[r]) \in Providers /\ Tail(todo[r]) \in Seq(Providers)
  BY <1>1
<1>3. Len(Tail(todo[r])) = Len(todo[r]) - 1 /\ Len(todo[r]) \in Nat \ {0}
  BY <1>1
<1>4. ASSUME Len(todo[r]) # 1 PROVE Tail(todo[r]) # <<>>
  <2>1. PICK rest : rest = Tail(todo[r])
    OBVIOUS
  <2>2. Len(rest) # 0
    BY <1>3, <1>4, <2>1
  <2>3. rest # <<>>
    BY <2>2
  <2> QED
    BY <2>1, <2>3
<1> QED
  BY <1>2, <1>4 DEF id

\* A lease that was free is taken for all its time.
LEMMA LeaseTaken ==
  ASSUME lease \in [Providers -> Nat], \A x \in Providers : lease[x] <= LeaseTtl[x],
         NEW p \in Providers, lease[p] = 0, lease' = [lease EXCEPT ![p] = LeaseTtl[p]]
  PROVE  /\ lease' \in [Providers -> Nat] /\ \A x \in Providers : lease'[x] <= LeaseTtl[x]
         /\ \A x \in Providers : lease'[x] # lease[x] => lease[x] = 0
         /\ \A x \in Providers : lease'[x] >= lease[x]
<1>1. LeaseTtl[p] \in Nat /\ lease'[p] = LeaseTtl[p]
  BY ProberAssumption
<1>2. \A x \in Providers : x # p => lease'[x] = lease[x]
  OBVIOUS
<1> QED
  BY <1>1, <1>2

\* Whoever is not probing any more, and is still somewhere, does no harm.
LEMMA LeavesProbes ==
  ASSUME IInv, NEW r \in Replicas, NEW step \in PC \ {"probing"}, NEW rest \in Seq(Providers),
         step # "idle" => rest # <<>>,
         pc' = [pc EXCEPT ![r] = step], todo' = [todo EXCEPT ![r] = rest],
         age' \in [Replicas -> Nat],
         \A s \in Replicas : s # r => age'[s] = age[s],
         lease' \in [Providers -> Nat], \A p \in Providers : lease'[p] <= LeaseTtl[p],
         \A p \in Providers : lease'[p] # lease[p] => lease[p] = 0
  PROVE  IInv'
<1>1. /\ pc'[r] = step /\ todo'[r] = rest
      /\ \A s \in Replicas : s # r => pc'[s] = pc[s] /\ todo'[s] = todo[s]
  BY DEF IInv, Typed
<1>2. Typed'
  BY DEF IInv, Typed
<1>3. AtCandidate'
  BY <1>1 DEF IInv, AtCandidate
<1>4. ASSUME NEW s \in Replicas, pc'[s] = "probing"
      PROVE  s # r /\ pc[s] = "probing" /\ id(s)' = id(s)
  BY <1>1, <1>4 DEF id
<1>5. Covered'
  <2> SUFFICES ASSUME NEW s \in Replicas, pc'[s] = "probing"
               PROVE  lease'[id(s)'] + age'[s] = LeaseTtl[id(s)'] /\ age'[s] <= Budget[id(s)']
    BY DEF Covered
  <2>1. s # r /\ pc[s] = "probing" /\ id(s)' = id(s) /\ id(s) \in Providers
    BY <1>4, HasCandidate
  <2>2. /\ lease[id(s)] + age[s] = LeaseTtl[id(s)] /\ age[s] <= Budget[id(s)]
        /\ age[s] \in Nat /\ lease[id(s)] \in Nat
    BY <2>1 DEF IInv, Covered, Typed
  <2>3. lease[id(s)] # 0
    BY <2>1, <2>2, ProberAssumption
  <2> QED
    BY <2>1, <2>2, <2>3
<1>6. OneProbeAtATime'
  BY <1>4 DEF IInv, OneProbeAtATime
<1> QED
  BY <1>2, <1>3, <1>5, <1>6 DEF IInv

\* The steps that go on to the next candidate.
LEMMA MovesOn ==
  ASSUME IInv, NEW r \in Replicas, pc[r] # "idle", MoveOn(r),
         age' \in [Replicas -> Nat],
         \A s \in Replicas : s # r => age'[s] = age[s],
         lease' \in [Providers -> Nat], \A p \in Providers : lease'[p] <= LeaseTtl[p],
         \A p \in Providers : lease'[p] # lease[p] => lease[p] = 0
  PROVE  IInv'
<1>1. PICK step \in {"idle", "pass"} : step = IF Len(todo[r]) = 1 THEN "idle" ELSE "pass"
  OBVIOUS
<1>2. PICK rest : rest = Tail(todo[r])
  OBVIOUS
<1>3. rest \in Seq(Providers) /\ (step # "idle" => rest # <<>>)
  BY <1>1, <1>2, HasCandidate
<1>4. todo' = [todo EXCEPT ![r] = rest] /\ pc' = [pc EXCEPT ![r] = step]
  BY <1>1, <1>2 DEF MoveOn, IInv, Typed
<1>5. step \in PC \ {"probing"}
  BY <1>1 DEF PC
<1> QED
  BY <1>3, <1>4, <1>5, LeavesProbes

\* The lease was free, so nobody probes the provider; now this gateway does.
LEMMA LeasedKeepsInv ==
  ASSUME IInv, NEW r \in Replicas, Leased(r)
  PROVE  IInv'
<1>1. /\ pc[r] = "leasing" /\ lease[id(r)] = 0
      /\ lease' = [lease EXCEPT ![id(r)] = LeaseTtl[id(r)]]
      /\ pc' = [pc EXCEPT ![r] = "probing"] /\ age' = [age EXCEPT ![r] = 0]
      /\ todo' = todo
  BY DEF Leased, Send
<1>2. PICK p \in Providers : p = id(r)
  BY <1>1, HasCandidate
<1>3. /\ pc'[r] = "probing" /\ age'[r] = 0 /\ lease'[p] = LeaseTtl[p]
      /\ \A s \in Replicas : s # r => pc'[s] = pc[s] /\ age'[s] = age[s]
      /\ \A x \in Providers : x # p => lease'[x] = lease[x]
      /\ \A s \in Replicas : id(s)' = id(s)
  BY <1>1, <1>2 DEF IInv, Typed, id
<1>4. Typed'
  <2>1. lease' \in [Providers -> Nat] /\ \A x \in Providers : lease'[x] <= LeaseTtl[x]
    BY <1>1, <1>2, LeaseTaken DEF IInv, Typed
  <2> QED
    BY <1>1, <2>1 DEF IInv, Typed, PC
<1>5. AtCandidate'
  BY <1>1, <1>3 DEF IInv, AtCandidate
<1>6. ASSUME NEW s \in Replicas, pc[s] = "probing"
      PROVE  id(s) # p /\ id(s) \in Providers
  <2>0. id(s) \in Providers
    BY <1>6, HasCandidate DEF PC
  <2>1. lease[id(s)] + age[s] = LeaseTtl[id(s)] /\ age[s] <= Budget[id(s)] /\ age[s] \in Nat
    BY <1>6 DEF IInv, Covered, Typed
  <2>2. lease[id(s)] # 0
    BY <2>0, <2>1, ProberAssumption
  <2> QED
    BY <1>1, <1>2, <1>6, <2>2, HasCandidate
<1>7. Covered'
  <2> SUFFICES ASSUME NEW s \in Replicas, pc'[s] = "probing"
               PROVE  lease'[id(s)'] + age'[s] = LeaseTtl[id(s)'] /\ age'[s] <= Budget[id(s)']
    BY DEF Covered
  <2>1. CASE s = r
    BY <1>2, <1>3, <2>1, ProberAssumption
  <2>2. CASE s # r
    BY <1>3, <1>6, <2>2 DEF IInv, Covered
  <2> QED
    BY <2>1, <2>2
<1>8. OneProbeAtATime'
  BY <1>2, <1>3, <1>6 DEF IInv, OneProbeAtATime
<1> QED
  BY <1>4, <1>5, <1>7, <1>8 DEF IInv

\* An interval makes every probe older by as much as it wears its lease.
LEMMA ClockKeepsInv == ASSUME IInv, Clock PROVE IInv'
<1>1. /\ \A r \in Replicas : pc[r] = "probing" => age[r] < Budget[id(r)]
      /\ lease' = LeasesLater
      /\ age' = [r \in Replicas |-> IF pc[r] = "probing" THEN age[r] + 1 ELSE 0]
      /\ pc' = pc /\ todo' = todo
  BY DEF Clock
<1>2. \A r \in Replicas : age[r] \in Nat
  BY DEF IInv, Typed
<1>3. \A p \in Providers : lease[p] \in Nat /\ lease[p] <= LeaseTtl[p]
  BY DEF IInv, Typed
<1>4. age' \in [Replicas -> Nat]
  BY <1>1, <1>2
<1>5. lease' \in [Providers -> Nat] /\ \A p \in Providers : lease'[p] <= LeaseTtl[p]
  BY <1>1, <1>3, ProberAssumption DEF LeasesLater
<1>6. Typed' /\ AtCandidate'
  BY <1>1, <1>4, <1>5 DEF IInv, Typed, AtCandidate
<1>7. Covered'
  <2> SUFFICES ASSUME NEW r \in Replicas, pc'[r] = "probing"
               PROVE  lease'[id(r)'] + age'[r] = LeaseTtl[id(r)'] /\ age'[r] <= Budget[id(r)']
    BY DEF Covered
  <2>1. pc[r] = "probing" /\ id(r)' = id(r) /\ id(r) \in Providers
    BY <1>1, HasCandidate DEF id
  <2>2. lease[id(r)] + age[r] = LeaseTtl[id(r)]
    BY <2>1 DEF IInv, Covered
  <2>3. age[r] < Budget[id(r)] /\ age'[r] = age[r] + 1 /\ Budget[id(r)] \in Nat
    BY <1>1, <2>1, ProberAssumption
  <2>4. lease[id(r)] # 0 /\ lease[id(r)] \in Nat
    BY <1>2, <1>3, <2>1, <2>2, <2>3, ProberAssumption
  <2>5. lease'[id(r)] = lease[id(r)] - 1
    BY <1>1, <2>1, <2>4 DEF LeasesLater
  <2> QED
    BY <1>2, <2>1, <2>2, <2>3, <2>4, <2>5
<1>8. OneProbeAtATime'
  BY <1>1 DEF IInv, OneProbeAtATime, id
<1> QED
  BY <1>6, <1>7, <1>8 DEF IInv

\* What leaves the passes and the leases alone.
LEMMA StutterKeepsInv ==
  ASSUME IInv, UNCHANGED <<pc, todo, age, lease>> PROVE IInv'
BY DEF IInv, Typed, AtCandidate, Covered, OneProbeAtATime, id

LEMMA NextKeepsInv == IInv /\ [Next]_vars => IInv'
<1> SUFFICES ASSUME IInv, [Next]_vars PROVE IInv'
  OBVIOUS
<1>0. /\ age \in [Replicas -> Nat] /\ lease \in [Providers -> Nat]
      /\ \A p \in Providers : lease[p] <= LeaseTtl[p]
  BY DEF IInv, Typed
<1>1. ASSUME NEW r \in Replicas, Tick(r) PROVE IInv'
  <2>1. "pass" \in PC \ {"probing"} /\ Candidates \in Seq(Providers) /\ Candidates # <<>>
    BY ProberAssumption DEF PC
  <2>2. /\ pc' = [pc EXCEPT ![r] = "pass"] /\ todo' = [todo EXCEPT ![r] = Candidates]
        /\ age' = age /\ lease' = lease
    BY <1>1 DEF Tick, store
  <2> QED
    BY <1>0, <2>1, <2>2, LeavesProbes
<1>2. ASSUME NEW r \in Replicas, Forget(r) \/ NotDue(r) \/ LeaseHeld(r) PROVE IInv'
  <2>1. pc[r] # "idle" /\ MoveOn(r) /\ age' = age /\ lease' = lease
    BY <1>2 DEF Forget, NotDue, LeaseHeld, store
  <2> QED
    BY <1>0, <2>1, MovesOn
<1>3. ASSUME NEW r \in Replicas, AskLease(r) PROVE IInv'
  <2>1. /\ pc[r] = "pass" /\ pc' = [pc EXCEPT ![r] = "leasing"]
        /\ todo' = todo /\ age' = age /\ lease' = lease
    BY <1>3 DEF AskLease, store
  <2>2. todo[r] \in Seq(Providers) /\ todo[r] # <<>> /\ todo' = [todo EXCEPT ![r] = todo[r]]
    BY <2>1 DEF IInv, Typed, AtCandidate
  <2>3. "leasing" \in PC \ {"probing"}
    BY DEF PC
  <2> QED
    BY <1>0, <2>1, <2>2, <2>3, LeavesProbes
<1>4. ASSUME NEW r \in Replicas, ProbeEnds(r) PROVE IInv'
  <2>1. pc[r] # "idle" /\ MoveOn(r) /\ age' = [age EXCEPT ![r] = 0] /\ lease' = lease
    BY <1>4 DEF ProbeEnds
  <2>2. age' \in [Replicas -> Nat] /\ \A s \in Replicas : s # r => age'[s] = age[s]
    BY <1>0, <2>1, ProberAssumption
  <2> QED
    BY <1>0, <2>1, <2>2, MovesOn
<1>5. ASSUME NEW r \in Replicas, LeaseFails(r) PROVE IInv'
  <2>1. pc[r] # "idle" /\ MoveOn(r) /\ age' = age
    BY <1>5 DEF LeaseFails
  <2>2. \/ lease' = lease
        \/ lease[id(r)] = 0 /\ lease' = [lease EXCEPT ![id(r)] = LeaseTtl[id(r)]]
    BY <1>5 DEF LeaseFails
  <2>3. /\ lease' \in [Providers -> Nat] /\ \A p \in Providers : lease'[p] <= LeaseTtl[p]
        /\ \A p \in Providers : lease'[p] # lease[p] => lease[p] = 0
    BY <1>0, <2>1, <2>2, HasCandidate, LeaseTaken
  <2> QED
    BY <1>0, <2>1, <2>3, MovesOn
<1>6. ASSUME NEW r \in Replicas, Restart(r) PROVE IInv'
  <2>1. /\ pc' = [pc EXCEPT ![r] = "idle"] /\ todo' = [todo EXCEPT ![r] = <<>>]
        /\ age' = [age EXCEPT ![r] = 0] /\ lease' = lease
    BY <1>6 DEF Restart, store
  <2>2. "idle" \in PC \ {"probing"} /\ <<>> \in Seq(Providers)
    BY DEF PC
  <2>3. age' \in [Replicas -> Nat] /\ \A s \in Replicas : s # r => age'[s] = age[s]
    BY <1>0, <2>1, ProberAssumption
  <2> QED
    BY <1>0, <2>1, <2>2, <2>3, LeavesProbes
<1>7. ASSUME NEW r \in Replicas, TickFails(r) PROVE IInv'
  BY <1>7, StutterKeepsInv DEF TickFails, store
<1>8. ASSUME NEW p \in Providers, NEW o \in Traffic, Observe(p, o) PROVE IInv'
  BY <1>8, StutterKeepsInv DEF Observe
<1>9. ASSUME NEW p \in Providers, ComesBack(p) PROVE IInv'
  BY <1>9, StutterKeepsInv DEF ComesBack, passes
<1>10. CASE UNCHANGED vars
  BY <1>10, StutterKeepsInv DEF vars
<1> QED
  BY <1>1, <1>2, <1>3, <1>4, <1>5, <1>6, <1>7, <1>8, <1>9, <1>10, LeasedKeepsInv, ClockKeepsInv
  DEF Next, Step, Faulty

\* prober.ts, lease: "N conflicting recordProbe calls against a counter that is supposed
\* to mean 'consecutive clean probes'" never come about, for any number of gateways and
\* providers, with lost leases and restarts, as long as a lease outlives a probe.
THEOREM OneProbe == Spec => []OneProbeAtATime
<1>1. IInv => OneProbeAtATime
  BY DEF IInv
<1> QED
  BY <1>1, InitInv, NextKeepsInv, PTL DEF Spec

-----------------------------------------------------------------------------
\* A provider's health: until its baseline is measured it is healthy, and no more
\* failures than samples are counted towards it.
Sane(h) ==
  /\ h \in HealthState
  /\ h.p0 = Unmeasured =>
       h.state = "healthy" /\ h.failures <= h.samples /\ h.samples < MIN_SAMPLES

LEMMA ClampedType ==
  ASSUME NEW n \in Int, NEW most \in Nat
  PROVE  Clamped(n, most) \in 0 .. most
BY DEF Clamped

\* The tables and thresholds, in parts.
LEMMA Thresholds ==
  /\ CountTo \in Nat /\ MIN_SAMPLES \in Nat /\ MIN_SAMPLES > 0
  /\ S_CAP \in Nat /\ H_DEMOTE \in Nat /\ H_DEGRADE \in 0 .. S_CAP /\ RESET_WINDOWS \in Nat
  /\ PROBE_CLEAN \in Nat
  /\ Unmeasured \notin Baselines
BY HealthAssumption DEF CountTo

LEMMA CountedType == ASSUME NEW n \in Int PROVE Counted(n) \in Nat
<1> DEFINE c == CountTo
<1>1. c \in Nat
  BY Thresholds
<1> HIDE DEF c
<1>2. Clamped(n, c) \in 0 .. c
  BY <1>1, ClampedType
<1>3. Clamped(n, c) \in Nat
  BY <1>1, <1>2
<1> QED
  BY <1>3 DEF Counted, c

LEMMA InitialSane == ASSUME NEW t \in Int PROVE Sane(initial(t)) /\ initial(t).state = "healthy"
BY Thresholds DEF Sane, initial, HealthState, States

\* A provider's health with a few fields changed is one.
Moved(h, x, t) == [h EXCEPT !.state = x, !.enteredAt = t]
Recounted(h, i, j, k) == [h EXCEPT !.samples = i, !.failures = j, !.cleanWindows = k]
Weighed(h, i, j, k) == [h EXCEPT !.s = i, !.samples = j, !.failures = k]
Probed(h, i, j) == [h EXCEPT !.s = i, !.cleanProbes = j]
SameBut(h, g) == g \in HealthState /\ g.p0 = h.p0

LEMMA MovedType ==
  ASSUME NEW h \in HealthState, NEW x \in States, NEW t \in Int
  PROVE  /\ SameBut(h, Moved(h, x, t)) /\ Moved(h, x, t).state = x
         /\ Moved(h, x, t).cleanProbes = h.cleanProbes
BY DEF Moved, HealthState, SameBut

LEMMA RecountedType ==
  ASSUME NEW h \in HealthState, NEW i \in Nat, NEW j \in Nat, NEW k \in Nat
  PROVE  /\ SameBut(h, Recounted(h, i, j, k)) /\ Recounted(h, i, j, k).state = h.state
         /\ Recounted(h, i, j, k).cleanProbes = h.cleanProbes
BY DEF Recounted, HealthState, SameBut

LEMMA WeighedType ==
  ASSUME NEW h \in HealthState, NEW i \in 0 .. S_CAP, NEW j \in Nat, NEW k \in Nat
  PROVE  /\ SameBut(h, Weighed(h, i, j, k)) /\ Weighed(h, i, j, k).state = h.state
         /\ Weighed(h, i, j, k).cleanProbes = h.cleanProbes
BY DEF Weighed, HealthState, SameBut

LEMMA ProbedType ==
  ASSUME NEW h \in HealthState, NEW i \in 0 .. S_CAP, NEW j \in Nat
  PROVE  /\ SameBut(h, Probed(h, i, j)) /\ Probed(h, i, j).state = h.state
         /\ Probed(h, i, j).cleanProbes = j
BY DEF Probed, HealthState, SameBut

LEMMA EnteredType ==
  ASSUME NEW h \in HealthState, NEW x \in States, NEW t \in Int
  PROVE  /\ SameBut(h, Entered(h, x, t)) /\ Entered(h, x, t).state = x
         /\ Entered(h, x, t).cleanProbes = h.cleanProbes
<1>1. Entered(h, x, t) = Recounted(Moved(h, x, t), 0, 0, 0)
  BY DEF HealthState, Entered, Moved, Recounted
<1> QED
  BY <1>1, MovedType, RecountedType DEF SameBut

LEMMA EnteredSane ==
  ASSUME NEW h, Sane(h), h.p0 # Unmeasured, NEW x \in States
  PROVE  /\ Sane(Entered(h, x, now)) /\ Entered(h, x, now).p0 # Unmeasured
         /\ Entered(h, x, now).state = x
         /\ Entered(h, x, now).cleanProbes = h.cleanProbes
BY EnteredType DEF Sane, now, SameBut

\* Measuring the baseline keeps a provider healthy.
LEMMA MeasureSane ==
  ASSUME NEW h, Sane(h), h.p0 = Unmeasured, NEW failed \in BOOLEAN
  PROVE  Sane(Measure(h, failed)) /\ Measure(h, failed).state = "healthy"
<1> DEFINE samples == h.samples + 1
           failures == h.failures + (IF failed THEN 1 ELSE 0)
<1>1. /\ samples \in Nat /\ failures \in Nat /\ failures <= samples /\ samples <= MIN_SAMPLES
      /\ h.state = "healthy" /\ h \in HealthState /\ h.enteredAt \in Int
  BY Thresholds DEF Sane, HealthState
<1> HIDE DEF samples, failures
<1>2. CASE samples < MIN_SAMPLES
  <2>1. Measure(h, failed) = [h EXCEPT !.samples = samples, !.failures = failures]
    BY <1>2 DEF Measure, samples, failures
  <2> QED
    BY <1>1, <1>2, <2>1 DEF Sane, HealthState
<1>3. CASE ~(samples < MIN_SAMPLES)
  <2>1. Measure(h, failed) = [initial(h.enteredAt) EXCEPT !.p0 = Measured[failures]]
    BY <1>3 DEF Measure, samples, failures
  <2>2. Measured[failures] \in Baselines
    BY <1>1, HealthAssumption
  <2> QED
    BY <1>1, <2>1, <2>2, Thresholds DEF initial, Sane, HealthState, States
<1> QED
  BY <1>2, <1>3

\* The end of a recovery window demotes nobody.
LEMMA WindowSane ==
  ASSUME NEW h, Sane(h), h.p0 # Unmeasured, h.state = "degraded"
  PROVE  Sane(WindowClosed(h, now)) /\ WindowClosed(h, now).state # "demoted"
<1> DEFINE clean_ == IF h.s < H_RESET THEN h.cleanWindows + 1 ELSE 0
<1>1. clean_ \in Nat /\ h \in HealthState
  BY DEF Sane, HealthState
<1> HIDE DEF clean_
<1>2. Clamped(clean_, RESET_WINDOWS) \in Nat
  <2>1. Clamped(clean_, RESET_WINDOWS) \in 0 .. RESET_WINDOWS
    BY <1>1, ClampedType, Thresholds
  <2> QED
    BY <2>1
<1>3. CASE WindowClosed(h, now) = initial(now)
  BY <1>3, InitialSane DEF now
<1>4. CASE WindowClosed(h, now) = [h EXCEPT !.samples = 0, !.failures = 0,
                                            !.cleanWindows = Clamped(clean_, RESET_WINDOWS)]
  <2> DEFINE k == Clamped(clean_, RESET_WINDOWS)
             next == WindowClosed(h, now)
  <2>0. k \in Nat /\ 0 \in Nat
    BY <1>2
  <2>1. next = Recounted(h, 0, 0, k)
    BY <1>4 DEF Recounted
  <2> HIDE DEF k, next
  <2> QED
    <3>1. next \in HealthState /\ next.p0 = h.p0 /\ next.state = h.state
      BY <1>1, <2>0, <2>1, RecountedType DEF SameBut
    <3> QED
      BY <3>1 DEF Sane, next
<1> QED
  BY <1>3, <1>4 DEF WindowClosed, clean_

\* Traffic keeps a provider's health sane; a demoted one stays so with its probes
\* counted as they were, and one that falls has none counted.
Tracks(h, next) ==
  /\ Sane(next)
  /\ h.state = "demoted" => next.state = "demoted" /\ next.cleanProbes = h.cleanProbes
  /\ h.state # "demoted" /\ next.state = "demoted" => next.cleanProbes = 0

LEMMA IncrementType ==
  ASSUME NEW p \in Baselines, NEW failed \in BOOLEAN
  PROVE  increment(p, failed) \in Int
<1>1. Rise[p] \in Nat /\ Fall[p] \in Nat
  BY HealthAssumption
<1>2. Rise[p] \in Int /\ -Fall[p] \in Int
  BY <1>1
<1> QED
  BY <1>2 DEF increment

LEMMA TrackSane ==
  ASSUME NEW h, Sane(h), h.p0 # Unmeasured, NEW failed \in BOOLEAN
  PROVE  Tracks(h, Track(h, failed, now))
<1> DEFINE s == Clamped(h.s + increment(h.p0, failed), S_CAP)
           i == Counted(h.samples + 1)
           j == Counted(h.failures + (IF failed THEN 1 ELSE 0))
           next == Weighed(h, s, i, j)
<1>1. h \in HealthState /\ h.p0 \in Baselines /\ h.s \in 0 .. S_CAP
      /\ h.samples \in Nat /\ h.failures \in Nat
  BY DEF Sane, HealthState
<1>2. increment(h.p0, failed) \in Int
  BY <1>1, IncrementType
<1>3. s \in 0 .. S_CAP
  <2>1. h.s + increment(h.p0, failed) \in Int
    BY <1>1, <1>2
  <2> QED
    BY <2>1, ClampedType, Thresholds
<1>4. i \in Nat /\ j \in Nat
  BY <1>1, CountedType
<1>0. next = [h EXCEPT !.s = s, !.samples = Counted(@ + 1),
                       !.failures = Counted(@ + (IF failed THEN 1 ELSE 0))]
  BY DEF Weighed
<1> HIDE DEF s, i, j
<1>5. /\ Sane(next) /\ next.p0 # Unmeasured /\ next.state = h.state
      /\ next.cleanProbes = h.cleanProbes
  <2>1. next \in HealthState /\ next.p0 = h.p0 /\ next.state = h.state
        /\ next.cleanProbes = h.cleanProbes
    BY <1>1, <1>3, <1>4, WeighedType DEF SameBut
  <2> HIDE DEF next
  <2> QED
    BY <2>1 DEF Sane
<1> HIDE DEF next
<1>6. CASE h.state = "demoted"
  <2>1. Track(h, failed, now) = next
    BY <1>0, <1>6 DEF Track, s
  <2> QED
    BY <1>5, <1>6, <2>1 DEF Tracks
<1>7. CASE h.state # "demoted" /\ s >= H_DEMOTE
  <2> DEFINE fallen == Entered(next, "demoted", now)
  <2>1. Track(h, failed, now) = [fallen EXCEPT !.cleanProbes = 0]
    BY <1>0, <1>3, <1>7, Thresholds DEF Track, s
  <2>2. Sane(fallen) /\ fallen.p0 # Unmeasured /\ fallen.state = "demoted"
    BY <1>5, EnteredSane DEF States
  <2> HIDE DEF fallen
  <2>3. [fallen EXCEPT !.cleanProbes = 0] = Probed(fallen, fallen.s, 0)
    BY <2>2 DEF Sane, HealthState, Probed
  <2>4. fallen \in HealthState /\ fallen.s \in 0 .. S_CAP
    BY <2>2 DEF Sane, HealthState
  <2> QED
    BY <1>7, <2>1, <2>2, <2>3, <2>4, ProbedType DEF Tracks, Sane, SameBut
<1>8. CASE h.state # "demoted" /\ ~(s >= H_DEMOTE)
  <2>1. \/ Track(h, failed, now) = Entered(next, "degraded", now)
        \/ h.state = "degraded" /\ Track(h, failed, now) = WindowClosed(next, now)
        \/ Track(h, failed, now) = next
    BY <1>0, <1>8 DEF Track, s
  <2>2. ASSUME Track(h, failed, now) = Entered(next, "degraded", now)
        PROVE  Sane(Track(h, failed, now)) /\ Track(h, failed, now).state # "demoted"
    BY <1>5, <2>2, EnteredSane DEF States
  <2>3. ASSUME h.state = "degraded", Track(h, failed, now) = WindowClosed(next, now)
        PROVE  Sane(Track(h, failed, now)) /\ Track(h, failed, now).state # "demoted"
    BY <1>5, <2>3, WindowSane
  <2> QED
    BY <1>5, <1>8, <2>1, <2>2, <2>3 DEF Tracks
<1> QED
  BY <1>6, <1>7, <1>8

LEMMA ObserveSane ==
  ASSUME NEW h, Sane(h), NEW o
  PROVE  Tracks(h, observe(h, o, now))
<1>1. CASE healthWeight(o) = "ignore"
  BY <1>1 DEF observe, Tracks
<1>2. CASE healthWeight(o) # "ignore" /\ h.p0 = Unmeasured
  <2>1. observe(h, o, now) = Measure(h, healthWeight(o) = "failure")
    BY <1>2 DEF observe
  <2> QED
    BY <1>2, <2>1, MeasureSane DEF Tracks, Sane
<1>3. CASE healthWeight(o) # "ignore" /\ h.p0 # Unmeasured
  <2>1. observe(h, o, now) = Track(h, healthWeight(o) = "failure", now)
    BY <1>3 DEF observe
  <2> QED
    BY <1>3, <2>1, TrackSane
<1> QED
  BY <1>1, <1>2, <1>3

\* A probe of a demoted provider counts one more if it was clean, or lifts it if that
\* was the last it needed; one that was not starts the count again.
Probes(h, ok, next) ==
  /\ Sane(next)
  /\ next.state = "demoted" =>
       IF ok THEN next.cleanProbes = h.cleanProbes + 1 /\ h.cleanProbes + 1 < PROBE_CLEAN
       ELSE next.cleanProbes = 0
  /\ next.state # "demoted" => ok /\ h.cleanProbes + 1 >= PROBE_CLEAN

LEMMA ProbeSane ==
  ASSUME NEW h, Sane(h), h.state = "demoted", NEW ok \in BOOLEAN
  PROVE  Probes(h, ok, observeProbe(h, ok, now))
<1> DEFINE next == observeProbe(h, ok, now)
<1>1. h \in HealthState /\ h.p0 # Unmeasured /\ h.cleanProbes \in Nat /\ h.s \in 0 .. S_CAP
  BY DEF Sane, HealthState
<1>2. CASE ~ok
  <2>1. next = Probed(h, h.s, 0)
    BY <1>1, <1>2 DEF observeProbe, HealthState, Probed
  <2> HIDE DEF next
  <2>2. next \in HealthState /\ next.p0 = h.p0 /\ next.state = h.state /\ next.cleanProbes = 0
    BY <1>1, <2>1, ProbedType DEF SameBut
  <2> QED
    BY <1>1, <1>2, <2>2 DEF Sane, Probes, next
<1>3. CASE ok /\ h.cleanProbes + 1 < PROBE_CLEAN
  <2>1. next = Probed(h, h.s, h.cleanProbes + 1)
    BY <1>1, <1>3 DEF observeProbe, HealthState, Probed
  <2> HIDE DEF next
  <2>2. next \in HealthState /\ next.p0 = h.p0 /\ next.state = h.state
        /\ next.cleanProbes = h.cleanProbes + 1
    BY <1>1, <2>1, ProbedType DEF SameBut
  <2> QED
    BY <1>1, <1>3, <2>2 DEF Sane, Probes, next
<1>4. CASE ok /\ ~(h.cleanProbes + 1 < PROBE_CLEAN)
  <2> DEFINE lifted == Entered(h, "degraded", now)
  <2>1. next = Probed(lifted, H_DEGRADE, 0)
    BY <1>4 DEF observeProbe, Probed
  <2>2. lifted \in HealthState /\ lifted.p0 = h.p0 /\ lifted.state = "degraded"
    BY <1>1, EnteredType DEF States, SameBut, now
  <2> HIDE DEF lifted, next
  <2>3. next \in HealthState /\ next.p0 = h.p0 /\ next.state = "degraded"
    BY <2>1, <2>2, ProbedType, Thresholds DEF SameBut
  <2> QED
    <3>1. PROBE_CLEAN \in Nat /\ h.cleanProbes + 1 >= PROBE_CLEAN
      BY <1>1, <1>4, Thresholds
    <3> QED
      BY <1>1, <1>4, <2>3, <3>1 DEF Sane, Probes, next
<1> QED
  BY <1>2, <1>3, <1>4

-----------------------------------------------------------------------------
\* What the store and the passes know of the providers.
HealthKept ==
  /\ DOMAIN health = Providers /\ \A p \in Providers : Sane(health[p])
  /\ clean \in [Providers -> Nat]
  /\ sentIn \in [Replicas -> BOOLEAN]
  /\ seen \in [Replicas -> SUBSET Providers]

\* The units of time that the probes of the first k candidates can take, and how much of
\* a pass is over, each candidate it has left behind allowed a whole probe.
Units(k) == UNION {{n} \X (0 .. Budget[Candidates[n]] - 1) : n \in 1 .. k}
Spent(k) == Cardinality(Units(k))
Taken(r) == Spent(Len(Candidates) - Len(todo[r])) + age[r]

\* However slow the probes before it, a pass is done with the provider before a lease of
\* it that was free when the pass began could have run out.
InReach(p) == \A k \in 1 .. Len(Candidates) : Candidates[k] = p => LeaseTtl[p] > Spent(k)

\* The probes the store has counted are all among those counted here.
CountKept ==
  \A p \in Providers :
    InReach(p) /\ health[p].state = "demoted" => health[p].cleanProbes <= clean[p]

\* A probe under way was sent in the provider's present demotion.
SentSince ==
  \A r \in Replicas : pc[r] = "probing" /\ InReach(id(r)) =>
    health[id(r)].state = "demoted" /\ sentIn[r]

\* What is left of the candidates.
Remains(seq) ==
  /\ Len(seq) <= Len(Candidates)
  /\ \A k \in 1 .. Len(seq) : seq[k] = Candidates[Len(Candidates) - Len(seq) + k]

\* Where a pass under way can be.
AtRest ==
  \A r \in Replicas :
    /\ pc[r] # "probing" => age[r] = 0
    /\ pc[r] = "leasing" => id(r) \in seen[r]
    /\ Remains(todo[r])

\* A snapshot that is wrong of a provider is no older than the lease of the
\* probe that lifted it.
Fresh ==
  \A r \in Replicas : pc[r] # "idle" =>
    \A p \in seen[r] :
      health[p].state # "demoted" => lease[p] + Taken(r) >= LeaseTtl[p] - Budget[p]

Earned == HealthKept /\ CountKept /\ SentSince /\ AtRest /\ Fresh
LInv == IInv /\ Earned

\* So many are the numbers from 0 to b - 1.
LEMMA BelowCounted ==
  ASSUME NEW b \in Nat PROVE IsFiniteSet(0 .. b - 1) /\ Cardinality(0 .. b - 1) = b
<1>1. b - 1 \in Int /\ (0 > b - 1 <=> b = 0) /\ b - 1 - 0 + 1 = b
  OBVIOUS
<1>2. PICK m \in Int : m = b - 1
  BY <1>1
<1>3. IsFiniteSet(0 .. m) /\ Cardinality(0 .. m) = IF 0 > m THEN 0 ELSE m - 0 + 1
  BY FS_Interval
<1> QED
  BY <1>1, <1>2, <1>3

LEMMA UnitsFinite ==
  ASSUME NEW k \in 0 .. Len(Candidates) PROVE IsFiniteSet(Units(k)) /\ Spent(k) \in Nat
<1> DEFINE part == [n \in 1 .. k |-> {n} \X (0 .. Budget[Candidates[n]] - 1)]
           parts == {{n} \X (0 .. Budget[Candidates[n]] - 1) : n \in 1 .. k}
<1>1. part \in Surjection(1 .. k, parts)
  BY DEF Surjection
<1>2. IsFiniteSet(parts)
  BY <1>1, FS_Interval, FS_Surjection, ProberAssumption
<1> HIDE DEF part
<1>3. ASSUME NEW t \in parts PROVE IsFiniteSet(t)
  <2>1. PICK n \in 1 .. k : t = {n} \X (0 .. Budget[Candidates[n]] - 1)
    BY <1>3
  <2>2. IsFiniteSet({n})
    BY FS_Singleton
  <2>3. Budget[Candidates[n]] \in Nat
    BY ProberAssumption
  <2>4. IsFiniteSet(0 .. Budget[Candidates[n]] - 1)
    BY <2>3, BelowCounted
  <2> QED
    BY <2>1, <2>2, <2>4, FS_Product
<1>4. Units(k) = UNION parts
  BY DEF Units
<1> HIDE DEF parts
<1>5. IsFiniteSet(Units(k))
  BY <1>2, <1>3, <1>4, FS_UNION
<1> QED
  BY <1>5, FS_CardinalityType DEF Spent

LEMMA SpentMore ==
  ASSUME NEW k \in Nat, k < Len(Candidates)
  PROVE  /\ Candidates[k + 1] \in Providers /\ Spent(k) \in Nat
         /\ Spent(k + 1) = Spent(k) + Budget[Candidates[k + 1]]
<1>1. Candidates[k + 1] \in Providers
  BY ProberAssumption
<1> DEFINE b == Budget[Candidates[k + 1]]
           own == {k + 1} \X (0 .. b - 1)
<1>2. b \in Nat \ {0}
  BY <1>1, ProberAssumption
<1>3. Units(k + 1) = Units(k) \cup own
  <2>1. 1 .. k + 1 = (1 .. k) \cup {k + 1}
    OBVIOUS
  <2> QED
    BY <2>1 DEF Units
<1> HIDE DEF b
<1>4. IsFiniteSet(own) /\ Cardinality(own) = b
  <2>1. IsFiniteSet({k + 1}) /\ Cardinality({k + 1}) = 1
    BY FS_Singleton
  <2>2. IsFiniteSet(0 .. b - 1) /\ Cardinality(0 .. b - 1) = b
    BY <1>2, BelowCounted
  <2> QED
    BY <1>2, <2>1, <2>2, FS_Product
<1>5. Units(k) \cap own = {}
  BY DEF Units
<1> HIDE DEF own
<1>6. Cardinality({}) = 0
  BY FS_EmptySet
<1>7. IsFiniteSet(Units(k)) /\ Spent(k) \in Nat
  BY UnitsFinite, ProberAssumption
<1>8. Cardinality(Units(k + 1)) = Cardinality(Units(k)) + b - 0
  BY <1>3, <1>4, <1>5, <1>6, <1>7, FS_Union
<1>9. Spent(k + 1) = Spent(k) + b
  BY <1>2, <1>7, <1>8 DEF Spent
<1> QED
  BY <1>1, <1>7, <1>9 DEF b

LEMMA InitEarned == Init => Earned
<1> SUFFICES ASSUME Init PROVE Earned
  OBVIOUS
<1>1. Sane(initial(now)) /\ initial(now).state = "healthy"
  BY InitialSane DEF now
<1>2. Sane(Demoted) /\ Demoted.cleanProbes = 0
  <2>1. Measured[0] \in Baselines /\ H_DEMOTE \in 0 .. S_CAP
    BY HealthAssumption
  <2> DEFINE g == initial(now)
  <2>2. g \in HealthState /\ g.cleanProbes = 0
    BY <1>1 DEF Sane, initial
  <2>3. Demoted = [g EXCEPT !.state = "demoted", !.p0 = Measured[0], !.s = H_DEMOTE]
    BY DEF Demoted
  <2> HIDE DEF g
  <2>4. Demoted \in HealthState /\ Demoted.p0 = Measured[0] /\ Demoted.cleanProbes = 0
    BY <2>1, <2>2, <2>3 DEF HealthState, States
  <2> QED
    BY <2>1, <2>4, Thresholds DEF Sane
<1>3. HealthKept
  BY <1>1, <1>2 DEF Init, HealthKept
<1>4. CountKept
  BY <1>1, <1>2 DEF Init, CountKept
<1>5. \A r \in Replicas : pc[r] = "idle" /\ age[r] = 0 /\ todo[r] = <<>>
  BY DEF Init
<1>6. Remains(<<>>)
  BY ProberAssumption DEF Remains
<1>7. SentSince /\ AtRest /\ Fresh
  BY <1>5, <1>6 DEF SentSince, AtRest, Fresh
<1> QED
  BY <1>3, <1>4, <1>7 DEF Earned

\* Where in the list of candidates a pass is, and what its candidate is allowed.
LEMMA AtPlace ==
  ASSUME LInv, NEW r \in Replicas, pc[r] # "idle"
  PROVE  \E k \in Nat, m \in 1 .. Len(Candidates) :
           /\ m = k + 1 /\ Candidates[m] = id(r) /\ id(r) \in Providers
           /\ Spent(k) \in Nat /\ Spent(m) = Spent(k) + Budget[id(r)]
           /\ k = Len(Candidates) - Len(todo[r]) /\ m = Len(Candidates) - Len(Tail(todo[r]))
           /\ Remains(Tail(todo[r]))
<1> DEFINE n == Len(Candidates)  l == Len(todo[r])
<1>1. todo[r] \in Seq(Providers) /\ todo[r] # <<>> /\ Remains(todo[r])
  BY DEF LInv, IInv, Typed, AtCandidate, Earned, AtRest
<1>2. l \in Nat /\ l >= 1 /\ n \in Nat /\ l <= n
  BY <1>1, ProberAssumption DEF Remains
<1>9. \A k \in 1 .. l : todo[r][k] = Candidates[n - l + k]
  BY <1>1 DEF Remains
<1>3. todo[r][1] = id(r) /\ todo[r][1] = Candidates[n - l + 1]
  <2>1. todo[r][1] = Head(todo[r])
    BY <1>1
  <2> HIDE DEF n, l
  <2>2. 1 \in 1 .. l
    BY <1>2
  <2> QED
    BY <1>9, <2>1, <2>2 DEF id
<1>4. Remains(Tail(todo[r])) /\ Len(Tail(todo[r])) = l - 1
  <2>1. PICK rest : rest = Tail(todo[r])
    OBVIOUS
  <2>2. Len(rest) = l - 1 /\ \A k \in 1 .. l - 1 : rest[k] = todo[r][k + 1]
    BY <1>1, <2>1
  <2> HIDE DEF n, l
  <2>3. \A k \in 1 .. l - 1 : todo[r][k + 1] = Candidates[n - l + (k + 1)]
    <3>1. \A k \in 1 .. l - 1 : k + 1 \in 1 .. l
      BY <1>2
    <3> QED
      BY <1>9, <3>1
  <2>4. \A k \in 1 .. l - 1 : n - l + (k + 1) = n - (l - 1) + k
    BY <1>2
  <2>5. Len(rest) <= n /\ \A k \in 1 .. Len(rest) : rest[k] = Candidates[n - Len(rest) + k]
    BY <1>2, <2>2, <2>3, <2>4
  <2> QED
    BY <2>1, <2>2, <2>5 DEF Remains, n
<1> HIDE DEF n, l
<1>5. PICK k \in Nat : k = n - l
  BY <1>2
<1>6. PICK m \in 1 .. n : m = k + 1 /\ m = n - (l - 1) /\ m = n - l + 1
  BY <1>2, <1>5
<1>7. Spent(k) \in Nat /\ Spent(m) = Spent(k) + Budget[Candidates[m]]
      /\ Candidates[m] \in Providers
  BY <1>2, <1>6, SpentMore DEF n
<1> QED
  BY <1>3, <1>4, <1>5, <1>6, <1>7 DEF n, l

\* What a pass has taken is a number, and a probe takes no more than it is allowed.
LEMMA TakenType ==
  ASSUME LInv, NEW r \in Replicas
  PROVE  /\ Taken(r) \in Nat /\ age[r] \in Nat
         /\ pc[r] # "idle" => age[r] <= Budget[id(r)]
<1>1. todo[r] \in Seq(Providers) /\ age[r] \in Nat /\ Len(todo[r]) <= Len(Candidates)
  BY DEF LInv, Earned, IInv, Typed, AtRest, Remains
<1> DEFINE left == Len(Candidates) - Len(todo[r])
<1>2. left \in 0 .. Len(Candidates)
  BY <1>1, ProberAssumption
<1>3. Taken(r) = Spent(left) + age[r]
  BY DEF Taken
<1> HIDE DEF left
<1>4. Spent(left) \in Nat
  BY <1>2, UnitsFinite
<1>5. ASSUME pc[r] # "idle" PROVE age[r] <= Budget[id(r)]
  <2>1. Budget[id(r)] \in Nat
    BY <1>5, HasCandidate, ProberAssumption DEF LInv
  <2> QED
    BY <2>1 DEF LInv, IInv, Covered, Earned, AtRest
<1> QED
  BY <1>1, <1>3, <1>4, <1>5

\* Going on to the next candidate allows for the time of a whole probe more.
LEMMA MovedOn ==
  ASSUME LInv, NEW r \in Replicas, pc[r] # "idle", MoveOn(r), age'[r] = 0
  PROVE  /\ Taken(r)' >= Taken(r) /\ Taken(r)' \in Nat /\ Taken(r) \in Nat
         /\ Remains(todo'[r])
         /\ pc'[r] \in {"idle", "pass"}
<1>1. PICK k \in Nat, m \in 1 .. Len(Candidates) :
        /\ id(r) \in Providers /\ Spent(k) \in Nat /\ Spent(m) = Spent(k) + Budget[id(r)]
        /\ k = Len(Candidates) - Len(todo[r]) /\ m = Len(Candidates) - Len(Tail(todo[r]))
        /\ Remains(Tail(todo[r]))
  BY AtPlace
<1>2. todo'[r] = Tail(todo[r]) /\ pc'[r] \in {"idle", "pass"}
  BY DEF MoveOn, LInv, IInv, Typed
<1>3. Taken(r) = Spent(k) + age[r] /\ Taken(r)' = Spent(m) + 0
  BY <1>1, <1>2 DEF Taken
<1>4. age[r] \in Nat /\ age[r] <= Budget[id(r)] /\ Budget[id(r)] \in Nat
  BY <1>1, TakenType, ProberAssumption
<1>5. Taken(r)' >= Taken(r) /\ Taken(r)' \in Nat /\ Taken(r) \in Nat
  <2>1. PICK before \in Nat : before = Spent(k)
    BY <1>1
  <2>2. Taken(r) = before + age[r] /\ Taken(r)' = before + Budget[id(r)]
    BY <1>1, <1>3, <1>4, <2>1
  <2> QED
    BY <1>4, <2>1, <2>2
<1>6. Remains(todo'[r])
  BY <1>1, <1>2
<1> QED
  BY <1>2, <1>5, <1>6

\* The steps of a pass that send no probe and record none.
LEMMA PassEarned ==
  ASSUME LInv, NEW r \in Replicas, NEW step \in PC \ {"probing"},
         UNCHANGED <<health, clean, sentIn>>,
         pc' = [pc EXCEPT ![r] = step],
         \A s \in Replicas : s # r =>
           todo'[s] = todo[s] /\ age'[s] = age[s] /\ seen'[s] = seen[s],
         seen' \in [Replicas -> SUBSET Providers],
         \A p \in Providers : lease[p] \in Nat /\ lease'[p] \in Nat /\ lease'[p] >= lease[p],
         age'[r] = 0, Remains(todo'[r]),
         step = "leasing" => id(r)' \in seen'[r],
         step # "idle" =>
           \/ \A p \in seen'[r] : health[p].state = "demoted"
           \/ pc[r] # "idle" /\ seen'[r] = seen[r] /\ Taken(r)' \in Nat /\ Taken(r)' >= Taken(r)
  PROVE  Earned'
<1>1. /\ pc'[r] = step /\ \A s \in Replicas : s # r => pc'[s] = pc[s]
      /\ step \in PC /\ step # "probing"
  BY DEF LInv, IInv, Typed
<1>2. \A s \in Replicas : s # r => id(s)' = id(s) /\ Taken(s)' = Taken(s)
  BY DEF id, Taken
<1>3. HealthKept' /\ CountKept'
  BY DEF LInv, Earned, HealthKept, CountKept
<1>4. SentSince'
  BY <1>1, <1>2 DEF LInv, Earned, SentSince
<1>5. AtRest'
  <2> SUFFICES ASSUME NEW s \in Replicas
               PROVE  /\ pc'[s] # "probing" => age'[s] = 0
                      /\ pc'[s] = "leasing" => id(s)' \in seen'[s]
                      /\ Remains(todo'[s])
    BY DEF AtRest
  <2>1. CASE s = r
    BY <1>1, <2>1
  <2>2. CASE s # r
    BY <1>1, <1>2, <2>2 DEF LInv, Earned, AtRest
  <2> QED
    BY <2>1, <2>2
<1>6. Fresh'
  <2> SUFFICES ASSUME NEW s \in Replicas, pc'[s] # "idle", NEW p \in seen'[s],
                      health[p].state # "demoted"
               PROVE  lease'[p] + Taken(s)' >= LeaseTtl[p] - Budget[p]
    BY DEF Fresh
  <2>0. p \in Providers /\ lease[p] \in Nat /\ lease'[p] \in Nat /\ lease'[p] >= lease[p]
        /\ Taken(s) \in Nat /\ LeaseTtl[p] \in Nat /\ Budget[p] \in Nat
    BY TakenType, ProberAssumption
  <2>1. CASE s = r
    <3>1. /\ pc[r] # "idle" /\ p \in seen[r] /\ Taken(r)' >= Taken(r)
          /\ Taken(r)' \in Nat
      BY <1>1, <2>1
    <3>2. lease[p] + Taken(r) >= LeaseTtl[p] - Budget[p]
      BY <3>1 DEF LInv, Earned, Fresh
    <3> QED
      BY <2>0, <2>1, <3>1, <3>2
  <2>2. CASE s # r
    <3>1. lease[p] + Taken(s) >= LeaseTtl[p] - Budget[p] /\ Taken(s)' = Taken(s)
      BY <1>1, <1>2, <2>2 DEF LInv, Earned, Fresh
    <3> QED
      BY <2>0, <3>1
  <2> QED
    BY <2>1, <2>2
<1> QED
  BY <1>3, <1>4, <1>5, <1>6 DEF Earned

\* A new snapshot is right of everybody.
LEMMA TickEarned == ASSUME LInv, NEW r \in Replicas, Tick(r) PROVE Earned'
<1>1. /\ UNCHANGED <<health, clean, sentIn>> /\ UNCHANGED <<lease, age>>
      /\ pc[r] = "idle" /\ pc' = [pc EXCEPT ![r] = "pass"]
      /\ seen' = [seen EXCEPT ![r] = {p \in Providers : health[p].state = "demoted"}]
      /\ todo' = [todo EXCEPT ![r] = Candidates]
  BY DEF Tick, store
<1>2. "pass" \in PC \ {"probing"}
  BY DEF PC
<1>3. /\ \A s \in Replicas : s # r =>
           todo'[s] = todo[s] /\ age'[s] = age[s] /\ seen'[s] = seen[s]
      /\ seen' \in [Replicas -> SUBSET Providers]
      /\ todo'[r] = Candidates /\ \A p \in seen'[r] : health[p].state = "demoted"
  BY <1>1 DEF LInv, IInv, Typed, Earned, HealthKept
<1>4. \A p \in Providers : lease[p] \in Nat /\ lease'[p] \in Nat /\ lease'[p] >= lease[p]
  BY <1>1, ProberAssumption DEF LInv, IInv, Typed
<1>5. age'[r] = 0 /\ Remains(todo'[r])
  <2>1. age'[r] = 0
    BY <1>1 DEF LInv, Earned, AtRest
  <2>2. Remains(Candidates)
    <3>1. PICK n \in Nat : n = Len(Candidates)
      BY ProberAssumption
    <3>2. \A k \in 1 .. n : n - n + k = k
      BY <3>1
    <3> QED
      BY <3>1, <3>2 DEF Remains
  <2> QED
    BY <1>3, <2>1, <2>2
<1> QED
  BY <1>1, <1>2, <1>3, <1>4, <1>5, PassEarned

\* A candidate is passed over, its lease perhaps taken for nothing.
LEMMA MoveOnEarned ==
  ASSUME LInv, NEW r \in Replicas, Forget(r) \/ NotDue(r) \/ LeaseHeld(r) \/ LeaseFails(r)
  PROVE  Earned'
<1>1. /\ UNCHANGED <<health, clean, sentIn>> /\ UNCHANGED <<seen, age>>
      /\ pc[r] \in {"pass", "leasing"} /\ MoveOn(r)
      /\ \/ lease' = lease
         \/ lease[id(r)] = 0 /\ lease' = [lease EXCEPT ![id(r)] = LeaseTtl[id(r)]]
  BY DEF Forget, NotDue, LeaseHeld, LeaseFails, store
<1>2. age'[r] = 0 /\ pc[r] # "idle"
  BY <1>1 DEF LInv, Earned, AtRest
<1>3. /\ Taken(r)' >= Taken(r) /\ Taken(r)' \in Nat /\ Remains(todo'[r])
  BY <1>1, <1>2, MovedOn
<1>4. PICK step \in {"idle", "pass"} : step = IF Len(todo[r]) = 1 THEN "idle" ELSE "pass"
  OBVIOUS
<1>5. pc' = [pc EXCEPT ![r] = step] /\ step \in PC \ {"probing"} /\ step # "leasing"
  BY <1>1, <1>4 DEF MoveOn, PC
<1>6. \A p \in Providers : lease[p] \in Nat /\ lease'[p] \in Nat /\ lease'[p] >= lease[p]
  <2>1. /\ lease \in [Providers -> Nat] /\ \A p \in Providers : lease[p] <= LeaseTtl[p]
        /\ id(r) \in Providers
    BY <1>1, HasCandidate DEF LInv, IInv, Typed
  <2>2. CASE lease' = lease
    BY <2>1, <2>2
  <2>3. CASE lease[id(r)] = 0 /\ lease' = [lease EXCEPT ![id(r)] = LeaseTtl[id(r)]]
    BY <2>1, <2>3, LeaseTaken
  <2> QED
    BY <1>1, <2>2, <2>3
<1>7. /\ \A s \in Replicas : s # r =>
           todo'[s] = todo[s] /\ age'[s] = age[s] /\ seen'[s] = seen[s]
      /\ seen' \in [Replicas -> SUBSET Providers]
  BY <1>1 DEF MoveOn, LInv, IInv, Typed, Earned, HealthKept
<1> QED
  BY <1>1, <1>2, <1>3, <1>5, <1>6, <1>7, PassEarned

LEMMA AskLeaseEarned == ASSUME LInv, NEW r \in Replicas, AskLease(r) PROVE Earned'
<1>1. /\ UNCHANGED <<health, clean, sentIn>> /\ UNCHANGED <<seen, age, todo, lease>>
      /\ pc[r] = "pass" /\ pc' = [pc EXCEPT ![r] = "leasing"] /\ id(r) \in seen[r]
  BY DEF AskLease, store
<1>2. "leasing" \in PC \ {"probing"} /\ id(r)' = id(r) /\ Taken(r)' = Taken(r)
  BY <1>1 DEF PC, id, Taken
<1>3. age'[r] = 0 /\ Remains(todo'[r]) /\ Taken(r) \in Nat
      /\ seen' \in [Replicas -> SUBSET Providers]
  BY <1>1, TakenType DEF LInv, Earned, AtRest, HealthKept
<1>4. \A p \in Providers : lease[p] \in Nat /\ lease'[p] \in Nat /\ lease'[p] >= lease[p]
  BY <1>1, ProberAssumption DEF LInv, IInv, Typed
<1>5. Taken(r)' \in Nat /\ Taken(r)' >= Taken(r)
  BY <1>2, <1>3
<1>6. /\ \A s \in Replicas : s # r =>
           todo'[s] = todo[s] /\ age'[s] = age[s] /\ seen'[s] = seen[s]
      /\ id(r)' \in seen'[r] /\ pc[r] # "idle" /\ seen'[r] = seen[r]
  BY <1>1, <1>2
<1> QED
  BY <1>1, <1>2, <1>3, <1>4, <1>5, <1>6, PassEarned

LEMMA RestartEarned == ASSUME LInv, NEW r \in Replicas, Restart(r) PROVE Earned'
<1>1. /\ UNCHANGED <<health, clean, sentIn>> /\ UNCHANGED lease
      /\ pc' = [pc EXCEPT ![r] = "idle"] /\ seen' = [seen EXCEPT ![r] = {}]
      /\ age' = [age EXCEPT ![r] = 0] /\ todo' = [todo EXCEPT ![r] = <<>>]
  BY DEF Restart, store
<1>2. "idle" \in PC \ {"probing"}
  BY DEF PC
<1>3. /\ \A s \in Replicas : s # r =>
           todo'[s] = todo[s] /\ age'[s] = age[s] /\ seen'[s] = seen[s]
      /\ seen' \in [Replicas -> SUBSET Providers]
      /\ age'[r] = 0 /\ todo'[r] = <<>>
  BY <1>1 DEF LInv, IInv, Typed, Earned, HealthKept
<1>4. Remains(todo'[r])
  BY <1>3, ProberAssumption DEF Remains
<1>5. \A p \in Providers : lease[p] \in Nat /\ lease'[p] \in Nat /\ lease'[p] >= lease[p]
  BY <1>1, ProberAssumption DEF LInv, IInv, Typed
<1> QED
  BY <1>1, <1>2, <1>3, <1>4, <1>5, PassEarned

\* The lease is free, so whoever lifted the provider since the snapshot did so a whole
\* lease ago, and the pass has not taken that long to get here: it is demoted still.
LEMMA StillDemoted ==
  ASSUME LInv, NEW r \in Replicas, pc[r] = "leasing", lease[id(r)] = 0, InReach(id(r))
  PROVE  health[id(r)].state = "demoted"
<1> DEFINE p == id(r)
<1>1. p \in seen[r] /\ age[r] = 0
  BY DEF LInv, Earned, AtRest
<1>2. PICK k \in Nat, m \in 1 .. Len(Candidates) :
        /\ k = Len(Candidates) - Len(todo[r]) /\ Candidates[m] = p /\ p \in Providers
        /\ Spent(k) \in Nat /\ Spent(m) = Spent(k) + Budget[p]
  BY AtPlace
<1>3. LeaseTtl[p] > Spent(m)
  BY <1>2 DEF InReach
<1>4. Taken(r) = Spent(k) + 0
  BY <1>1, <1>2 DEF Taken
<1>5. LeaseTtl[p] \in Nat /\ Budget[p] \in Nat
  BY <1>2, ProberAssumption
<1>6. ~(lease[p] + Taken(r) >= LeaseTtl[p] - Budget[p])
  <2> HIDE DEF p
  <2>1. lease[p] = 0
    BY DEF p
  <2>2. PICK before \in Nat : before = Spent(k)
    BY <1>2
  <2>3. Taken(r) = before /\ LeaseTtl[p] > before + Budget[p]
    BY <1>2, <1>3, <1>4, <2>2
  <2> QED
    BY <1>5, <2>1, <2>2, <2>3
<1> QED
  BY <1>1, <1>6 DEF LInv, Earned, Fresh

\* So a probe that is sent belongs to the present demotion.
LEMMA LeasedEarned ==
  ASSUME LInv, NEW r \in Replicas, Leased(r) PROVE Earned'
<1>1. /\ UNCHANGED <<health, clean>> /\ UNCHANGED <<seen, todo>>
      /\ pc[r] = "leasing" /\ pc' = [pc EXCEPT ![r] = "probing"]
      /\ age' = [age EXCEPT ![r] = 0] /\ lease[id(r)] = 0
      /\ sentIn' = [sentIn EXCEPT ![r] = health[id(r)].state = "demoted"]
      /\ lease' = [lease EXCEPT ![id(r)] = LeaseTtl[id(r)]]
  BY DEF Leased, Send
<1>2. id(r) \in Providers /\ (InReach(id(r)) => health[id(r)].state = "demoted")
  BY <1>1, StillDemoted, HasCandidate DEF LInv
<1>3. age[r] = 0 /\ age' = age /\ \A s \in Replicas : id(s)' = id(s) /\ Taken(s)' = Taken(s)
  <2>1. age[r] = 0
    BY <1>1 DEF LInv, Earned, AtRest
  <2>2. age' = age
    BY <1>1, <2>1 DEF LInv, IInv, Typed
  <2> QED
    BY <1>1, <2>1, <2>2 DEF id, Taken
<1>4. /\ sentIn' \in [Replicas -> BOOLEAN] /\ sentIn'[r] = (health[id(r)].state = "demoted")
      /\ \A s \in Replicas : s # r => sentIn'[s] = sentIn[s]
  BY <1>1 DEF LInv, Earned, HealthKept
<1>5. HealthKept' /\ CountKept'
  BY <1>1, <1>4 DEF LInv, Earned, HealthKept, CountKept, InReach
<1>6. pc'[r] = "probing" /\ \A s \in Replicas : s # r => pc'[s] = pc[s]
  BY <1>1 DEF LInv, IInv, Typed
<1>7. SentSince'
  <2> SUFFICES ASSUME NEW s \in Replicas, pc'[s] = "probing", InReach(id(s))
               PROVE  health[id(s)].state = "demoted" /\ sentIn'[s]
    BY <1>1, <1>3 DEF SentSince, InReach
  <2>1. CASE s = r
    BY <1>2, <1>4, <2>1
  <2>2. CASE s # r
    BY <1>4, <1>6, <2>2 DEF LInv, Earned, SentSince
  <2> QED
    BY <2>1, <2>2
<1>8. AtRest'
  BY <1>1, <1>3, <1>6 DEF LInv, Earned, AtRest, Remains
<1>9. Fresh'
  <2> SUFFICES ASSUME NEW s \in Replicas, pc'[s] # "idle", NEW p \in seen'[s],
                      health[p].state # "demoted"
               PROVE  lease'[p] + Taken(s)' >= LeaseTtl[p] - Budget[p]
    BY <1>1 DEF Fresh
  <2>1. pc[s] # "idle" /\ p \in seen[s] /\ p \in Providers
    BY <1>1, <1>6 DEF LInv, Earned, HealthKept
  <2>2. lease[p] + Taken(s) >= LeaseTtl[p] - Budget[p]
    BY <2>1 DEF LInv, Earned, Fresh
  <2>3. lease \in [Providers -> Nat] /\ \A x \in Providers : lease[x] <= LeaseTtl[x]
    BY DEF LInv, IInv, Typed
  <2>4. lease'[p] \in Nat /\ lease[p] \in Nat /\ lease'[p] >= lease[p]
    BY <1>1, <1>2, <2>1, <2>3, LeaseTaken
  <2>5. Taken(s) \in Nat /\ LeaseTtl[p] \in Nat /\ Budget[p] \in Nat
    BY <2>1, TakenType, ProberAssumption
  <2> QED
    BY <1>3, <2>2, <2>4, <2>5
<1> QED
  BY <1>5, <1>7, <1>8, <1>9 DEF Earned

\* One probe is added to both counts, or both start again.
LEMMA ProbeCounts ==
  ASSUME LInv, NEW r \in Replicas, pc[r] = "probing", NEW ok \in BOOLEAN,
         NEW p, p = id(r), InReach(p), NEW next, next = observeProbe(health[p], ok, now),
         NEW most, most = IF ok /\ sentIn[r] THEN Clamped(clean[p] + 1, PROBE_CLEAN) ELSE 0
  PROVE  /\ next.state = "demoted" => next.cleanProbes <= most
         /\ next.state # "demoted" => most >= PROBE_CLEAN
<1> DEFINE was == health[p].cleanProbes
           counted == clean[p]
<1>1. p \in Providers /\ health[p].state = "demoted" /\ sentIn[r] = TRUE
  BY HasCandidate DEF LInv, Earned, SentSince, HealthKept
<1>2. Sane(health[p]) /\ counted \in Nat /\ was <= counted
  BY <1>1 DEF LInv, Earned, HealthKept, CountKept
<1>3. was \in Nat /\ PROBE_CLEAN \in Nat
  BY <1>2, Thresholds DEF Sane, HealthState
<1>4. Probes(health[p], ok, next)
  BY <1>1, <1>2, ProbeSane
<1>5. /\ Sane(next)
      /\ next.state = "demoted" =>
           IF ok THEN next.cleanProbes = was + 1 /\ was + 1 < PROBE_CLEAN
           ELSE next.cleanProbes = 0
      /\ next.state # "demoted" => ok /\ was + 1 >= PROBE_CLEAN
  BY <1>4 DEF Probes
<1> HIDE DEF was, counted
<1>6. CASE ~ok
  BY <1>1, <1>5, <1>6
<1>7. CASE ok
  <2>1. most = Clamped(counted + 1, PROBE_CLEAN)
    BY <1>1, <1>7 DEF counted
  <2>2. most = IF counted + 1 > PROBE_CLEAN THEN PROBE_CLEAN ELSE counted + 1
    BY <1>2, <2>1 DEF Clamped
  <2>3. most \in Nat
    BY <1>2, <1>3, <2>2
  <2>4. ASSUME next.state = "demoted" PROVE next.cleanProbes <= most
    <3>1. next.cleanProbes = was + 1 /\ was + 1 < PROBE_CLEAN
      BY <1>5, <1>7, <2>4
    <3>2. was + 1 <= most
      BY <1>2, <1>3, <2>2, <3>1
    <3> QED
      BY <3>1, <3>2
  <2>5. next.state # "demoted" => most >= PROBE_CLEAN
    BY <1>2, <1>3, <1>5, <2>2
  <2> QED
    BY <1>1, <1>5, <2>3, <2>4, <2>5
<1> QED
  BY <1>6, <1>7

\* What a step may do to a demoted provider that every pass reaches in time.
Lift == \A p \in Providers :
  InReach(p) /\ health[p].state = "demoted" /\ health'[p].state # "demoted"
    => clean'[p] >= PROBE_CLEAN

\* Only the end of a probe can lift a provider, and nobody else is probing that one;
\* its lease has all but a probe's time to run, so no snapshot is older than that.
LEMMA ProbeEndsEarned ==
  ASSUME LInv, NEW r \in Replicas, ProbeEnds(r)
  PROVE  Earned' /\ Lift
<1> DEFINE p == id(r)
<1>1. PICK ok \in BOOLEAN :
        /\ health' = [health EXCEPT ![p] = observeProbe(@, ok, now)]
        /\ clean' = [clean EXCEPT ![p] =
             IF ok /\ sentIn[r] THEN Clamped(@ + 1, PROBE_CLEAN) ELSE 0]
  BY DEF ProbeEnds
<1>2. /\ pc[r] = "probing" /\ MoveOn(r) /\ age' = [age EXCEPT ![r] = 0]
      /\ UNCHANGED <<lease, seen, sentIn>>
  BY DEF ProbeEnds
<1> DEFINE next == observeProbe(health[p], ok, now)
           most == IF ok /\ sentIn[r] THEN Clamped(clean[p] + 1, PROBE_CLEAN) ELSE 0
<1>3. /\ InReach(p) /\ next.state = "demoted" => next.cleanProbes <= most
      /\ InReach(p) /\ next.state # "demoted" => most >= PROBE_CLEAN
  BY <1>2, ProbeCounts
<1>13. p \in Providers /\ Sane(health[p]) /\ clean[p] \in Nat
  BY <1>2, HasCandidate DEF LInv, Earned, HealthKept
<1>14. most \in Nat
  <2>1. PICK c \in Nat : c = clean[p] + 1
    BY <1>13
  <2>2. Clamped(c, PROBE_CLEAN) \in Nat
    BY <2>1, Thresholds DEF Clamped
  <2> QED
    BY <2>1, <2>2
<1>15. Sane(next) /\ (health[p].state # "demoted" => next.state # "demoted")
  <2>1. CASE health[p].state = "demoted"
    BY <1>13, <2>1, ProbeSane DEF Probes
  <2>2. CASE health[p].state # "demoted"
    BY <1>13, <2>2 DEF observeProbe
  <2> QED
    BY <2>1, <2>2
<1>4. health' = [health EXCEPT ![p] = next] /\ clean' = [clean EXCEPT ![p] = most]
  BY <1>1
<1> HIDE DEF next, most
<1>5. /\ DOMAIN health' = Providers /\ health'[p] = next /\ clean'[p] = most
      /\ \A x \in Providers : x # p => health'[x] = health[x] /\ clean'[x] = clean[x]
      /\ clean' \in [Providers -> Nat]
  BY <1>4, <1>13, <1>14 DEF LInv, Earned, HealthKept
<1>6. age'[r] = 0 /\ \A s \in Replicas : s # r => age'[s] = age[s]
  BY <1>2 DEF LInv, IInv, Typed
<1>7. /\ Taken(r)' >= Taken(r) /\ Taken(r)' \in Nat /\ Taken(r) \in Nat
      /\ Remains(todo'[r]) /\ pc'[r] \in {"idle", "pass"}
  BY <1>2, <1>6, MovedOn
<1>8. \A s \in Replicas : s # r =>
        /\ pc'[s] = pc[s] /\ todo'[s] = todo[s] /\ id(s)' = id(s) /\ Taken(s)' = Taken(s)
  BY <1>2, <1>6 DEF MoveOn, LInv, IInv, Typed, id, Taken
<1>9. HealthKept' /\ CountKept'
  <2>1. HealthKept'
    BY <1>2, <1>5, <1>15 DEF LInv, Earned, HealthKept
  <2>2. \A x \in Providers :
          InReach(x) /\ health'[x].state = "demoted" => health'[x].cleanProbes <= clean'[x]
    BY <1>3, <1>5, <1>15 DEF LInv, Earned, CountKept
  <2> QED
    BY <2>1, <2>2 DEF CountKept, InReach
<1>10. SentSince'
  <2> SUFFICES ASSUME NEW s \in Replicas, pc'[s] = "probing", InReach(id(s)')
               PROVE  health'[id(s)'].state = "demoted" /\ sentIn'[s]
    BY DEF SentSince, InReach
  <2>1. s # r /\ pc[s] = "probing" /\ id(s)' = id(s) /\ id(s) \in Providers /\ id(s) # p
    BY <1>2, <1>7, <1>8, HasCandidate DEF LInv, IInv, OneProbeAtATime
  <2> HIDE DEF p
  <2> QED
    BY <1>2, <1>5, <2>1 DEF LInv, Earned, SentSince
<1>11. AtRest'
  <2> SUFFICES ASSUME NEW s \in Replicas
               PROVE  /\ pc'[s] # "probing" => age'[s] = 0
                      /\ pc'[s] = "leasing" => id(s)' \in seen'[s]
                      /\ Remains(todo'[s])
    BY DEF AtRest
  <2>1. CASE s = r
    BY <1>6, <1>7, <2>1
  <2>2. CASE s # r
    BY <1>2, <1>6, <1>8, <2>2 DEF LInv, Earned, AtRest
  <2> QED
    BY <2>1, <2>2
<1>12. Fresh'
  <2> SUFFICES ASSUME NEW s \in Replicas, pc'[s] # "idle", NEW x \in seen[s],
                      health'[x].state # "demoted"
               PROVE  lease[x] + Taken(s)' >= LeaseTtl[x] - Budget[x]
    BY <1>2 DEF Fresh
  <2>1. /\ pc[s] # "idle" /\ x \in Providers
        /\ Taken(s)' >= Taken(s) /\ Taken(s) \in Nat /\ Taken(s)' \in Nat
    BY <1>2, <1>7, <1>8, TakenType DEF LInv, Earned, HealthKept
  <2>2. lease[x] \in Nat /\ LeaseTtl[x] \in Nat /\ Budget[x] \in Nat
    BY <2>1, ProberAssumption DEF LInv, IInv, Typed
  <2>3. CASE x = p
    <3>1. lease[x] + age[r] = LeaseTtl[x] /\ age[r] <= Budget[x] /\ age[r] \in Nat
      BY <1>2, <2>3 DEF LInv, IInv, Covered, Typed
    <3> QED
      BY <2>1, <2>2, <3>1
  <2>4. CASE x # p
    <3>1. lease[x] + Taken(s) >= LeaseTtl[x] - Budget[x]
      BY <1>5, <2>1, <2>4 DEF LInv, Earned, Fresh
    <3> QED
      BY <2>1, <2>2, <3>1
  <2> QED
    BY <2>3, <2>4
<1>16. Lift
  BY <1>3, <1>5 DEF Lift
<1> QED
  BY <1>9, <1>10, <1>11, <1>12, <1>16 DEF Earned

\* A demotion starts the count of probes again, and none of them is under way.
LEMMA ObserveEarned ==
  ASSUME LInv, NEW p \in Providers, NEW o \in Traffic, Observe(p, o)
  PROVE  /\ Earned'
         /\ \A x \in Providers : health[x].state = "demoted" => health'[x].state = "demoted"
<1> DEFINE next == observe(health[p], o, now)
           fell == health[p].state # "demoted" /\ health'[p].state = "demoted"
<1>1. /\ health' = [health EXCEPT ![p] = next]
      /\ clean' = IF fell THEN [clean EXCEPT ![p] = 0] ELSE clean
      /\ sentIn' = IF fell
           THEN [r \in Replicas |-> sentIn[r] /\ ~(pc[r] = "probing" /\ id(r) = p)]
           ELSE sentIn
      /\ UNCHANGED <<lease, pc, seen, todo, age>>
  BY DEF Observe
<1>2. Tracks(health[p], next)
  BY ObserveSane DEF LInv, Earned, HealthKept
<1> HIDE DEF next
<1>3. /\ DOMAIN health' = Providers /\ health'[p] = next
      /\ \A x \in Providers : x # p => health'[x] = health[x]
  BY <1>1 DEF LInv, Earned, HealthKept
<1>4. /\ clean' \in [Providers -> Nat] /\ sentIn' \in [Replicas -> BOOLEAN]
      /\ \A x \in Providers : x # p => clean'[x] = clean[x]
      /\ clean'[p] = IF fell THEN 0 ELSE clean[p]
  BY <1>1 DEF LInv, Earned, HealthKept
<1>5. \A x \in Providers : health[x].state = "demoted" =>
        health'[x].state = "demoted" /\ health'[x].cleanProbes = health[x].cleanProbes
  BY <1>2, <1>3 DEF Tracks
<1>6. HealthKept'
  BY <1>1, <1>2, <1>3, <1>4 DEF LInv, Earned, HealthKept, Tracks
<1>7. CountKept'
  <2>1. CASE fell
    BY <1>2, <1>3, <1>4, <2>1 DEF LInv, Earned, CountKept, Tracks, InReach
  <2>2. CASE ~fell
    BY <1>3, <1>4, <1>5, <2>2 DEF LInv, Earned, CountKept, InReach
  <2> QED
    BY <2>1, <2>2
<1>8. SentSince'
  <2> SUFFICES ASSUME NEW r \in Replicas, pc[r] = "probing", InReach(id(r))
               PROVE  health'[id(r)].state = "demoted" /\ sentIn'[r]
    BY <1>1 DEF SentSince, id, InReach
  <2>1. id(r) \in Providers /\ health[id(r)].state = "demoted" /\ sentIn[r]
    BY HasCandidate DEF LInv, Earned, SentSince
  <2>2. fell => id(r) # p
    BY <2>1
  <2> HIDE DEF fell
  <2> QED
    BY <1>1, <1>5, <2>1, <2>2
<1>9. AtRest' /\ Fresh'
  <2>1. \A r \in Replicas : id(r)' = id(r) /\ Taken(r)' = Taken(r)
    BY <1>1 DEF id, Taken
  <2>2. AtRest'
    BY <1>1, <2>1 DEF LInv, Earned, AtRest
  <2>3. \A r \in Replicas : seen[r] \subseteq Providers
    BY DEF LInv, Earned, HealthKept
  <2>4. Fresh'
    BY <1>1, <1>5, <2>1, <2>3 DEF LInv, Earned, Fresh
  <2> QED
    BY <2>2, <2>4
<1> QED
  BY <1>5, <1>6, <1>7, <1>8, <1>9 DEF Earned

LEMMA EarlierType == ASSUME NEW t \in Int PROVE Earlier(t, DWELL_RECOVER) \in Int
BY HealthAssumption DEF Earlier

\* Later, a lease has as much less to run as the pass is older.
LEMMA ClockEarned ==
  ASSUME LInv, Clock
  PROVE  /\ Earned'
         /\ \A x \in Providers : health[x].state = "demoted" => health'[x].state = "demoted"
<1>1. /\ \A r \in Replicas : pc[r] \notin {"pass", "leasing"}
      /\ health' = [p \in Providers |->
           [health[p] EXCEPT !.enteredAt = Earlier(@, DWELL_RECOVER)]]
      /\ lease' = LeasesLater
      /\ age' = [r \in Replicas |-> IF pc[r] = "probing" THEN age[r] + 1 ELSE 0]
      /\ UNCHANGED <<clean, pc, seen, todo, sentIn>>
  BY DEF Clock
<1>2. ASSUME NEW p \in Providers
      PROVE  /\ Sane(health'[p]) /\ health'[p].state = health[p].state
             /\ health'[p].cleanProbes = health[p].cleanProbes
  <2> DEFINE h == health[p]
             t == Earlier(h.enteredAt, DWELL_RECOVER)
  <2>1. Sane(h)
    BY DEF LInv, Earned, HealthKept
  <2>2. t \in Int
    BY <2>1, EarlierType DEF Sane, HealthState
  <2>3. health'[p] = [h EXCEPT !.enteredAt = t]
    BY <1>1
  <2> HIDE DEF h, t
  <2>4. [h EXCEPT !.enteredAt = t] \in HealthState
    BY <2>1, <2>2 DEF Sane, HealthState
  <2>5. /\ health'[p].state = h.state /\ health'[p].cleanProbes = h.cleanProbes
        /\ health'[p].p0 = h.p0 /\ health'[p].samples = h.samples
        /\ health'[p].failures = h.failures
    BY <2>1, <2>3 DEF Sane, HealthState
  <2> QED
    BY <2>1, <2>3, <2>4, <2>5 DEF Sane, h
<1>3. HealthKept' /\ CountKept'
  BY <1>1, <1>2 DEF LInv, Earned, HealthKept, CountKept, InReach
<1>4. \A r \in Replicas : id(r)' = id(r)
  BY <1>1 DEF id
<1>5. SentSince'
  <2> SUFFICES ASSUME NEW r \in Replicas, pc[r] = "probing", InReach(id(r))
               PROVE  health'[id(r)].state = "demoted" /\ sentIn[r]
    BY <1>1, <1>4 DEF SentSince, InReach
  <2>1. id(r) \in Providers /\ health[id(r)].state = "demoted" /\ sentIn[r]
    BY HasCandidate DEF LInv, Earned, SentSince
  <2> QED
    BY <1>2, <2>1
<1>6. AtRest'
  BY <1>1, <1>4 DEF LInv, Earned, AtRest
<1>7. Fresh'
  <2> SUFFICES ASSUME NEW r \in Replicas, pc[r] # "idle", NEW p \in seen[r],
                      health'[p].state # "demoted"
               PROVE  lease'[p] + Taken(r)' >= LeaseTtl[p] - Budget[p]
    BY <1>1 DEF Fresh
  <2>1. p \in Providers /\ lease[p] + Taken(r) >= LeaseTtl[p] - Budget[p]
    BY <1>2 DEF LInv, Earned, HealthKept, Fresh
  <2>2. pc[r] = "probing"
    BY <1>1 DEF LInv, IInv, Typed, PC
  <2>3. Taken(r)' = Taken(r) + 1
    <3> DEFINE spent == Spent(Len(Candidates) - Len(todo[r]))
    <3>1. Taken(r) = spent + age[r] /\ Taken(r)' = spent + (age[r] + 1)
      BY <1>1, <2>2 DEF Taken
    <3>2. Taken(r) \in Nat /\ age[r] \in Nat
      BY TakenType
    <3>3. spent \in Int
      <4>1. Len(Candidates) - Len(todo[r]) \in 0 .. Len(Candidates)
        BY ProberAssumption DEF LInv, IInv, Typed, Earned, AtRest, Remains
      <4> QED
        BY <4>1, UnitsFinite
    <3> QED
      BY <3>1, <3>2, <3>3
  <2>4. lease'[p] = (IF lease[p] = 0 THEN 0 ELSE lease[p] - 1) /\ lease[p] \in Nat
    BY <1>1, <2>1 DEF LeasesLater, LInv, IInv, Typed
  <2> QED
    BY <2>1, <2>3, <2>4, TakenType, ProberAssumption
<1> QED
  BY <1>2, <1>3, <1>5, <1>6, <1>7 DEF Earned

LEMMA StutterEarned ==
  ASSUME LInv, UNCHANGED <<health, clean, sentIn, lease, pc, seen, todo, age>> PROVE Earned'
<1>1. \A r \in Replicas : id(r)' = id(r) /\ Taken(r)' = Taken(r)
  BY DEF id, Taken
<1> QED
  BY <1>1 DEF LInv, Earned, HealthKept, CountKept, SentSince, AtRest, Remains, Fresh, InReach

LEMMA NextEarned ==
  ASSUME LInv, [Next]_vars PROVE LInv' /\ Lift
<1>1. IInv'
  BY NextKeepsInv DEF LInv
<1>2. ASSUME NEW r \in Replicas, Tick(r) PROVE Earned' /\ health' = health
  BY <1>2, TickEarned DEF Tick, store
<1>3. ASSUME NEW r \in Replicas, Forget(r) \/ NotDue(r) \/ LeaseHeld(r) \/ LeaseFails(r)
      PROVE  Earned' /\ health' = health
  BY <1>3, MoveOnEarned DEF Forget, NotDue, LeaseHeld, LeaseFails, store
<1>4. ASSUME NEW r \in Replicas, AskLease(r) PROVE Earned' /\ health' = health
  BY <1>4, AskLeaseEarned DEF AskLease, store
<1>5. ASSUME NEW r \in Replicas, Leased(r) PROVE Earned' /\ health' = health
  BY <1>5, LeasedEarned DEF Leased, Send
<1>6. ASSUME NEW r \in Replicas, Restart(r) PROVE Earned' /\ health' = health
  BY <1>6, RestartEarned DEF Restart, store
<1>7. ASSUME NEW r \in Replicas, TickFails(r) PROVE Earned' /\ health' = health
  BY <1>7, StutterEarned DEF TickFails, store
<1>8. ASSUME NEW p \in Providers, ComesBack(p) PROVE Earned' /\ health' = health
  BY <1>8, StutterEarned DEF ComesBack, passes
<1>9. ASSUME UNCHANGED vars PROVE Earned' /\ health' = health
  BY <1>9, StutterEarned DEF vars
<1>10. ASSUME NEW r \in Replicas, ProbeEnds(r) PROVE Earned' /\ Lift
  BY <1>10, ProbeEndsEarned
<1>11. ASSUME NEW p \in Providers, NEW o \in Traffic, Observe(p, o) PROVE Earned' /\ Lift
  BY <1>11, ObserveEarned DEF Lift
<1>12. ASSUME Clock PROVE Earned' /\ Lift
  BY <1>12, ClockEarned DEF Lift
<1>13. ASSUME health' = health PROVE Lift
  BY <1>13 DEF Lift
<1>14. Earned' /\ Lift
  <2>1. CASE \E r \in Replicas : Tick(r) \/ Step(r) \/ Faulty(r)
    BY <1>2, <1>3, <1>4, <1>5, <1>6, <1>7, <1>10, <1>13, <2>1 DEF Step, Faulty
  <2>2. CASE \E p \in Providers : ComesBack(p) \/ \E o \in Traffic : Observe(p, o)
    BY <1>8, <1>11, <1>13, <2>2
  <2> QED
    BY <1>9, <1>12, <1>13, <2>1, <2>2 DEF Next
<1> QED
  BY <1>1, <1>14 DEF LInv

\* health.ts, observe and observeProbe, with prober.ts, lease: nothing but clean probes in
\* a row, sent since the demotion, lifts a provider that every pass reaches before its
\* lease could run out, for any number of gateways and providers, leases, budgets, tables
\* and thresholds, with restarts and failing leases, and whatever the other providers are.
\* One that a pass reaches later may be probed after it was lifted, and the result may
\* count in a demotion that began while the probe was under way.
THEOREM LiftsInReach == Spec => [][Lift]_vars
<1>1. Init => LInv
  BY InitInv, InitEarned DEF LInv
<1>2. LInv /\ [Next]_vars => LInv'
  BY NextEarned
<1>3. LInv /\ [Next]_vars => [Lift]_vars
  BY NextEarned
<1> QED
  BY <1>1, <1>2, <1>3, PTL DEF Spec

\* So where every pass over all candidates (fastTimeoutMs each) gets to each of them within
\* its lease (maxTimeoutMs + 5 s), every lift is earned.
THEOREM LiftsAreEarned ==
  ASSUME \A p \in Providers : InReach(p) PROVE Spec => LiftIsEarned
<1>1. Lift => \A p \in Providers :
                health[p].state = "demoted" /\ health'[p].state # "demoted"
                  => clean'[p] >= PROBE_CLEAN
  BY DEF Lift
<1> QED
  BY <1>1, LiftsInReach, PTL DEF LiftIsEarned

-----------------------------------------------------------------------------
\* Without any condition on the leases: every stored health is sane.
HealthSane == DOMAIN health = Providers /\ \A p \in Providers : Sane(health[p])

\* A step lifts p out of demotion; a step records the probe that completes its count.
Lifted(p) == health[p].state = "demoted" /\ health'[p].state # "demoted"
ByProbes(p) ==
  /\ \E r \in Replicas : id(r) = p /\ ProbeEnds(r)
  /\ health[p].cleanProbes + 1 >= PROBE_CLEAN

LEMMA InitSane == Init => HealthSane
BY InitEarned DEF Earned, HealthKept, HealthSane

LEMMA ClockSane ==
  ASSUME HealthSane, Clock
  PROVE  HealthSane' /\ \A p \in Providers : ~Lifted(p)
<1>1. health' = [p \in Providers |->
                   [health[p] EXCEPT !.enteredAt = Earlier(@, DWELL_RECOVER)]]
  BY DEF Clock
<1>2. ASSUME NEW p \in Providers
      PROVE  Sane(health'[p]) /\ health'[p].state = health[p].state
  <2> DEFINE h == health[p]
             t == Earlier(h.enteredAt, DWELL_RECOVER)
  <2>1. Sane(h)
    BY DEF HealthSane
  <2>2. t \in Int
    BY <2>1, EarlierType DEF Sane, HealthState
  <2>3. health'[p] = [h EXCEPT !.enteredAt = t]
    BY <1>1
  <2> HIDE DEF h, t
  <2>4. [h EXCEPT !.enteredAt = t] \in HealthState
    BY <2>1, <2>2 DEF Sane, HealthState
  <2>5. /\ health'[p].state = h.state /\ health'[p].p0 = h.p0
        /\ health'[p].samples = h.samples /\ health'[p].failures = h.failures
    BY <2>1, <2>3 DEF Sane, HealthState
  <2> QED
    BY <2>1, <2>3, <2>4, <2>5 DEF Sane, h
<1> QED
  BY <1>1, <1>2 DEF HealthSane, Lifted

LEMMA NextSane ==
  ASSUME IInv, HealthSane, [Next]_vars
  PROVE  HealthSane' /\ \A p \in Providers : Lifted(p) => ByProbes(p)
<1>1. ASSUME health' = health
      PROVE  HealthSane' /\ \A p \in Providers : ~Lifted(p)
  BY <1>1 DEF HealthSane, Lifted
<1>2. ASSUME NEW r \in Replicas, ProbeEnds(r)
      PROVE  HealthSane' /\ \A p \in Providers : Lifted(p) => ByProbes(p)
  <2>1. PICK p \in Providers : p = id(r)
    BY <1>2, HasCandidate DEF ProbeEnds
  <2>2. PICK ok \in BOOLEAN : health' = [health EXCEPT ![p] = observeProbe(@, ok, now)]
    BY <1>2, <2>1 DEF ProbeEnds
  <2> DEFINE next == observeProbe(health[p], ok, now)
  <2>3. /\ DOMAIN health' = Providers /\ health'[p] = next
        /\ \A x \in Providers : x # p => health'[x] = health[x]
    BY <2>2 DEF HealthSane
  <2>4. CASE health[p].state = "demoted"
    <3>1. Sane(health[p]) /\ Probes(health[p], ok, next)
      BY <2>4, ProbeSane DEF HealthSane
    <3> HIDE DEF next
    <3>2. HealthSane'
      BY <2>3, <3>1 DEF HealthSane, Probes
    <3>3. ASSUME NEW x \in Providers, Lifted(x) PROVE ByProbes(x)
      BY <1>2, <2>1, <2>3, <3>1, <3>3 DEF Lifted, Probes, ByProbes
    <3> QED
      BY <3>2, <3>3
  <2>5. CASE health[p].state # "demoted"
    <3>1. next = health[p]
      BY <2>5 DEF observeProbe
    <3> QED
      BY <2>3, <2>5, <3>1 DEF HealthSane, Lifted
  <2> QED
    BY <2>4, <2>5
<1>3. ASSUME NEW p \in Providers, NEW o \in Traffic, Observe(p, o)
      PROVE  HealthSane' /\ \A x \in Providers : ~Lifted(x)
  <2> DEFINE next == observe(health[p], o, now)
  <2>1. Tracks(health[p], next)
    BY ObserveSane DEF HealthSane
  <2>2. health' = [health EXCEPT ![p] = next]
    BY <1>3 DEF Observe
  <2> HIDE DEF next
  <2> QED
    BY <2>1, <2>2 DEF HealthSane, Lifted, Tracks
<1>4. ASSUME NEW r \in Replicas, Tick(r) \/ Faulty(r) \/ (Step(r) /\ ~ProbeEnds(r))
      PROVE  health' = health
  BY <1>4 DEF Tick, Faulty, Step, TickFails, LeaseFails, Restart, Forget, NotDue, AskLease,
              Leased, LeaseHeld, Send, store
<1>5. ASSUME NEW p \in Providers, ComesBack(p) PROVE health' = health
  BY <1>5 DEF ComesBack
<1>6. ASSUME UNCHANGED vars PROVE health' = health
  BY <1>6 DEF vars
<1>7. CASE \E r \in Replicas : Tick(r) \/ Step(r) \/ Faulty(r)
  BY <1>1, <1>2, <1>4, <1>7
<1>8. CASE \E p \in Providers : ComesBack(p) \/ \E o \in Traffic : Observe(p, o)
  BY <1>1, <1>3, <1>5, <1>8
<1> QED
  BY <1>1, <1>6, <1>7, <1>8, ClockSane DEF Next

\* health.ts, observe and observeProbe, whatever the leases: a demoted provider leaves that
\* state only when a gateway records a clean probe of it that completes PROBE_CLEAN in a
\* row in the store's count.  Live traffic, time, restarts and failures never lift it.
THEOREM OnlyProbesLift ==
  Spec => [][\A p \in Providers : Lifted(p) => ByProbes(p)]_vars
<1>1. IInv /\ HealthSane /\ [Next]_vars => HealthSane'
  BY NextSane
<1>2. IInv /\ HealthSane /\ [Next]_vars => [\A p \in Providers : Lifted(p) => ByProbes(p)]_vars
  BY NextSane
<1> QED
  BY <1>1, <1>2, InitInv, InitSane, NextKeepsInv, PTL DEF Spec
=============================================================================
