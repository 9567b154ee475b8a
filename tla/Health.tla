------------------------------- MODULE Health -------------------------------
(***************************************************************************)
(* The pure half of provider health (packages/shared/src/health.ts): a     *)
(* one-sided CUSUM of a provider's failures against its own baseline, and  *)
(* the states it drives.  The statistic is in whole units: what a baseline *)
(* is measured to be, and how far a failure lifts and a success lowers the *)
(* statistic, are tables; only their signs and order matter.               *)
(***************************************************************************)
EXTENDS Outcome, Integers, Sequences

CONSTANTS
  MIN_SAMPLES,           \* observations before the baseline is frozen
  Baselines,             \* the values p0 can take, in order
  Measured,              \* p0 by failures seen: the clamped Wilson bound
  Rise,                  \* log(p1/p0), by baseline
  Fall,                  \* -log((1-p1)/(1-p0)), by baseline
  H_DEGRADE, H_DEMOTE, H_RESET, S_CAP,
  RESET_WINDOWS, RESET_WINDOW_SAMPLES,
  DWELL_RECOVER,         \* DWELL_RECOVER_MS
  PROBE_FIRST, PROBE_MAX,  \* PROBE_FIRST_MS and PROBE_MAX_MS
  PROBE_CLEAN,
  Unmeasured             \* p0 is null

ASSUME HealthAssumption ==
  /\ MIN_SAMPLES \in Nat \ {0}
  /\ Baselines \subseteq Nat
  /\ Unmeasured \notin Baselines
  /\ Measured \in [0 .. MIN_SAMPLES -> Baselines]
  /\ Rise \in [Baselines -> Nat \ {0}]
  /\ Fall \in [Baselines -> Nat \ {0}]
  /\ H_RESET \in Nat /\ H_DEGRADE \in Nat /\ H_DEMOTE \in Nat /\ S_CAP \in Nat
  /\ H_RESET < H_DEGRADE /\ H_DEGRADE < H_DEMOTE /\ H_DEMOTE <= S_CAP
  /\ RESET_WINDOWS \in Nat \ {0} /\ RESET_WINDOW_SAMPLES \in Nat \ {0}
  /\ DWELL_RECOVER \in Nat
  /\ PROBE_FIRST \in Nat \ {0} /\ PROBE_MAX \in Nat /\ PROBE_FIRST <= PROBE_MAX
  /\ PROBE_CLEAN \in Nat \ {0}

States == {"healthy", "degraded", "demoted"}

\* HealthState.
HealthState ==
  [state : States, p0 : Baselines \cup {Unmeasured}, s : 0 .. S_CAP,
   samples : Nat, failures : Nat, cleanWindows : Nat, cleanProbes : Nat,
   enteredAt : Int]

initial(now) ==
  [state |-> "healthy", p0 |-> Unmeasured, s |-> 0, samples |-> 0, failures |-> 0,
   cleanWindows |-> 0, cleanProbes |-> 0, enteredAt |-> now]

HEALTH_SUCCESS == {"OK"}
HEALTH_FAILURE == {"PROVIDER_ERROR", "PROVIDER_DRIFT"}

healthWeight(o) ==
  CASE o \in HEALTH_SUCCESS -> "success"
    [] o \in HEALTH_FAILURE -> "failure"
    [] OTHER -> "ignore"

Clamped(n, most) == IF n < 0 THEN 0 ELSE IF n > most THEN most ELSE n

\* What one observation adds to the statistic.
increment(p0, failed) == IF failed THEN Rise[p0] ELSE -Fall[p0]

\* Bound: the two counters are compared with these and never beyond.
CountTo == IF MIN_SAMPLES > RESET_WINDOW_SAMPLES THEN MIN_SAMPLES ELSE RESET_WINDOW_SAMPLES
Counted(n) == Clamped(n, CountTo)

\* observe while the baseline is being measured: no statistic, no demotion.
Measure(prev, failed) ==
  LET samples == prev.samples + 1
      failures == prev.failures + (IF failed THEN 1 ELSE 0)
  IN  IF samples < MIN_SAMPLES
      THEN [prev EXCEPT !.samples = samples, !.failures = failures]
      ELSE [initial(prev.enteredAt) EXCEPT !.p0 = Measured[failures]]

\* A new state starts its counts from nothing.
Entered(st, state, now) ==
  [st EXCEPT !.state = state, !.samples = 0, !.failures = 0, !.cleanWindows = 0,
             !.enteredAt = now]

\* A recovery window has just closed: back to healthy, its baseline forgotten,
\* after enough clean windows in a row and long enough in degraded.
WindowClosed(st, now) ==
  LET clean == IF st.s < H_RESET THEN st.cleanWindows + 1 ELSE 0
  IN  IF clean >= RESET_WINDOWS /\ now - st.enteredAt >= DWELL_RECOVER
      THEN initial(now)
      ELSE [st EXCEPT !.samples = 0, !.failures = 0,
                      !.cleanWindows = Clamped(clean, RESET_WINDOWS)]

Track_LiftsDemoted(prev, failed, now) ==
  LET s == Clamped(prev.s + increment(prev.p0, failed), S_CAP)
      next == [prev EXCEPT !.s = s, !.samples = Counted(@ + 1)]
  IN  CASE s >= H_DEMOTE -> Entered(next, "demoted", now)
        [] s \in H_DEGRADE .. H_DEMOTE - 1 -> Entered(next, "degraded", now)
        [] OTHER -> next

\* observe once the baseline is known.  Live traffic never lifts a demoted one.
Track(prev, failed, now) ==
  LET s == Clamped(prev.s + increment(prev.p0, failed), S_CAP)
      next == [prev EXCEPT !.s = s, !.samples = Counted(@ + 1),
                           !.failures = Counted(@ + (IF failed THEN 1 ELSE 0))]
  IN  CASE prev.state = "demoted" -> next
        [] prev.state # "demoted" /\ s >= H_DEMOTE ->
             [Entered(next, "demoted", now) EXCEPT !.cleanProbes = 0]
        [] prev.state = "healthy" /\ s \in H_DEGRADE .. H_DEMOTE - 1 ->
             Entered(next, "degraded", now)
        [] prev.state = "degraded" /\ s < H_DEMOTE
             /\ prev.samples + 1 >= RESET_WINDOW_SAMPLES -> WindowClosed(next, now)
        [] OTHER -> next

observe(prev, o, now) ==
  CASE healthWeight(o) = "ignore" -> prev
    [] prev.p0 = Unmeasured /\ healthWeight(o) # "ignore" ->
         Measure(prev, healthWeight(o) = "failure")
    [] OTHER -> Track(prev, healthWeight(o) = "failure", now)

\* The only exit from demoted, and it leads to degraded, at its boundary.
observeProbe(prev, ok, now) ==
  CASE prev.state # "demoted" -> prev
    [] prev.state = "demoted" /\ ~ok -> [prev EXCEPT !.cleanProbes = 0]
    [] prev.state = "demoted" /\ ok /\ prev.cleanProbes + 1 < PROBE_CLEAN ->
         [prev EXCEPT !.cleanProbes = @ + 1]
    [] OTHER -> [Entered(prev, "degraded", now) EXCEPT !.s = H_DEGRADE, !.cleanProbes = 0]

\* Delay after the nth probe: PROBE_MULTIPLIER is two.
probeDelay(n) ==
  LET raw == PROBE_FIRST * 2 ^ (IF n < 0 THEN 0 ELSE n)
  IN  IF raw > PROBE_MAX THEN PROBE_MAX ELSE raw
=============================================================================
