-------------------------- MODULE InMemoryCooldown --------------------------
(***************************************************************************)
(* One key of InMemoryCooldownStore (apps/gateway/src/cooldown-store.ts)   *)
(* under concurrent requests.  Every store call is atomic; a request still *)
(* spans several of them, with awaits between: it reads the key, may claim *)
(* the probe, is away at the provider, then arms, clears or releases.      *)
(***************************************************************************)
EXTENDS Cooldown, FiniteSets

CONSTANTS
  Requests,       \* each is one pass of one chain over this key
  RetryAfters,    \* the waits a target may ask for
  InitialEntries, \* what earlier traffic may have left under the key
  Keep,           \* the sweep's olderThanMs
  MaxNow          \* bound: the clock stops here

ASSUME InMemoryAssumption ==
  /\ RetryAfters \subseteq Nat
  /\ InitialEntries \subseteq {NoEntry} \cup {e \in Entry : ~e.probeTaken}
  /\ Keep \in Nat
  /\ MaxNow \in Nat

VARIABLES
  now,      \* the process clock
  entry,    \* #entries.get(key), or NoEntry
  pc,       \* where each request is
  holds,    \* the request's claimedKey is this key, and is not settled
  call      \* history: the store call of the last step, "none" if it made none

vars == <<now, entry, pc, holds, call>>

PC == {"new", "claiming", "attempting", "done"}

Calls == {"none", "arm", "claim", "release", "clear"}

TypeOK ==
  /\ now \in Nat
  /\ entry \in Entry \cup {NoEntry}
  /\ pc \in [Requests -> PC]
  /\ holds \in [Requests -> BOOLEAN]
  /\ call \in Calls

Init ==
  /\ now = 0
  /\ entry \in InitialEntries
  /\ pc = [r \in Requests |-> "new"]
  /\ holds = [r \in Requests |-> FALSE]
  /\ call = "none"

\* check: one read when the chain starts.  A cooling key is skipped, unless the
\* chain forces an attempt because every provider it could use is cooling.
Check(r) ==
  /\ pc[r] = "new"
  /\ \E next \in CASE decide(entry, now) = "open" -> {"attempting"}
                  [] decide(entry, now) = "probe" -> {"claiming"}
                  [] OTHER -> {"attempting", "done"} :
       pc' = [pc EXCEPT ![r] = next]
  /\ call' = "none"
  /\ UNCHANGED <<now, entry, holds>>

\* claim, on the decision read earlier.
Claim(r) ==
  /\ pc[r] = "claiming"
  /\ IF claimed(entry, now)
     THEN /\ entry' = taken(entry)
          /\ holds' = [holds EXCEPT ![r] = TRUE]
          /\ pc' = [pc EXCEPT ![r] = "attempting"]
     ELSE /\ pc' = [pc EXCEPT ![r] = "done"]
          /\ UNCHANGED <<entry, holds>>
  /\ call' = "claim"
  /\ UNCHANGED now

\* The attempt is over and its claim, if any, is settled.
Settle(r) ==
  /\ pc' = [pc EXCEPT ![r] = "done"]
  /\ holds' = [holds EXCEPT ![r] = FALSE]
  /\ UNCHANGED now

\* Who may arm the key: an attempt on it and, for a block key, a request on a
\* stronger tier, which was refused and arms the weaker tiers without a read.
MayArm(r) == pc[r] = "attempting" \/ (pc[r] = "new" /\ Scope = "blk")

\* arm without a Retry-After.
Arm(r) ==
  /\ MayArm(r)
  /\ Settle(r)
  /\ entry' \in arm(entry, now)
  /\ call' = "arm"

\* arm with the Retry-After the target gave.
ArmFor(r, retryAfter) ==
  /\ MayArm(r)
  /\ Settle(r)
  /\ entry' = armFor(entry, now, retryAfter)
  /\ call' = "arm"

\* clear: the provider reached the target.
Clear(r) ==
  /\ pc[r] = "attempting"
  /\ Settle(r)
  /\ entry' = NoEntry
  /\ call' = "clear"

Release_Never(r) ==
  /\ pc[r] = "attempting"
  /\ Settle(r)
  /\ call' = "none"
  /\ UNCHANGED entry

\* The outcome settled nothing under this key: release what was claimed.
Release(r) ==
  /\ pc[r] = "attempting"
  /\ Settle(r)
  /\ IF holds[r]
     THEN entry' = released(entry) /\ call' = "release"
     ELSE UNCHANGED entry /\ call' = "none"

Sweep_AtOnce ==
  /\ entry # NoEntry
  /\ entry.until < now
  /\ entry' = NoEntry
  /\ call' = "none"
  /\ UNCHANGED <<now, pc, holds>>

\* sweep: forget what expired more than Keep ago, backoff exponent included.
Sweep ==
  /\ entry # NoEntry
  /\ now - entry.until > Keep
  /\ entry' = NoEntry
  /\ call' = "none"
  /\ UNCHANGED <<now, pc, holds>>

Tick ==
  /\ now < MaxNow
  /\ now' = now + 1
  /\ call' = "none"
  /\ UNCHANGED <<entry, pc, holds>>

\* Every request has returned: nothing is left to happen to the key.
Finished ==
  /\ \A r \in Requests : pc[r] = "done"
  /\ UNCHANGED vars

Step(r) ==
  \/ Check(r)
  \/ Claim(r)
  \/ Arm(r)
  \/ \E retryAfter \in RetryAfters : ArmFor(r, retryAfter)
  \/ Clear(r)
  \/ Release(r)

Next == (\E r \in Requests : Step(r)) \/ Sweep \/ Tick \/ Finished

\* A started request always ends: each provider call carries its own deadline.
Fairness == \A r \in Requests : WF_vars(pc[r] # "new" /\ Step(r))

Spec == Init /\ [][Next]_vars /\ Fairness

-----------------------------------------------------------------------------
\* A probe slot marked taken is held by a request still under way, so some
\* step will free it: claimed and never settled, the provider would be shut
\* out of every later request (cooldown-store.ts, release).
NoStrandedProbe ==
  (entry # NoEntry /\ entry.probeTaken) =>
    \E r \in Requests : pc[r] = "attempting" /\ holds[r]

\* A taken slot does become free again.
SlotComesBack ==
  (entry # NoEntry /\ entry.probeTaken) ~> (entry = NoEntry \/ ~entry.probeTaken)

\* However requests interleave on the key, each call does to it what the
\* interface says and no more: a release leaves the cooldown and the count alone,
\* a probe is taken only past the cooldown, an arm counts exactly one more, and
\* only what is long over is forgotten (cooldown-store.ts, CooldownStore).
Breaker == INSTANCE HalfOpen WITH Lag <- 0, Longest <- maxCapForKey
ImplementsBreaker == Breaker!Spec
=============================================================================
