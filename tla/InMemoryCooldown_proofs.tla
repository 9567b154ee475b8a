---------------------- MODULE InMemoryCooldown_proofs ----------------------
(***************************************************************************)
(* Proofs about one key of InMemoryCooldownStore, for any set of requests, *)
(* any cooldown constants and a clock without bound.  The lemmas about the *)
(* rules of Cooldown come first.                                           *)
(***************************************************************************)
EXTENDS InMemoryCooldown, FiniteSetTheorems, TLAPS

\* Arming leaves a fresh entry whose probe is not taken.
LEMMA ArmedIsFresh ==
  ASSUME NEW e \in Entry \cup {NoEntry}, NEW until \in Int
  PROVE  /\ Armed(e, until) \in Entry /\ ~Armed(e, until).probeTaken
         /\ Armed(e, until).until = until
         /\ Armed(e, until).consecutive = armsInARow(e) + 1
<1>1. armsInARow(e) + 1 \in Nat
  BY DEF armsInARow, Entry
<1>2. FALSE \in BOOLEAN
  OBVIOUS
<1> QED
  BY <1>1, <1>2 DEF Armed, Entry

\* A power of two is a number of subsets.
LEMMA PowerOfTwo == ASSUME NEW n \in Nat PROVE 2 ^ n \in Nat
<1>1. IsFiniteSet(1..n) /\ Cardinality(1..n) = n
  BY FS_Interval
<1>2. IsFiniteSet(SUBSET (1..n)) /\ Cardinality(SUBSET (1..n)) = 2 ^ n
  BY <1>1, FS_SUBSET
<1> QED
  BY <1>2, FS_CardinalityType

LEMMA CapsType == maxCapForKey \in Nat /\ Cap <= maxCapForKey
BY CooldownAssumption DEF maxCapForKey

\* A failed probe's ceiling is a whole number within the key's cap, whatever the
\* arms in a row.
LEMMA CeilingType ==
  ASSUME NEW n \in Nat
  PROVE  /\ Lesser(maxCapForKey, probeCeiling(n)) \in Nat
         /\ Lesser(maxCapForKey, probeCeiling(n)) <= maxCapForKey
<1>1. n - GrowAfter \in Int
  BY CooldownAssumption
<1>2. Greater(0, n - GrowAfter) \in Nat
  BY <1>1 DEF Greater
<1>3. 2 ^ Greater(0, n - GrowAfter) \in Nat
  BY <1>2, PowerOfTwo
<1>4. Cap * 2 ^ Greater(0, n - GrowAfter) \in Nat
  <2> DEFINE power == 2 ^ Greater(0, n - GrowAfter)
  <2>1. power \in Nat
    BY <1>3
  <2> HIDE DEF power
  <2>2. Cap * power \in Nat
    BY <2>1, CooldownAssumption
  <2> QED
    BY <2>2 DEF power
<1>5. probeCeiling(n) \in Nat
  <2> DEFINE grown == Cap * 2 ^ Greater(0, n - GrowAfter)
  <2> HIDE DEF grown
  <2>1. grown \in Nat
    BY <1>4 DEF grown
  <2>2. Lesser(MaxCap, grown) \in Nat
    BY <2>1, CooldownAssumption DEF Lesser
  <2> QED
    BY <2>2 DEF grown, probeCeiling
<1> HIDE DEF probeCeiling, maxCapForKey
<1> QED
  BY <1>5, CapsType DEF Lesser

\* A jittered draw stays below the cap.
LEMMA DrawType ==
  ASSUME NEW n \in Nat, NEW d \in cooldownDraws(n)
  PROVE  d \in Int /\ 0 <= d /\ d <= maxCapForKey
<1> DEFINE power == 2 ^ Greater(0, n)
<1>1. Greater(0, n) \in Nat
  BY DEF Greater
<1>2. power \in Nat
  BY <1>1, PowerOfTwo
<1>3. d \in 0 .. (Lesser(Cap, Base * power) - 1)
  BY DEF cooldownDraws
<1> HIDE DEF power
<1>4. Base * power \in Nat
  BY <1>2, CooldownAssumption
<1>5. Lesser(Cap, Base * power) \in Int /\ Lesser(Cap, Base * power) <= Cap
  BY <1>4, CooldownAssumption DEF Lesser
<1> QED
  BY <1>3, <1>5, CapsType, CooldownAssumption

\* Every entry arm may leave is a fresh one, not yet over when the arm was
\* called, within the key's cap, and counts one more (cooldown.ts, arm).
LEMMA ArmIsFresh ==
  ASSUME NEW e \in Entry \cup {NoEntry}, NEW t \in Int, NEW next \in arm(e, t)
  PROVE  /\ next \in Entry /\ ~next.probeTaken
         /\ t <= next.until /\ next.until <= t + maxCapForKey
         /\ next.consecutive = armsInARow(e) + 1
<1>1. armsInARow(e) + 1 \in Nat
  BY DEF armsInARow, Entry
<1>2. CASE wasProbe(e, t)
  <2> DEFINE ceiling == Lesser(maxCapForKey, probeCeiling(armsInARow(e) + 1))
  <2>1. ceiling \in Nat /\ ceiling <= maxCapForKey
    BY <1>1, CeilingType
  <2>2. next = Armed(e, t + ceiling)
    BY <1>2 DEF arm
  <2> HIDE DEF ceiling
  <2>3. /\ t + ceiling \in Int /\ t <= t + ceiling
        /\ t + ceiling <= t + maxCapForKey
    BY <2>1, CapsType
  <2> QED
    BY <2>2, <2>3, ArmedIsFresh
<1>3. CASE ~wasProbe(e, t)
  <2>1. PICK d \in cooldownDraws(armsInARow(e)) : next = Armed(e, t + d)
    BY <1>3 DEF arm
  <2>2. armsInARow(e) \in Nat
    BY DEF armsInARow, Entry
  <2>3. /\ t + d \in Int /\ t <= t + d
        /\ t + d <= t + maxCapForKey
    BY <2>1, <2>2, DrawType, CapsType
  <2> QED
    BY <2>1, <2>3, ArmedIsFresh
<1> QED
  BY <1>2, <1>3

\* armFor leaves a fresh entry and counts one more too, cooling for at least a tick and at most Cap
\* (cooldown.ts, armFor: "a site asking for a week is not a reason to hold a
\* provider out for a week").
LEMMA ArmForIsFresh ==
  ASSUME NEW e \in Entry \cup {NoEntry}, NEW t \in Int, NEW ms \in Nat
  PROVE  /\ armFor(e, t, ms) \in Entry
         /\ ~armFor(e, t, ms).probeTaken
         /\ t < armFor(e, t, ms).until
         /\ armFor(e, t, ms).until <= t + Cap
         /\ armFor(e, t, ms).consecutive = armsInARow(e) + 1
<1> DEFINE until == t + Lesser(Cap, Greater(1, ms))
<1>1. until \in Int /\ t < until /\ until <= t + Cap
  BY CooldownAssumption DEF Lesser, Greater
<1> HIDE DEF until
<1>2. armFor(e, t, ms) = Armed(e, until)
  BY DEF armFor, until
<1>3. Armed(e, until).until = until
  BY DEF Armed
<1> QED
  BY <1>1, <1>2, <1>3, ArmedIsFresh

\* A claim and a release touch nothing but the probe slot.
LEMMA TakenAndReleased ==
  ASSUME NEW e \in Entry
  PROVE  /\ e # NoEntry
         /\ taken(e) = [e EXCEPT !.probeTaken = TRUE]
         /\ taken(e) \in Entry /\ taken(e).probeTaken /\ taken(e).until = e.until
         /\ released(e) = [e EXCEPT !.probeTaken = FALSE]
         /\ released(e) \in Entry /\ ~released(e).probeTaken /\ released(e).until = e.until
<1>1. e # NoEntry
  BY CooldownAssumption
<1>2. TRUE \in BOOLEAN /\ FALSE \in BOOLEAN
  OBVIOUS
<1> QED
  BY <1>1, <1>2 DEF taken, released, Entry

-----------------------------------------------------------------------------
\* A probe can only have been taken once the cooldown had run out.
TakenIsExpired ==
  (entry # NoEntry /\ entry.probeTaken) => entry.until <= now

IInv == TypeOK /\ NoStrandedProbe /\ TakenIsExpired

USE CooldownAssumption, InMemoryAssumption

LEMMA InitInv == Init => IInv
<1> SUFFICES ASSUME Init PROVE IInv
  OBVIOUS
<1>1. entry \in {NoEntry} \cup {e \in Entry : ~e.probeTaken}
  BY DEF Init
<1>2. holds \in [Requests -> BOOLEAN]
  BY DEF Init
<1>3. now \in Nat
  BY DEF Init
<1>4. pc \in [Requests -> PC]
  BY DEF Init, PC
<1>5. TypeOK
  BY <1>1, <1>2, <1>3, <1>4 DEF TypeOK, Calls, Init
<1>6. NoStrandedProbe /\ TakenIsExpired
  BY <1>1 DEF NoStrandedProbe, TakenIsExpired
<1> QED
  BY <1>5, <1>6 DEF IInv

\* Every action that ends an attempt moves one request and nothing else of pc
\* and holds.
LEMMA SettleType ==
  ASSUME TypeOK, NEW r \in Requests, Settle(r)
  PROVE  /\ now' \in Nat
         /\ pc' \in [Requests -> PC]
         /\ holds' \in [Requests -> BOOLEAN]
<1>1. now' \in Nat
  BY DEF Settle, TypeOK
<1>2. pc' \in [Requests -> PC]
  BY DEF Settle, TypeOK, PC
<1>3. holds' \in [Requests -> BOOLEAN]
  BY DEF Settle, TypeOK
<1> QED
  BY <1>1, <1>2, <1>3

\* Whoever leaves a fresh entry, or none, leaves no probe taken.
LEMMA FreshEntryKeepsInv ==
  ASSUME TypeOK, NEW r \in Requests, Settle(r), call' \in Calls,
         \/ entry' = NoEntry
         \/ entry' \in Entry /\ ~entry'.probeTaken
  PROVE  IInv'
<1>1. entry' \in Entry \cup {NoEntry}
  OBVIOUS
<1>2. TypeOK'
  BY <1>1, SettleType DEF TypeOK
<1>3. NoStrandedProbe' /\ TakenIsExpired'
  BY DEF NoStrandedProbe, TakenIsExpired
<1> QED
  BY <1>2, <1>3 DEF IInv

LEMMA CheckKeepsInv == ASSUME IInv, NEW r \in Requests, Check(r) PROVE IInv'
<1>1. PICK next \in {"attempting", "claiming", "done"} : pc' = [pc EXCEPT ![r] = next]
  BY DEF Check
<1>2. pc' \in [Requests -> PC]
  BY <1>1 DEF IInv, TypeOK, PC
<1>3. TypeOK'
  BY <1>2 DEF Check, IInv, TypeOK, Calls
<1>4. NoStrandedProbe'
  <2> SUFFICES ASSUME entry # NoEntry, entry.probeTaken
               PROVE  \E s \in Requests : pc'[s] = "attempting" /\ holds[s]
    BY DEF Check, NoStrandedProbe
  <2>1. PICK s \in Requests : pc[s] = "attempting" /\ holds[s]
    BY DEF IInv, NoStrandedProbe
  <2>2. pc[r] = "new" /\ s # r
    BY <2>1 DEF Check
  <2>3. pc'[s] = "attempting"
    BY <1>1, <2>1, <2>2 DEF IInv, TypeOK
  <2> QED
    BY <2>1, <2>3
<1>5. TakenIsExpired'
  BY DEF Check, IInv, TakenIsExpired
<1> QED
  BY <1>3, <1>4, <1>5 DEF IInv

LEMMA ClaimKeepsInv == ASSUME IInv, NEW r \in Requests, Claim(r) PROVE IInv'
<1>1. entry \in Entry \cup {NoEntry} /\ now \in Nat
  BY DEF IInv, TypeOK
<1>2. CASE claimed(entry, now)
  <2>1. /\ entry' = taken(entry)
        /\ holds' = [holds EXCEPT ![r] = TRUE]
        /\ pc' = [pc EXCEPT ![r] = "attempting"]
        /\ now' = now
    BY <1>2 DEF Claim
  <2>2. entry' \in Entry \cup {NoEntry}
    BY <1>1, <2>1, TakenAndReleased DEF taken
  <2>3. holds' \in [Requests -> BOOLEAN]
    BY <2>1 DEF IInv, TypeOK
  <2>4. pc' \in [Requests -> PC]
    BY <1>1, <2>1 DEF IInv, TypeOK, PC
  <2>5. TypeOK'
    BY <2>1, <2>2, <2>3, <2>4 DEF IInv, TypeOK, Claim, Calls
  <2>6. pc'[r] = "attempting" /\ holds'[r]
    BY <2>1 DEF IInv, TypeOK
  <2>7. NoStrandedProbe'
    BY <2>6 DEF NoStrandedProbe
  <2>8. entry # NoEntry => entry'.until <= now'
    BY <1>1, <1>2, <2>1, TakenAndReleased DEF claimed
  <2>9. TakenIsExpired'
    BY <2>1, <2>8 DEF TakenIsExpired, taken
  <2> QED
    BY <2>5, <2>7, <2>9 DEF IInv
<1>3. CASE ~claimed(entry, now)
  <2>1. /\ entry' = entry /\ holds' = holds
        /\ now' = now
        /\ pc' = [pc EXCEPT ![r] = "done"] /\ pc[r] = "claiming"
    BY <1>3 DEF Claim
  <2>2. pc' \in [Requests -> PC]
    BY <2>1 DEF IInv, TypeOK, PC
  <2>3. TypeOK' /\ TakenIsExpired'
    BY <2>1, <2>2 DEF IInv, TypeOK, TakenIsExpired, Claim, Calls
  <2>4. \A s \in Requests : pc[s] = "attempting" => pc'[s] = "attempting"
    BY <2>1 DEF IInv, TypeOK
  <2>5. NoStrandedProbe'
    BY <2>1, <2>4 DEF IInv, NoStrandedProbe
  <2> QED
    BY <2>3, <2>5 DEF IInv
<1> QED
  BY <1>2, <1>3

LEMMA ReleaseKeepsInv == ASSUME IInv, NEW r \in Requests, Release(r) PROVE IInv'
<1>1. entry \in Entry \cup {NoEntry} /\ Settle(r) /\ call' \in Calls
  BY DEF IInv, TypeOK, Release, Calls
<1>2. CASE holds[r]
  <2>1. entry' = released(entry)
    BY <1>2 DEF Release
  <2>2. entry' = NoEntry \/ (entry' \in Entry /\ ~entry'.probeTaken)
    BY <1>1, <2>1, TakenAndReleased DEF released
  <2> QED
    BY <1>1, <2>2, FreshEntryKeepsInv DEF IInv
<1>3. CASE ~holds[r]
  <2>1. entry' = entry
    BY <1>3 DEF Release
  <2>2. TypeOK'
    BY <1>1, <2>1, SettleType DEF IInv, TypeOK
  <2>3. \A s \in Requests : holds[s] => pc'[s] = pc[s] /\ holds'[s]
    BY <1>3 DEF Release, Settle, IInv, TypeOK
  <2>4. NoStrandedProbe'
    BY <2>1, <2>3 DEF IInv, NoStrandedProbe
  <2>5. TakenIsExpired'
    BY <2>1 DEF IInv, TakenIsExpired, Release, Settle
  <2> QED
    BY <2>2, <2>4, <2>5 DEF IInv
<1> QED
  BY <1>2, <1>3

\* The actions that leave a fresh entry, or none.
LEMMA ArmsKeepInv ==
  ASSUME IInv, NEW r \in Requests,
         Arm(r) \/ (\E w \in RetryAfters : ArmFor(r, w)) \/ Clear(r)
  PROVE  IInv'
<1> USE DEF IInv, TypeOK, Calls
<1>1. CASE Arm(r)
  <2>1. entry' \in arm(entry, now) /\ Settle(r) /\ call' \in Calls
    BY <1>1 DEF Arm
  <2>2. entry' \in Entry /\ ~entry'.probeTaken
    BY <2>1, ArmIsFresh
  <2> QED
    BY <2>1, <2>2, FreshEntryKeepsInv
<1>2. CASE \E w \in RetryAfters : ArmFor(r, w)
  <2>1. PICK w \in RetryAfters : ArmFor(r, w)
    BY <1>2
  <2>2. entry' = armFor(entry, now, w) /\ Settle(r) /\ call' \in Calls
    BY <2>1 DEF ArmFor
  <2>3. entry' \in Entry /\ ~entry'.probeTaken
    BY <2>2, ArmForIsFresh
  <2>4. entry'.until \in Int
    BY <2>3 DEF Entry
  <2> QED
    BY <2>2, <2>3, <2>4, FreshEntryKeepsInv
<1>3. CASE Clear(r)
  <2>1. entry' = NoEntry /\ Settle(r) /\ call' \in Calls
    BY <1>3 DEF Clear
  <2> QED
    BY <2>1, FreshEntryKeepsInv
<1> QED
  BY <1>1, <1>2, <1>3

\* The store's own sweep and the passing of time.
LEMMA EnvironmentKeepsInv == ASSUME IInv, Sweep \/ Tick PROVE IInv'
<1>1. CASE Sweep
  <2>1. TypeOK' /\ NoStrandedProbe' /\ TakenIsExpired'
    BY <1>1 DEF Sweep, IInv, TypeOK, Calls, NoStrandedProbe, TakenIsExpired
  <2> QED
    BY <2>1 DEF IInv
<1>2. CASE Tick
  <2>1. TypeOK' /\ NoStrandedProbe'
    BY <1>2 DEF Tick, IInv, TypeOK, Calls, NoStrandedProbe
  <2>2. entry \in Entry => entry.until \in Int
    BY DEF Entry
  <2>3. ASSUME entry # NoEntry, entry.probeTaken PROVE entry.until <= now + 1
    BY <2>2, <2>3 DEF IInv, TypeOK, TakenIsExpired
  <2>4. TakenIsExpired'
    BY <1>2, <2>3 DEF TakenIsExpired, Tick
  <2> QED
    BY <2>1, <2>4 DEF IInv
<1> QED
  BY <1>1, <1>2

LEMMA NextKeepsInv == IInv /\ [Next]_vars => IInv'
<1> SUFFICES ASSUME IInv, [Next]_vars PROVE IInv'
  OBVIOUS
<1>1. CASE \E r \in Requests : Step(r)
  <2>1. PICK r \in Requests : Step(r)
    BY <1>1
  <2>2. CASE Check(r)
    BY <2>2, CheckKeepsInv
  <2>3. CASE Claim(r)
    BY <2>3, ClaimKeepsInv
  <2>4. CASE Arm(r) \/ (\E w \in RetryAfters : ArmFor(r, w)) \/ Clear(r)
    BY <2>4, ArmsKeepInv
  <2>5. CASE Release(r)
    BY <2>5, ReleaseKeepsInv
  <2> QED
    BY <2>1, <2>2, <2>3, <2>4, <2>5 DEF Step
<1>2. CASE Sweep \/ Tick
  BY <1>2, EnvironmentKeepsInv
<1>3. CASE UNCHANGED vars
  BY <1>3 DEF vars, IInv, TypeOK, NoStrandedProbe, TakenIsExpired
<1> QED
  BY <1>1, <1>2, <1>3 DEF Next, Finished

LEMMA Invariance == Spec => []IInv
  BY InitInv, NextKeepsInv, PTL DEF Spec

\* The store's variables keep their types.
THEOREM Typed == Spec => []TypeOK
<1>1. IInv => TypeOK
  BY DEF IInv
<1> QED
  BY <1>1, Invariance, PTL

\* However many requests share the key, a probe that is taken is always owed by
\* one of them still under way (cooldown-store.ts, release).
THEOREM ProbeNeverStranded == Spec => []NoStrandedProbe
<1>1. IInv => NoStrandedProbe
  BY DEF IInv
<1> QED
  BY <1>1, Invariance, PTL

-----------------------------------------------------------------------------
LEMMA RefinedInit == Init => Breaker!Init
BY DEF Init, Breaker!Init

\* A claim takes the probe of a cooldown that is over, or changes nothing.
LEMMA ClaimRefines ==
  ASSUME TypeOK, NEW r \in Requests, Claim(r)
  PROVE  Breaker!Claim
<1>1. now' = now /\ call' = "claim"
  BY DEF Claim
<1>2. CASE entry' = entry
  BY <1>1, <1>2 DEF Breaker!Claim, Breaker!Calling
<1>3. CASE entry' # entry
  <2>1. entry # NoEntry /\ claimed(entry, now) /\ entry' = taken(entry)
    BY <1>3 DEF Claim, taken
  <2>2. entry \in Entry
    BY <2>1 DEF TypeOK
  <2>3. entry.until \in Int /\ now \in Nat
    BY <2>2 DEF Entry, TypeOK
  <2>4. entry.until <= now /\ ~entry.probeTaken
    BY <2>1, <2>3 DEF claimed
  <2> QED
    BY <1>1, <2>1, <2>2, <2>4, TakenAndReleased DEF Breaker!Claim, Breaker!Calling
<1> QED
  BY <1>2, <1>3

\* A release hands the probe back, or changes nothing.
LEMMA ReleaseRefines ==
  ASSUME TypeOK, NEW r \in Requests, Release(r)
  PROVE  Breaker!Release \/ Breaker!Pass
<1>1. now' = now /\ now \in Nat
  BY DEF Release, Settle, TypeOK
<1>2. CASE ~holds[r]
  BY <1>1, <1>2 DEF Release, Breaker!Pass
<1>3. CASE holds[r]
  <2>1. call' = "release" /\ entry' = released(entry)
    BY <1>3 DEF Release
  <2>2. CASE entry = NoEntry
    BY <1>1, <2>1, <2>2 DEF released, Breaker!Release, Breaker!Calling
  <2>3. CASE entry # NoEntry
    <3>1. entry \in Entry /\ entry' = [entry EXCEPT !.probeTaken = FALSE]
      BY <2>1, <2>3, TakenAndReleased DEF TypeOK
    <3>2. CASE entry.probeTaken
      BY <1>1, <2>1, <2>3, <3>1, <3>2 DEF Breaker!Release, Breaker!Calling
    <3>3. CASE ~entry.probeTaken
      <4>1. entry.probeTaken = FALSE
        BY <3>1, <3>3 DEF Entry
      <4>2. entry' = entry
        BY <3>1, <4>1 DEF Entry
      <4> QED
        BY <1>1, <2>1, <4>2 DEF Breaker!Release, Breaker!Calling
    <3> QED
      BY <3>2, <3>3
  <2> QED
    BY <2>2, <2>3
<1> QED
  BY <1>2, <1>3

\* An arm, however long the target asked for, is one refusal more and cools for
\* no longer than the key's cap.
LEMMA ArmRefines ==
  ASSUME TypeOK, NEW r \in Requests, Arm(r) \/ (\E w \in RetryAfters : ArmFor(r, w))
  PROVE  Breaker!Arm
<1>1. now' = now /\ call' = "arm"
  BY DEF Arm, ArmFor, Settle
<1>2. /\ entry \in Entry \cup {NoEntry} /\ now \in Nat
  BY DEF TypeOK
<1>3. /\ entry' \in Entry /\ ~entry'.probeTaken
      /\ entry'.consecutive = armsInARow(entry) + 1
      /\ now <= entry'.until /\ entry'.until <= now + maxCapForKey
  <2>1. CASE Arm(r)
    BY <1>2, <2>1, ArmIsFresh DEF Arm
  <2>2. CASE \E w \in RetryAfters : ArmFor(r, w)
    <3>1. PICK w \in RetryAfters : entry' = armFor(entry, now, w)
      BY <2>2 DEF ArmFor
    <3>2. w \in Nat /\ now \in Int
      BY <1>2
    <3>3. /\ entry' \in Entry /\ ~entry'.probeTaken
          /\ entry'.consecutive = armsInARow(entry) + 1
          /\ now < entry'.until /\ entry'.until <= now + Cap
      BY <1>2, <3>1, <3>2, ArmForIsFresh
    <3>4. entry'.until \in Int
      BY <3>3 DEF Entry
    <3> QED
      BY <1>2, <3>3, <3>4, CapsType
  <2> QED
    BY <2>1, <2>2
<1>4. entry' # NoEntry
  BY <1>3
<1>5. entry'.consecutive = IF entry = NoEntry THEN 1 ELSE entry.consecutive + 1
  BY <1>3 DEF armsInARow
<1>6. now - 0 <= entry'.until
  BY <1>2, <1>3 DEF Entry
<1> QED
  BY <1>1, <1>3, <1>4, <1>5, <1>6 DEF Breaker!Arm, Breaker!Calling

LEMMA RefinedNext == TypeOK /\ [Next]_vars => [Breaker!Next]_<<now, entry, call>>
<1> SUFFICES ASSUME TypeOK, [Next]_vars
             PROVE  [Breaker!Next]_<<now, entry, call>>
  OBVIOUS
<1> USE DEF Breaker!Next
<1>0. now \in Nat
  BY DEF TypeOK
<1>1. CASE \E r \in Requests : Step(r)
  <2>1. PICK r \in Requests : Step(r)
    BY <1>1
  <2>2. CASE Check(r)
    BY <1>0, <2>2 DEF Check, Breaker!Pass
  <2>3. CASE Claim(r)
    BY <2>3, ClaimRefines
  <2>4. CASE Arm(r) \/ (\E w \in RetryAfters : ArmFor(r, w))
    BY <2>4, ArmRefines
  <2>5. CASE Clear(r)
    BY <2>5 DEF Clear, Settle, Breaker!Clear, Breaker!Calling
  <2>6. CASE Release(r)
    BY <2>6, ReleaseRefines
  <2> QED
    BY <2>1, <2>2, <2>3, <2>4, <2>5, <2>6 DEF Step
<1>2. CASE Sweep
  <2>1. /\ entry # NoEntry /\ now - entry.until > Keep
        /\ entry' = NoEntry /\ call' = "none" /\ now' = now
    BY <1>2 DEF Sweep
  <2>2. entry.until \in Int
    BY <2>1 DEF TypeOK, Entry
  <2> QED
    BY <1>0, <2>1, <2>2 DEF Breaker!Pass
<1>3. CASE Tick
  BY <1>0, <1>3 DEF Tick, Breaker!Pass
<1>4. CASE UNCHANGED vars
  BY <1>4 DEF vars
<1> QED
  BY <1>1, <1>2, <1>3, <1>4 DEF Next, Finished

\* The store does to its key what the interface says of each call and no more:
\* a release leaves the cooldown and the count alone, a probe is taken only past
\* the cooldown, an arm counts one more, and what is not long over is remembered,
\* whoever calls in between (cooldown-store.ts, CooldownStore).
THEOREM KeyIsABreaker == Spec => ImplementsBreaker
BY RefinedInit, RefinedNext, Typed, PTL DEF Spec, ImplementsBreaker, Breaker!Spec, Breaker!vars
=============================================================================
