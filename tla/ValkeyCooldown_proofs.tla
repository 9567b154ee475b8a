----------------------- MODULE ValkeyCooldown_proofs -----------------------
(***************************************************************************)
(* Proofs about one key of ValkeyCooldownStore, for any set of requests,   *)
(* any number of compare-and-set tries, any arm lag and a clock without    *)
(* bound.  The lemmas about the rules come first; InMemoryCooldown_proofs  *)
(* states the same ones, and no module can extend both stores.             *)
(***************************************************************************)
EXTENDS ValkeyCooldown, FiniteSetTheorems, TLAPS

\* Arming leaves a fresh entry whose probe is not taken.
LEMMA ArmedIsFresh ==
  ASSUME NEW e \in Entry \cup {NoEntry}, NEW until \in Int
  PROVE  /\ Armed(e, until) \in Entry /\ ~Armed(e, until).probeTaken
         /\ Armed(e, until).until = until
         /\ Armed(e, until).consecutive = armsInARow(e) + 1
<1>1. armsInARow(e) + 1 \in Nat
  BY DEF armsInARow, Entry
<1>2. FALSE \in BOOLEAN
  OBVIOUS
<1> QED
  BY <1>1, <1>2 DEF Armed, Entry

\* A power of two is a number of subsets.
LEMMA PowerOfTwo == ASSUME NEW n \in Nat PROVE 2 ^ n \in Nat
<1>1. IsFiniteSet(1..n) /\ Cardinality(1..n) = n
  BY FS_Interval
<1>2. IsFiniteSet(SUBSET (1..n)) /\ Cardinality(SUBSET (1..n)) = 2 ^ n
  BY <1>1, FS_SUBSET
<1> QED
  BY <1>2, FS_CardinalityType

LEMMA CapsType == maxCapForKey \in Nat /\ Cap <= maxCapForKey
BY CooldownAssumption DEF maxCapForKey

\* A failed probe's ceiling is a whole number within the key's cap, whatever the
\* arms in a row.
LEMMA CeilingType ==
  ASSUME NEW n \in Nat
  PROVE  /\ Lesser(maxCapForKey, probeCeiling(n)) \in Nat
         /\ Lesser(maxCapForKey, probeCeiling(n)) <= maxCapForKey
<1>1. n - GrowAfter \in Int
  BY CooldownAssumption
<1>2. Greater(0, n - GrowAfter) \in Nat
  BY <1>1 DEF Greater
<1>3. 2 ^ Greater(0, n - GrowAfter) \in Nat
  BY <1>2, PowerOfTwo
<1>4. Cap * 2 ^ Greater(0, n - GrowAfter) \in Nat
  <2> DEFINE power == 2 ^ Greater(0, n - GrowAfter)
  <2>1. power \in Nat
    BY <1>3
  <2> HIDE DEF power
  <2>2. Cap * power \in Nat
    BY <2>1, CooldownAssumption
  <2> QED
    BY <2>2 DEF power
<1>5. probeCeiling(n) \in Nat
  <2> DEFINE grown == Cap * 2 ^ Greater(0, n - GrowAfter)
  <2> HIDE DEF grown
  <2>1. grown \in Nat
    BY <1>4 DEF grown
  <2>2. Lesser(MaxCap, grown) \in Nat
    BY <2>1, CooldownAssumption DEF Lesser
  <2> QED
    BY <2>2 DEF grown, probeCeiling
<1> HIDE DEF probeCeiling, maxCapForKey
<1> QED
  BY <1>5, CapsType DEF Lesser

\* A jittered draw stays below the cap.
LEMMA DrawType ==
  ASSUME NEW n \in Nat, NEW d \in cooldownDraws(n)
  PROVE  d \in Int /\ 0 <= d /\ d <= maxCapForKey
<1> DEFINE power == 2 ^ Greater(0, n)
<1>1. Greater(0, n) \in Nat
  BY DEF Greater
<1>2. power \in Nat
  BY <1>1, PowerOfTwo
<1>3. d \in 0 .. (Lesser(Cap, Base * power) - 1)
  BY DEF cooldownDraws
<1> HIDE DEF power
<1>4. Base * power \in Nat
  BY <1>2, CooldownAssumption
<1>5. Lesser(Cap, Base * power) \in Int /\ Lesser(Cap, Base * power) <= Cap
  BY <1>4, CooldownAssumption DEF Lesser
<1> QED
  BY <1>3, <1>5, CapsType, CooldownAssumption

\* Every entry arm may leave is a fresh one, not yet over when the arm was
\* called, within the key's cap, and counts one more (cooldown.ts, arm).
LEMMA ArmIsFresh ==
  ASSUME NEW e \in Entry \cup {NoEntry}, NEW t \in Int, NEW next \in arm(e, t)
  PROVE  /\ next \in Entry /\ ~next.probeTaken
         /\ t <= next.until /\ next.until <= t + maxCapForKey
         /\ next.consecutive = armsInARow(e) + 1
<1>1. armsInARow(e) + 1 \in Nat
  BY DEF armsInARow, Entry
<1>2. CASE wasProbe(e, t)
  <2> DEFINE ceiling == Lesser(maxCapForKey, probeCeiling(armsInARow(e) + 1))
  <2>1. ceiling \in Nat /\ ceiling <= maxCapForKey
    BY <1>1, CeilingType
  <2>2. next = Armed(e, t + ceiling)
    BY <1>2 DEF arm
  <2> HIDE DEF ceiling
  <2>3. /\ t + ceiling \in Int /\ t <= t + ceiling
        /\ t + ceiling <= t + maxCapForKey
    BY <2>1, CapsType
  <2> QED
    BY <2>2, <2>3, ArmedIsFresh
<1>3. CASE ~wasProbe(e, t)
  <2>1. PICK d \in cooldownDraws(armsInARow(e)) : next = Armed(e, t + d)
    BY <1>3 DEF arm
  <2>2. armsInARow(e) \in Nat
    BY DEF armsInARow, Entry
  <2>3. /\ t + d \in Int /\ t <= t + d
        /\ t + d <= t + maxCapForKey
    BY <2>1, <2>2, DrawType, CapsType
  <2> QED
    BY <2>1, <2>3, ArmedIsFresh
<1> QED
  BY <1>2, <1>3

\* armFor leaves a fresh entry and counts one more too, cooling for at least a tick and at most Cap
\* (cooldown.ts, armFor: "a site asking for a week is not a reason to hold a
\* provider out for a week").
LEMMA ArmForIsFresh ==
  ASSUME NEW e \in Entry \cup {NoEntry}, NEW t \in Int, NEW ms \in Nat
  PROVE  /\ armFor(e, t, ms) \in Entry
         /\ ~armFor(e, t, ms).probeTaken
         /\ t < armFor(e, t, ms).until
         /\ armFor(e, t, ms).until <= t + Cap
         /\ armFor(e, t, ms).consecutive = armsInARow(e) + 1
<1> DEFINE until == t + Lesser(Cap, Greater(1, ms))
<1>1. until \in Int /\ t < until /\ until <= t + Cap
  BY CooldownAssumption DEF Lesser, Greater
<1> HIDE DEF until
<1>2. armFor(e, t, ms) = Armed(e, until)
  BY DEF armFor, until
<1>3. Armed(e, until).until = until
  BY DEF Armed
<1> QED
  BY <1>1, <1>2, <1>3, ArmedIsFresh

\* A claim and a release touch nothing but the probe slot.
LEMMA TakenAndReleased ==
  ASSUME NEW e \in Entry
  PROVE  /\ e # NoEntry
         /\ taken(e) = [e EXCEPT !.probeTaken = TRUE]
         /\ taken(e) \in Entry /\ taken(e).probeTaken /\ taken(e).until = e.until
         /\ released(e) = [e EXCEPT !.probeTaken = FALSE]
         /\ released(e) \in Entry /\ ~released(e).probeTaken /\ released(e).until = e.until
<1>1. e # NoEntry
  BY CooldownAssumption
<1>2. TRUE \in BOOLEAN /\ FALSE \in BOOLEAN
  OBVIOUS
<1> QED
  BY <1>1, <1>2 DEF taken, released, Entry

-----------------------------------------------------------------------------
USE CooldownAssumption, ValkeyAssumption

LEMMA InitTyped == Init => TypeOK
<1> SUFFICES ASSUME Init PROVE TypeOK
  OBVIOUS
<1>1. entry \in {NoEntry} \cup {e \in Entry : ~e.probeTaken}
  BY DEF Init
<1>2. armsInARow(entry) \in Nat
  BY <1>1 DEF armsInARow, Entry
<1>3. expires \in Int \cup {Never}
  <2>1. entry # NoEntry => entry.until \in Int
    BY <1>1 DEF Entry
  <2> QED
    BY <2>1 DEF Init
<1>4. holds \in [Requests -> BOOLEAN]
  BY DEF Init
<1>5. pc \in [Requests -> PC]
  BY DEF Init, PC
<1>6. /\ now \in Nat /\ losses \in Nat /\ call \in Calls
      /\ armAt \in [Requests -> Nat]
      /\ wait \in [Requests -> RetryAfters \cup {NoRetryAfter}]
      /\ read \in [Requests -> Entry \cup {NoEntry}]
      /\ tries \in [Requests -> Nat]
  BY DEF Init, Calls
<1> QED
  BY <1>1, <1>3, <1>4, <1>5, <1>6 DEF TypeOK

\* What an arm writes: a fresh entry that counts one more than the record read and
\* was not over when the arm was called, with an expiry to come.
LEMMA WriteType ==
  ASSUME TypeOK, NEW r \in Requests, Write(r)
  PROVE  /\ entry' \in Entry /\ ~entry'.probeTaken
         /\ armAt[r] <= entry'.until /\ entry'.until <= armAt[r] + maxCapForKey
         /\ entry'.consecutive = armsInARow(read[r]) + 1
         /\ expires' \in Int
         /\ expires' = now + (entry'.until - armAt[r]) + Grace
         /\ call' = "arm"
<1>1. read[r] \in Entry \cup {NoEntry} /\ armAt[r] \in Nat
      /\ wait[r] \in RetryAfters \cup {NoRetryAfter}
  BY DEF TypeOK
<1>2. entry' \in ToWrite(r)
  BY DEF Write
<1>3. /\ entry' \in Entry /\ ~entry'.probeTaken
      /\ armAt[r] <= entry'.until /\ entry'.until <= armAt[r] + maxCapForKey
      /\ entry'.consecutive = armsInARow(read[r]) + 1
  <2>1. CASE wait[r] = NoRetryAfter
    <3>1. entry' \in arm(read[r], armAt[r])
      BY <1>2, <2>1 DEF ToWrite
    <3> QED
      BY <1>1, <3>1, ArmIsFresh
  <2>2. CASE wait[r] # NoRetryAfter
    <3> DEFINE next == armFor(read[r], armAt[r], wait[r])
    <3>1. entry' = next /\ wait[r] \in Nat
      BY <1>1, <1>2, <2>2 DEF ToWrite
    <3>2. /\ next \in Entry /\ ~next.probeTaken /\ armAt[r] < next.until
          /\ next.until <= armAt[r] + Cap
          /\ next.consecutive = armsInARow(read[r]) + 1
      <4>1. read[r] \in Entry \cup {NoEntry} /\ armAt[r] \in Int /\ wait[r] \in Nat
        BY <1>1, <3>1
      <4> QED
        BY <4>1, ArmForIsFresh
    <3> HIDE DEF next
    <3>3. entry'.until \in Int
      BY <3>1, <3>2 DEF Entry
    <3> QED
      BY <1>1, <3>1, <3>2, <3>3, CapsType
  <2> QED
    BY <2>1, <2>2
<1>4. entry'.until \in Int /\ now \in Nat
  BY <1>3 DEF Entry, TypeOK
<1>5. expires' = now + Greater(1, entry'.until - armAt[r] + Grace) /\ call' = "arm"
  BY DEF Write
<1>6. expires' \in Int /\ expires' = now + (entry'.until - armAt[r]) + Grace
  BY <1>1, <1>3, <1>4, <1>5 DEF Greater
<1> QED
  BY <1>3, <1>5, <1>6

LEMMA TryAgainType ==
  ASSUME TypeOK, NEW r \in Requests, TryAgain(r)
  PROVE  pc' \in [Requests -> PC] /\ tries' \in [Requests -> Nat]
<1>1. tries' \in [Requests -> Nat]
  BY DEF TryAgain, TypeOK
<1>2. pc' \in [Requests -> PC]
  <2>1. (IF tries[r] + 1 < Attempts THEN "reading" ELSE "done") \in PC
    BY DEF PC
  <2> QED
    BY <2>1 DEF TryAgain, TypeOK
<1> QED
  BY <1>1, <1>2

LEMMA StepTyped == ASSUME TypeOK, NEW r \in Requests, Step(r) PROVE TypeOK'
<1>0. losses' = losses
  BY DEF Step
<1> USE <1>0 DEF Calls, Kept, Take
<1>1. CASE Check(r)
  <2>1. PICK next \in {"attempting", "claiming", "done"} : pc' = [pc EXCEPT ![r] = next]
    BY <1>1 DEF Check
  <2>2. pc' \in [Requests -> PC]
    BY <2>1 DEF TypeOK, PC
  <2> QED
    BY <1>1, <2>2 DEF Check, TypeOK, task
<1>2. CASE Claim(r)
  <2>1. entry' \in Entry \cup {NoEntry}
    <3>1. entry \in Entry \cup {NoEntry} /\ (entry' = taken(entry) \/ entry' = entry)
      BY <1>2 DEF Claim, TypeOK
    <3> QED
      BY <3>1, TakenAndReleased DEF taken
  <2>2. pc' \in [Requests -> PC]
    BY <1>2 DEF Claim, Granted, Refused, TypeOK, PC
  <2>3. holds' \in [Requests -> BOOLEAN]
    BY <1>2 DEF Claim, Granted, Refused, TypeOK
  <2> QED
    BY <1>2, <2>1, <2>2, <2>3 DEF Claim, TypeOK, task
<1>3. CASE Arm(r)
  <2>1. pc' \in [Requests -> PC]
    BY <1>3 DEF Arm, TypeOK, PC
  <2>2. holds' \in [Requests -> BOOLEAN]
    BY <1>3 DEF Arm, TypeOK
  <2>3. /\ armAt' \in [Requests -> Nat]
        /\ wait' \in [Requests -> RetryAfters \cup {NoRetryAfter}]
    BY <1>3 DEF Arm, TypeOK
  <2> QED
    BY <1>3, <2>1, <2>2, <2>3 DEF Arm, TypeOK
<1>4. CASE ArmRead(r)
  <2>1. pc' \in [Requests -> PC]
    BY <1>4 DEF ArmRead, TypeOK, PC
  <2>2. read' \in [Requests -> Entry \cup {NoEntry}]
    BY <1>4 DEF ArmRead, TypeOK
  <2> QED
    BY <1>4, <2>1, <2>2 DEF ArmRead, TypeOK
<1>5. CASE ArmSwap(r)
  <2>1. CASE entry = read[r]
    <3>1. Write(r) /\ pc' = [pc EXCEPT ![r] = "done"] /\ tries' = tries
      BY <1>5, <2>1 DEF ArmSwap
    <3>2. pc' \in [Requests -> PC]
      BY <3>1 DEF TypeOK, PC
    <3> QED
      BY <1>5, <3>1, <3>2, WriteType DEF ArmSwap, TypeOK
  <2>2. CASE entry # read[r]
    <3>1. TryAgain(r) /\ entry' = entry /\ expires' = expires /\ call' = "none"
      BY <1>5, <2>2 DEF ArmSwap
    <3> QED
      BY <1>5, <3>1, TryAgainType DEF ArmSwap, TypeOK
  <2> QED
    BY <2>1, <2>2
<1>6. CASE Clear(r) \/ Release(r)
  <2>1. Settle(r)
    BY <1>6 DEF Clear, Release
  <2>2. pc' \in [Requests -> PC]
    BY <2>1 DEF Settle, TypeOK, PC
  <2>3. holds' \in [Requests -> BOOLEAN]
    BY <2>1 DEF Settle, TypeOK
  <2>4. entry' \in Entry \cup {NoEntry}
    <3>1. /\ entry \in Entry \cup {NoEntry}
          /\ entry' = NoEntry \/ entry' = entry \/ entry' = released(entry)
      BY <1>6 DEF Clear, Release, TypeOK
    <3> QED
      BY <3>1, TakenAndReleased DEF released
  <2>5. expires' \in Int \cup {Never} /\ call' \in Calls
    BY <1>6 DEF Clear, Release, TypeOK
  <2> QED
    BY <2>1, <2>2, <2>3, <2>4, <2>5 DEF Settle, TypeOK, task
<1> QED
  BY <1>1, <1>2, <1>3, <1>4, <1>5, <1>6 DEF Step

LEMMA LossTyped == ASSUME TypeOK, NEW r \in Requests, Loss(r) PROVE TypeOK'
<1>0. losses' \in Nat
  BY DEF Loss, TypeOK
<1> USE <1>0 DEF Calls, Kept, Take
<1>1. CASE ClaimLost(r)
  <2>1. entry' \in Entry \cup {NoEntry}
    <3>1. entry \in Entry \cup {NoEntry} /\ (entry' = taken(entry) \/ entry' = entry)
      BY <1>1 DEF ClaimLost, TypeOK
    <3> QED
      BY <3>1, TakenAndReleased DEF taken
  <2>2. pc' \in [Requests -> PC]
    BY <1>1 DEF ClaimLost, Granted, Refused, TypeOK, PC
  <2>3. holds' \in [Requests -> BOOLEAN]
    BY <1>1 DEF ClaimLost, Granted, Refused, TypeOK
  <2> QED
    BY <1>1, <2>1, <2>2, <2>3 DEF ClaimLost, TypeOK, task
<1>2. CASE ArmLost(r)
  <2>1. CASE /\ pc' = [pc EXCEPT ![r] = "done"] /\ call' = "none"
             /\ UNCHANGED <<entry, expires, tries>>
    <3>1. pc' \in [Requests -> PC]
      BY <2>1 DEF TypeOK, PC
    <3> QED
      BY <1>2, <2>1, <3>1 DEF ArmLost, TypeOK
  <2>2. CASE Write(r) /\ TryAgain(r)
    BY <1>2, <2>2, WriteType, TryAgainType DEF ArmLost, TypeOK
  <2> QED
    BY <1>2, <2>1, <2>2 DEF ArmLost
<1>3. CASE SettleLost(r)
  <2>1. Settle(r) /\ entry' = entry /\ expires' = expires /\ call' = "none"
    BY <1>3 DEF SettleLost
  <2>2. pc' \in [Requests -> PC]
    BY <2>1 DEF Settle, TypeOK, PC
  <2>3. holds' \in [Requests -> BOOLEAN]
    BY <2>1 DEF Settle, TypeOK
  <2> QED
    BY <2>1, <2>2, <2>3 DEF Settle, TypeOK, task
<1> QED
  BY <1>1, <1>2, <1>3 DEF Loss

LEMMA NextTyped == TypeOK /\ [Next]_vars => TypeOK'
<1> SUFFICES ASSUME TypeOK, [Next]_vars PROVE TypeOK'
  OBVIOUS
<1>1. CASE \E r \in Requests : Step(r) \/ Loss(r)
  BY <1>1, StepTyped, LossTyped
<1>2. CASE Tick
  BY <1>2 DEF Tick, TypeOK, Calls, task
<1>3. CASE UNCHANGED vars
  BY <1>3 DEF vars, task, TypeOK
<1> QED
  BY <1>1, <1>2, <1>3 DEF Next, Finished

\* valkey.ts, claim, arm, clear and release: for every number of gateways, tries and losses,
\* the record in Valkey is none or whole, and what each request and each arm task in the
\* background has read and will write keeps its type.
THEOREM ValkeyTyped == Spec => []TypeOK
  BY InitTyped, NextTyped, PTL DEF Spec

-----------------------------------------------------------------------------
\* Request s will settle the slot: it holds the claim, or its arm task has yet
\* to read the record, or the task's swap is still sure to succeed.  A task that
\* read an older record will not do: its swap may fail for the last time.
Owes(s) ==
  \/ pc[s] = "attempting" /\ holds[s]
  \/ pc[s] = "reading"
  \/ pc[s] = "swapping" /\ read[s] = entry

SlotOwed == losses = 0 /\ entry # NoEntry /\ entry.probeTaken => \E s \in Requests : Owes(s)

\* A step of one request that leaves the entry as it was leaves whoever owes the
\* slot owing it, so long as that one still does.
LEMMA StillOwed ==
  ASSUME SlotOwed, entry' = entry, losses' = losses, NEW r \in Requests, Owes(r) => Owes(r)',
         \A s \in Requests \ {r} :
           pc'[s] = pc[s] /\ holds'[s] = holds[s] /\ read'[s] = read[s]
  PROVE  SlotOwed'
<1> SUFFICES ASSUME losses = 0, entry # NoEntry, entry.probeTaken
             PROVE  \E s \in Requests : Owes(s)'
  BY DEF SlotOwed
<1>1. PICK s \in Requests : Owes(s)
  BY DEF SlotOwed
<1>2. CASE s = r
  BY <1>1, <1>2
<1>3. CASE s # r
  BY <1>1, <1>3 DEF Owes
<1> QED
  BY <1>2, <1>3

LEMMA StepKeepsSlotOwed ==
  ASSUME TypeOK, SlotOwed, NEW r \in Requests, Step(r)
  PROVE  SlotOwed'
<1>0. losses' = losses
  BY DEF Step
<1> USE <1>0 DEF TypeOK
<1>1. CASE Check(r)
  <2>1. PICK next : pc' = [pc EXCEPT ![r] = next]
    BY <1>1 DEF Check
  <2>2. ~Owes(r)
    BY <1>1 DEF Check, Owes
  <2> QED
    BY <1>1, <2>1, <2>2, StillOwed DEF Check, task
<1>2. CASE Claim(r)
  <2>1. CASE claimed(entry, now)
    <3>1. pc' = [pc EXCEPT ![r] = "attempting"] /\ holds' = [holds EXCEPT ![r] = TRUE]
      BY <1>2, <2>1 DEF Claim, Granted
    <3>2. pc'[r] = "attempting" /\ holds'[r]
      BY <3>1
    <3> QED
      BY <3>2 DEF SlotOwed, Owes
  <2>2. CASE ~claimed(entry, now)
    <3>1. pc' = [pc EXCEPT ![r] = "done"] /\ holds' = holds /\ entry' = entry /\ read' = read
      BY <1>2, <2>2 DEF Claim, Refused, task
    <3>2. ~Owes(r)
      BY <1>2 DEF Claim, Owes
    <3> QED
      BY <3>1, <3>2, StillOwed
  <2> QED
    BY <2>1, <2>2
<1>3. CASE Arm(r)
  <2>1. Owes(r)'
    BY <1>3 DEF Arm, Owes
  <2> QED
    BY <2>1 DEF SlotOwed
<1>4. CASE ArmRead(r)
  <2>1. pc'[r] = "swapping" /\ read'[r] = entry /\ entry' = entry
    BY <1>4 DEF ArmRead
  <2>2. Owes(r)'
    BY <2>1 DEF Owes
  <2> QED
    BY <2>2 DEF SlotOwed
<1>5. CASE ArmSwap(r)
  <2>1. CASE entry = read[r]
    <3>1. ~entry'.probeTaken
      BY <1>5, <2>1, WriteType DEF ArmSwap
    <3> QED
      BY <3>1 DEF SlotOwed
  <2>2. CASE entry # read[r]
    <3>1. ~Owes(r)
      BY <1>5, <2>2 DEF ArmSwap, Owes
    <3>2. PICK next : pc' = [pc EXCEPT ![r] = next]
      BY <1>5, <2>2 DEF ArmSwap, TryAgain
    <3>3. entry' = entry /\ holds' = holds /\ read' = read
      BY <1>5, <2>2 DEF ArmSwap
    <3> QED
      BY <3>1, <3>2, <3>3, StillOwed
  <2> QED
    BY <2>1, <2>2
<1>6. CASE Clear(r)
  BY <1>6 DEF Clear, SlotOwed
<1>7. CASE Release(r)
  <2>1. CASE holds[r]
    <3>1. CASE entry # NoEntry /\ entry.probeTaken
      <4>1. entry' = released(entry) /\ entry \in Entry
        BY <1>7, <2>1, <3>1 DEF Release
      <4> QED
        BY <4>1, TakenAndReleased DEF SlotOwed
    <3>2. CASE ~(entry # NoEntry /\ entry.probeTaken)
      <4>1. entry' = entry
        BY <1>7, <2>1, <3>2 DEF Release
      <4> QED
        BY <3>2, <4>1 DEF SlotOwed
    <3> QED
      BY <3>1, <3>2
  <2>2. CASE ~holds[r]
    <3>1. entry' = entry /\ pc[r] = "attempting"
      BY <1>7, <2>2 DEF Release, Settle
    <3>2. ~Owes(r)
      BY <2>2, <3>1 DEF Owes
    <3>3. /\ pc' = [pc EXCEPT ![r] = "done"] /\ holds' = [holds EXCEPT ![r] = FALSE]
          /\ read' = read
      BY <1>7 DEF Release, Settle, task
    <3> QED
      BY <3>1, <3>2, <3>3, StillOwed
  <2> QED
    BY <2>1, <2>2
<1> QED
  BY <1>1, <1>2, <1>3, <1>4, <1>5, <1>6, <1>7 DEF Step

\* With no command lost, a probe that is taken is always owed by some request or
\* arm task, however their commands interleave on the server: settling a claim
\* before the write that does it strands nothing (valkey.ts, arm and release).
THEOREM ProbeNeverStranded == Spec => []NoStrandedProbe
<1>1. Init => SlotOwed
  <2> SUFFICES ASSUME Init PROVE SlotOwed
    OBVIOUS
  <2>1. entry \in {NoEntry} \cup {e \in Entry : ~e.probeTaken}
    BY DEF Init
  <2> QED
    BY <2>1 DEF SlotOwed
<1>2. TypeOK /\ SlotOwed /\ [Next]_vars => SlotOwed'
  <2> SUFFICES ASSUME TypeOK, SlotOwed, [Next]_vars PROVE SlotOwed'
    OBVIOUS
  <2>1. CASE \E r \in Requests : Step(r)
    BY <2>1, StepKeepsSlotOwed
  <2>2. CASE \E r \in Requests : Loss(r)
    BY <2>2 DEF Loss, TypeOK, SlotOwed
  <2>3. CASE Tick
    BY <2>3 DEF Tick, SlotOwed, Owes, task
  <2>4. CASE UNCHANGED vars
    BY <2>4 DEF vars, task, SlotOwed, Owes
  <2> QED
    BY <2>1, <2>2, <2>3, <2>4 DEF Next, Finished
<1>3. SlotOwed => NoStrandedProbe
  BY DEF SlotOwed, Owes, NoStrandedProbe
<1> QED
  BY <1>1, <1>2, <1>3, ValkeyTyped, PTL DEF Spec

-----------------------------------------------------------------------------
\* Only an arm task's swap moves its request on and writes at once, and the swap
\* writes over the very record it read.
LEMMA SwapCountsOneMore ==
  ASSUME TypeOK, [Next]_vars, NEW r \in Requests,
         pc[r] = "swapping", pc'[r] # pc[r], entry' # entry
  PROVE  entry'.consecutive = armsInARow(entry) + 1
<1>1. PICK q \in Requests : Step(q) \/ Loss(q)
  BY DEF Next, Tick, Finished, vars
<1>2. \A s \in Requests \ {q} : pc'[s] = pc[s]
  <2>1. CASE Step(q)
    BY <2>1 DEF TypeOK, Step, Check, Claim, Granted, Refused, Arm, ArmRead, ArmSwap, TryAgain,
                Clear, Release, Settle
  <2>2. CASE Loss(q)
    BY <2>2 DEF TypeOK, Loss, ClaimLost, Granted, Refused, ArmLost, TryAgain, SettleLost, Settle
  <2> QED
    BY <1>1, <2>1, <2>2
<1>3. q = r
  BY <1>2
<1>4. ArmSwap(r) \/ ArmLost(r)
  BY <1>1, <1>3 DEF Step, Check, Claim, Arm, ArmRead, Clear, Release, Settle,
                    Loss, ClaimLost, SettleLost
<1>5. entry = read[r] /\ Write(r)
  BY <1>4 DEF ArmSwap, ArmLost
<1> QED
  BY <1>5, WriteType

\* However the tasks of every gateway interleave and whatever is lost, no arm is
\* written over another, so the exponent counts every one (valkey.ts, CAS).
THEOREM NoArmIsLost == Spec => NoLostArm
<1>1. TypeOK /\ [Next]_vars =>
        [\A r \in Requests :
           pc[r] = "swapping" /\ pc'[r] # pc[r] /\ entry' # entry
             => entry'.consecutive = armsInARow(entry) + 1]_vars
  BY SwapCountsOneMore
<1> QED
  BY <1>1, ValkeyTyped, PTL DEF Spec, NoLostArm

-----------------------------------------------------------------------------
\* A record and its expiry: while it has one it is there until then, and that is
\* the grace and at most an arm's lag after its cooldown; and a probe is taken
\* only once the cooldown is over.
Recorded ==
  entry # NoEntry =>
    /\ expires # Never =>
         /\ now <= expires
         /\ entry.until + Grace <= expires
         /\ expires <= entry.until + Grace + ArmLag
    /\ entry.probeTaken => entry.until <= now

\* The bound on an arm's lag.
TasksRecent ==
  \A r \in Requests :
    pc[r] \in {"reading", "swapping"} => armAt[r] <= now /\ now <= armAt[r] + ArmLag

IInv == TypeOK /\ TasksRecent /\ Recorded

LEMMA InitInv == Init => IInv
<1> SUFFICES ASSUME Init PROVE IInv
  OBVIOUS
<1>1. TypeOK
  BY InitTyped
<1>2. TasksRecent
  BY DEF Init, TasksRecent
<1>3. Recorded
  <2> SUFFICES ASSUME entry # NoEntry PROVE Recorded
    BY DEF Recorded
  <2>1. entry \in Entry /\ ~entry.probeTaken /\ 0 <= entry.until + Grace
    BY DEF Init
  <2>2. entry.until \in Int /\ now = 0 /\ expires = entry.until + Grace
    BY <2>1 DEF Entry, Init
  <2> QED
    BY <2>1, <2>2 DEF Recorded
<1> QED
  BY <1>1, <1>2, <1>3 DEF IInv

\* What a request does to the record, lost commands and replies included, and the
\* call it amounts to.
RecordStep(r) ==
  \/ entry' = entry /\ expires' = expires /\ call' \in {"none", "claim", "release"}
  \/ entry' = NoEntry /\ call' = "clear"
  \/ /\ entry # NoEntry /\ entry.probeTaken
     /\ entry' = released(entry) /\ expires' = Kept /\ call' = "release"
  \/ /\ entry # NoEntry /\ claimed(entry, now)
     /\ entry' = taken(entry) /\ expires' = Kept /\ call' = "claim"
  \/ pc[r] = "swapping" /\ entry = read[r] /\ Write(r)

LEMMA RequestsStep ==
  ASSUME TypeOK, NEW r \in Requests, Step(r) \/ Loss(r)
  PROVE  /\ RecordStep(r) /\ now' = now
         /\ \A s \in Requests :
              pc'[s] \in {"reading", "swapping"} =>
                \/ armAt'[s] = now
                \/ pc[s] \in {"reading", "swapping"} /\ armAt'[s] = armAt[s]
<1> USE DEF TypeOK, RecordStep
<1>1. CASE Check(r)
  BY <1>1 DEF Check, task
<1>2. CASE Claim(r) \/ ClaimLost(r)
  BY <1>2 DEF Claim, ClaimLost, Take, taken, Granted, Refused, task
<1>3. CASE Arm(r)
  BY <1>3 DEF Arm
<1>4. CASE ArmRead(r)
  BY <1>4 DEF ArmRead
<1>5. CASE ArmSwap(r) \/ ArmLost(r)
  BY <1>5 DEF ArmSwap, ArmLost, TryAgain
<1>6. CASE Clear(r) \/ Release(r) \/ SettleLost(r)
  BY <1>6 DEF Clear, Release, SettleLost, Settle, task
<1> QED
  BY <1>1, <1>2, <1>3, <1>4, <1>5, <1>6 DEF Step, Loss

LEMMA RecordStepKeepsRecord ==
  ASSUME IInv, NEW r \in Requests, RecordStep(r), now' = now
  PROVE  Recorded'
<1> SUFFICES ASSUME entry' # NoEntry PROVE Recorded'
  BY DEF Recorded
<1>0. now \in Nat /\ entry \in Entry \cup {NoEntry} /\ expires \in Int \cup {Never}
  BY DEF IInv, TypeOK
<1>1. CASE entry' = entry /\ expires' = expires
  BY <1>1 DEF IInv, Recorded
<1>2. CASE /\ entry # NoEntry /\ expires' = Kept
           /\ \/ entry.probeTaken /\ entry' = released(entry)
              \/ claimed(entry, now) /\ entry' = taken(entry)
  <2>1. entry \in Entry /\ entry.until \in Int
    BY <1>0, <1>2 DEF Entry
  <2>2. entry'.until = entry.until
    BY <1>2, <2>1, TakenAndReleased
  <2>3. entry'.probeTaken => entry.until <= now
    BY <1>0, <1>2, <2>1, TakenAndReleased DEF claimed
  <2>4. expires' # Never => expires' = expires /\ expires # Never
    BY <1>2 DEF Kept
  <2> QED
    BY <1>2, <2>2, <2>3, <2>4 DEF IInv, Recorded
<1>3. CASE pc[r] = "swapping" /\ Write(r)
  <2>1. /\ entry' \in Entry /\ ~entry'.probeTaken /\ armAt[r] <= entry'.until
        /\ expires' \in Int /\ expires' = now + (entry'.until - armAt[r]) + Grace
    BY <1>3, WriteType DEF IInv
  <2>2. entry'.until \in Int /\ armAt[r] \in Nat
    BY <2>1 DEF Entry, IInv, TypeOK
  <2>3. armAt[r] <= now /\ now <= armAt[r] + ArmLag
    BY <1>3 DEF IInv, TasksRecent
  <2>4. /\ now <= expires' /\ entry'.until + Grace <= expires'
        /\ expires' <= entry'.until + Grace + ArmLag
    BY <1>0, <2>1, <2>2, <2>3
  <2> QED
    BY <2>1, <2>4 DEF Recorded
<1> QED
  BY <1>1, <1>2, <1>3 DEF RecordStep

LEMMA NextInv == IInv /\ [Next]_vars => IInv'
<1> SUFFICES ASSUME IInv, [Next]_vars PROVE IInv'
  OBVIOUS
<1>1. TypeOK'
  BY NextTyped DEF IInv
<1>2. CASE \E r \in Requests : Step(r) \/ Loss(r)
  <2>1. PICK r \in Requests : Step(r) \/ Loss(r)
    BY <1>2
  <2>2. /\ RecordStep(r) /\ now' = now
        /\ \A s \in Requests :
             pc'[s] \in {"reading", "swapping"} =>
               \/ armAt'[s] = now
               \/ pc[s] \in {"reading", "swapping"} /\ armAt'[s] = armAt[s]
    BY <2>1, RequestsStep DEF IInv
  <2>3. TasksRecent'
    BY <2>2 DEF IInv, TypeOK, TasksRecent
  <2>4. Recorded'
    BY <2>2, RecordStepKeepsRecord
  <2> QED
    BY <1>1, <2>3, <2>4 DEF IInv
<1>3. CASE Tick
  <2>1. TasksRecent'
    BY <1>3 DEF Tick, IInv, TasksRecent, TypeOK, task
  <2>2. Recorded'
    <3> SUFFICES ASSUME entry' # NoEntry PROVE Recorded'
      BY DEF Recorded
    <3>1. /\ entry' = entry /\ ~(expires # Never /\ expires < now + 1)
          /\ now' = now + 1 /\ expires' = expires
      BY <1>3 DEF Tick
    <3>2. entry.until \in Int /\ expires \in Int \cup {Never} /\ now \in Nat
      BY <3>1 DEF IInv, TypeOK, Entry
    <3> QED
      BY <3>1, <3>2 DEF IInv, Recorded
  <2> QED
    BY <1>1, <2>1, <2>2 DEF IInv
<1>4. CASE UNCHANGED vars
  BY <1>1, <1>4 DEF vars, task, IInv, TasksRecent, Recorded
<1> QED
  BY <1>2, <1>3, <1>4 DEF Next, Finished

LEMMA Invariance == Spec => []IInv
  BY InitInv, NextInv, PTL DEF Spec

\* Whatever is lost, and whoever crashes holding the probe, a record that has an
\* expiry is gone a grace and an arm's lag after its cooldown.  The one that has
\* none was rewritten by a script in its last instant (valkey.ts, arm, CLAIM,
\* RELEASE).
THEOREM OutageIsBounded == Spec => []OutageBounded
<1>1. IInv => OutageBounded
  <2> SUFFICES ASSUME IInv, entry # NoEntry, expires # Never PROVE OutageBounded
    BY DEF OutageBounded
  <2>1. entry.until \in Int /\ now \in Nat /\ expires \in Int
    BY DEF IInv, TypeOK, Entry
  <2>2. now <= expires /\ expires <= entry.until + Grace + ArmLag
    BY DEF IInv, Recorded
  <2> QED
    BY <2>1, <2>2 DEF OutageBounded
<1> QED
  BY <1>1, Invariance, PTL

-----------------------------------------------------------------------------
LEMMA RefinedInit == Init => Breaker!Init
BY DEF Init, Breaker!Init

\* Whatever a request does to the record amounts to one call, or to none.
LEMMA RecordStepRefines ==
  ASSUME IInv, NEW r \in Requests, RecordStep(r), now' = now
  PROVE  Breaker!Next
<1> USE DEF Breaker!Next, Breaker!Calling
<1>0. now \in Nat /\ entry \in Entry \cup {NoEntry}
  BY DEF IInv, TypeOK
<1>1. CASE entry' = entry /\ call' \in {"none", "claim", "release"}
  BY <1>0, <1>1 DEF Breaker!Pass, Breaker!Claim, Breaker!Release
<1>2. CASE entry' = NoEntry /\ call' = "clear"
  BY <1>2 DEF Breaker!Clear
<1>3. CASE /\ entry # NoEntry /\ entry.probeTaken
           /\ entry' = released(entry) /\ call' = "release"
  BY <1>0, <1>3, TakenAndReleased DEF Breaker!Release
<1>4. CASE /\ entry # NoEntry /\ claimed(entry, now)
           /\ entry' = taken(entry) /\ call' = "claim"
  <2>1. entry \in Entry /\ entry.until \in Int
    BY <1>0, <1>4 DEF Entry
  <2>2. entry.until <= now /\ ~entry.probeTaken
    BY <1>0, <1>4, <2>1 DEF claimed
  <2> QED
    BY <1>4, <2>1, <2>2, TakenAndReleased DEF Breaker!Claim
<1>5. CASE pc[r] = "swapping" /\ entry = read[r] /\ Write(r)
  <2>1. /\ entry' \in Entry /\ ~entry'.probeTaken /\ call' = "arm"
        /\ armAt[r] <= entry'.until /\ entry'.until <= armAt[r] + maxCapForKey
        /\ entry'.consecutive = armsInARow(entry) + 1
    BY <1>5, WriteType DEF IInv
  <2>2. entry'.until \in Int /\ armAt[r] \in Nat
    BY <2>1 DEF Entry, IInv, TypeOK
  <2>3. armAt[r] <= now /\ now <= armAt[r] + ArmLag
    BY <1>5 DEF IInv, TasksRecent
  <2>4. now - ArmLag <= entry'.until /\ entry'.until <= now + maxCapForKey
    BY <1>0, <2>1, <2>2, <2>3, CapsType
  <2>5. entry'.consecutive = IF entry = NoEntry THEN 1 ELSE entry.consecutive + 1
    BY <2>1 DEF armsInARow
  <2>6. entry' # NoEntry
    BY <2>1
  <2> QED
    BY <2>1, <2>4, <2>5, <2>6 DEF Breaker!Arm
<1> QED
  BY <1>1, <1>2, <1>3, <1>4, <1>5 DEF RecordStep

\* Time passes, and the store drops a record a whole grace after its cooldown.
LEMMA TickRefines ==
  ASSUME IInv, Tick
  PROVE  Breaker!Next
<1>1. now \in Nat /\ now' = now + 1 /\ call' = "none"
  BY DEF IInv, TypeOK, Tick
<1>2. CASE entry' = entry
  BY <1>1, <1>2 DEF Breaker!Next, Breaker!Pass
<1>3. CASE entry' # entry
  <2>1. entry # NoEntry /\ expires # Never /\ expires < now + 1 /\ entry' = NoEntry
    BY <1>3 DEF Tick
  <2>2. entry.until \in Int /\ expires \in Int
    BY <2>1 DEF IInv, TypeOK, Entry
  <2>3. entry.until + Grace <= expires
    BY <2>1 DEF IInv, Recorded
  <2>4. entry.until + Grace < now'
    BY <1>1, <2>1, <2>2, <2>3
  <2> QED
    BY <1>1, <2>1, <2>4 DEF Breaker!Next, Breaker!Pass
<1> QED
  BY <1>2, <1>3

LEMMA RefinedNext == IInv /\ [Next]_vars => [Breaker!Next]_<<now, entry, call>>
<1> SUFFICES ASSUME IInv, [Next]_vars PROVE [Breaker!Next]_<<now, entry, call>>
  OBVIOUS
<1>1. CASE \E r \in Requests : Step(r) \/ Loss(r)
  BY <1>1, RequestsStep, RecordStepRefines DEF IInv
<1>2. CASE Tick
  BY <1>2, TickRefines
<1>3. CASE UNCHANGED vars
  BY <1>3 DEF vars
<1> QED
  BY <1>1, <1>2, <1>3 DEF Next, Finished

\* Requests and arm tasks of any number of gateways, their commands interleaved
\* and lost, amount on the key to a sequence of the interface's calls, each doing
\* what it says and no more (valkey.ts, ValkeyCooldownStore; cooldown-store.ts,
\* CooldownStore).
THEOREM ValkeyIsABreaker == Spec => ImplementsBreaker
BY RefinedInit, RefinedNext, Invariance, PTL DEF Spec, ImplementsBreaker, Breaker!Spec, Breaker!vars
=============================================================================
