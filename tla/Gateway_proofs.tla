---------------------------- MODULE Gateway_proofs ----------------------------
(***************************************************************************)
(* Proofs about Gateway, for any number of replicas, requests, accounts,   *)
(* outages and shutdowns, any limits and any ceiling.                      *)
(***************************************************************************)
EXTENDS Gateway, FiniteSetTheorems, TLAPS

-----------------------------------------------------------------------------
(* Slots.                                                                  *)

Holders(r) == {q \in Requests : req[q].at = r /\ req[q].phase \in Holding}

Routed == \A q \in Requests : req[q].phase \in Open => req[q].at \in Replicas
Owed == \A q \in Requests : req[q].phase = "spending" => req[q].left >= 1

SlotsTyped ==
  /\ req \in [Requests -> Request] /\ Routed /\ Owed
  /\ inFlight \in [Replicas -> 0 .. MaxInflight]

SlotsInv == SlotsTyped /\ SlotsPaired

LEMMA HoldersFinite == \A r : IsFiniteSet(Holders(r))
BY GatewayAssumption, FS_Subset DEF Holders

LEMMA SlotsPairedAre ==
  SlotsPaired <=> \A r \in Replicas :
                    inFlight[r] = Cardinality(Holders(r)) /\ inFlight[r] <= MaxInflight
BY DEF SlotsPaired, Holders

\* What becomes of one request.
Becomes(q, rec) ==
  /\ rec \in Request /\ req' = [req EXCEPT ![q] = rec]
  /\ rec.phase \in Open => rec.at \in Replicas
  /\ rec.phase = "spending" => rec.left >= 1

LEMMA BecomesTyped ==
  ASSUME SlotsTyped, NEW q \in Requests, NEW rec, Becomes(q, rec)
  PROVE  req' \in [Requests -> Request] /\ Routed' /\ Owed'
BY DEF SlotsTyped, Becomes, Routed, Owed

LEMMA UnbornBut ==
  ASSUME NEW phase \in Phases
  PROVE  /\ Unborn \in Request /\ Unborn.phase = "idle"
         /\ [Unborn EXCEPT !.phase = phase] \in Request
         /\ [Unborn EXCEPT !.phase = phase].phase = phase
<1>1. Unborn \in Request
  <2>1. NoReplica \in Replicas \cup {NoReplica} /\ {} \in SUBSET Accounts
        /\ 0 \in 0 .. MaxClock /\ 0 \in 0 .. MaxRefused /\ "idle" \in Phases
        /\ FALSE \in BOOLEAN
    BY GatewayAssumption DEF Phases
  <2> QED
    BY <2>1, Zenon DEF Unborn, Request
<1>2. Unborn.phase = "idle"
  BY DEF Unborn
<1> QED
  BY <1>1, <1>2 DEF Request

\* The count follows when one request starts to hold a slot.
LEMMA TakesSlot ==
  ASSUME SlotsInv, NEW q \in Requests, NEW rec, Becomes(q, rec), NEW r \in Replicas,
         rec.at = r, rec.phase \in Holding, req[q].phase \notin Holding,
         inFlight[r] < MaxInflight,
         inFlight' = [inFlight EXCEPT ![r] = @ + 1]
  PROVE  SlotsInv'
<1>1. SlotsTyped'
  <2>1. inFlight' \in [Replicas -> 0 .. MaxInflight]
    BY GatewayAssumption DEF SlotsInv, SlotsTyped
  <2> QED
    BY <2>1, BecomesTyped DEF SlotsInv, SlotsTyped
<1>2. req'[q] = rec /\ \A p \in Requests \ {q} : req'[p] = req[p]
  BY DEF SlotsInv, SlotsTyped, Becomes
<1>3. Holders(r)' = Holders(r) \cup {q} /\ q \notin Holders(r)
  BY <1>2 DEF Holders
<1>4. \A s \in Replicas \ {r} : Holders(s)' = Holders(s)
  BY <1>2 DEF Holders
<1>5. Cardinality(Holders(r)') = Cardinality(Holders(r)) + 1
  BY <1>3, HoldersFinite, FS_AddElement
<1>6. \A s \in Replicas : inFlight'[s] = Cardinality(Holders(s)') /\ inFlight'[s] <= MaxInflight
  BY <1>4, <1>5, SlotsPairedAre, GatewayAssumption DEF SlotsInv, SlotsTyped
<1> QED
  BY <1>1, <1>6 DEF SlotsInv, SlotsPaired, Holders

\* And when it gives it up.
LEMMA GivesSlot ==
  ASSUME SlotsInv, NEW q \in Requests, req[q].phase \in Holding, Answer(q)
  PROVE  SlotsInv'
<1> DEFINE rec == [Unborn EXCEPT !.phase = "answered"]
<1>0. PICK r \in Replicas : r = req[q].at
  BY DEF SlotsInv, SlotsTyped, Routed, Holding, Open, Phases
<1>1. inFlight' = [inFlight EXCEPT ![r] = IF @ > 0 THEN @ - 1 ELSE @]
  BY <1>0 DEF Answer, release
<1>2. Becomes(q, rec) /\ rec.phase = "answered"
  BY UnbornBut DEF Answer, Ended, Becomes, Phases, Open
<1>3. req'[q] = rec /\ \A p \in Requests \ {q} : req'[p] = req[p]
  BY <1>2 DEF SlotsInv, SlotsTyped, Becomes
<1> HIDE DEF rec
<1>4. inFlight' \in [Replicas -> 0 .. MaxInflight]
  BY <1>1, GatewayAssumption DEF SlotsInv, SlotsTyped
<1>5. SlotsTyped'
  BY <1>2, <1>4, BecomesTyped DEF SlotsInv, SlotsTyped
<1>6. Holders(r)' = Holders(r) \ {q} /\ q \in Holders(r)
  BY <1>0, <1>2, <1>3 DEF Holders, Holding
<1>7. \A s \in Replicas \ {r} : Holders(s)' = Holders(s)
  <2> TAKE s \in Replicas \ {r}
  <2>1. q \notin Holders(s) /\ q \notin Holders(s)'
    BY <1>0, <1>2, <1>3 DEF Holders, Holding
  <2>2. \A p \in Requests \ {q} : p \in Holders(s)' <=> p \in Holders(s)
    BY <1>3 DEF Holders
  <2> QED
    BY <2>1, <2>2 DEF Holders
<1>8. Cardinality(Holders(r)') = Cardinality(Holders(r)) - 1 /\ Cardinality(Holders(r)') \in Nat
  BY <1>6, HoldersFinite, FS_RemoveElement, FS_CardinalityType
<1>9. \A s \in Replicas : inFlight'[s] = Cardinality(Holders(s)') /\ inFlight'[s] <= MaxInflight
  BY <1>1, <1>7, <1>8, SlotsPairedAre, GatewayAssumption DEF SlotsInv, SlotsTyped
<1> QED
  BY <1>5, <1>9 DEF SlotsInv, SlotsPaired, Holders

\* Anything else a request does leaves the slots as they are.
LEMMA KeepsSlots ==
  ASSUME SlotsInv, NEW q \in Requests, NEW rec, Becomes(q, rec), inFlight' = inFlight,
         rec.phase \in Holding <=> req[q].phase \in Holding,
         rec.phase \in Holding => rec.at = req[q].at
  PROVE  SlotsInv'
<1>1. SlotsTyped'
  BY BecomesTyped DEF SlotsInv, SlotsTyped
<1>2. req'[q] = rec /\ \A p \in Requests \ {q} : req'[p] = req[p]
  BY DEF SlotsInv, SlotsTyped, Becomes
<1>3. \A r \in Replicas : Holders(r)' = Holders(r)
  BY <1>2 DEF Holders
<1> QED
  BY <1>1, <1>3, SlotsPairedAre DEF SlotsInv, SlotsPaired, Holders

\* Each step of a request's handler makes something of that request only, and moves the
\* count when, and only when, it moves the request in or out of a slot.
LEMMA HandleKeepsSlots ==
  ASSUME SlotsInv, clock \in 0 .. MaxClock, NEW q \in Requests, Handle(q)
  PROVE  SlotsInv'
<1> USE GatewayAssumption
<1>0. /\ req[q] \in Request
      /\ req[q].phase \in Open => req[q].at \in Replicas
      /\ req[q].phase = "spending" => req[q].left >= 1
  BY DEF SlotsInv, SlotsTyped, Routed, Owed
<1>1. ASSUME NEW phase \in Phases \ Holding, req[q].phase \in Open \ Holding,
             req' = [req EXCEPT ![q].phase = phase], inFlight' = inFlight
      PROVE  SlotsInv'
  <2>1. Becomes(q, [req[q] EXCEPT !.phase = phase])
    BY <1>0, <1>1 DEF Becomes, Request, Holding
  <2> QED
    BY <1>0, <1>1, <2>1, KeepsSlots DEF Request
<1>2. CASE AddressTaken(q)
  <2>1. PICK ok \in BOOLEAN :
          req' = [req EXCEPT ![q].phase = IF ok THEN "peek" ELSE "answered"]
    BY <1>2 DEF AddressTaken
  <2> QED
    BY <1>1, <1>2, <2>1 DEF AddressTaken, Phases, Holding, Open
<1>3. CASE Peek(q)
  <2>1. CASE req' = [req EXCEPT ![q].phase = "answered"]
    BY <1>1, <1>3, <2>1 DEF Peek, Phases, Holding, Open
  <2>2. ASSUME NEW keys \in SUBSET Accounts,
               req' = [req EXCEPT ![q].phase = "keys", ![q].keys = keys]
        PROVE  SlotsInv'
    <3>1. Becomes(q, [req[q] EXCEPT !.phase = "keys", !.keys = keys])
      BY <1>0, <1>3, <2>2 DEF Peek, Becomes, Request, Phases, Open
    <3> QED
      BY <1>0, <1>3, <3>1, KeepsSlots DEF Peek, Request, Holding
  <2> QED
    BY <1>3, <2>1, <2>2 DEF Peek
<1>4. CASE KeyTaken(q)
  <2>1. PICK key \in req[q].keys, ok \in BOOLEAN :
          LET over == req[q].over \/ ~ok
          IN  req' = [req EXCEPT ![q] = [@ EXCEPT
                        !.keys = req[q].keys \ {key}, !.over = over,
                        !.phase = IF req[q].keys # {key} THEN "keys"
                                  ELSE IF over THEN "answered" ELSE "gate"]]
    BY <1>4, Zenon DEF KeyTaken
  <2> DEFINE over == req[q].over \/ ~ok
             phase == IF req[q].keys # {key} THEN "keys"
                      ELSE IF over THEN "answered" ELSE "gate"
  <2>2. req' = [req EXCEPT ![q] = [req[q] EXCEPT
                  !.keys = req[q].keys \ {key}, !.over = over, !.phase = phase]]
    BY <2>1
  <2>3. phase \in Phases \ Holding /\ over \in BOOLEAN
    BY DEF Phases, Holding
  <2> HIDE DEF over, phase
  <2>r. PICK rec : rec = [req[q] EXCEPT
          !.keys = req[q].keys \ {key}, !.over = over, !.phase = phase]
    OBVIOUS
  <2>4. req[q].keys \ {key} \in SUBSET Accounts
    BY <1>0 DEF Request
  <2>5. rec \in Request /\ rec.phase = phase /\ rec.at = req[q].at
    BY <1>0, <2>r, <2>3, <2>4 DEF Request
  <2>6. req[q].phase = "keys" /\ req[q].at \in Replicas /\ inFlight' = inFlight
    BY <1>0, <1>4 DEF KeyTaken, Open, Phases
  <2>8. req' = [req EXCEPT ![q] = rec]
    BY <2>2, <2>r
  <2>7. Becomes(q, rec)
    BY <2>8, <2>3, <2>5, <2>6 DEF Becomes, Holding
  <2> QED
    BY <2>3, <2>5, <2>6, <2>7, KeepsSlots DEF Holding
<1>5. CASE Gate(q)
  <2>1. CASE inFlight[req[q].at] >= MaxInflight
    BY <1>1, <1>5, <2>1 DEF Gate, Phases, Holding, Open
  <2>2. CASE ~(inFlight[req[q].at] >= MaxInflight)
    <3>1. req[q].phase = "gate" /\ req[q].at \in Replicas
      BY <1>0, <1>5 DEF Gate, Open, Phases
    <3>2. /\ inFlight' = [inFlight EXCEPT ![req[q].at] = @ + 1]
          /\ req' = [req EXCEPT ![q].phase = "served"]
      BY <1>5, <2>2 DEF Gate
    <3>3. inFlight[req[q].at] < MaxInflight
      BY <2>2, <3>1 DEF SlotsInv, SlotsTyped
    <3> DEFINE rec == [req[q] EXCEPT !.phase = "served"]
    <3>4. Becomes(q, rec) /\ rec.at = req[q].at /\ rec.phase = "served"
      BY <1>0, <3>1, <3>2 DEF Becomes, Request, Phases
    <3> HIDE DEF rec
    <3> QED
      BY <3>1, <3>2, <3>3, <3>4, TakesSlot DEF Holding
  <2> QED
    BY <2>1, <2>2
<1>6. CASE Served(q)
  <2>1. CASE Answer(q)
    BY <1>6, <2>1, GivesSlot DEF Served, Holding
  <2>2. ASSUME NEW n \in 1 .. MaxRefused, inFlight' = inFlight,
               req' = [req EXCEPT ![q] =
                         [@ EXCEPT !.phase = "spending", !.left = n, !.ended = clock]]
        PROVE  SlotsInv'
    <3> DEFINE rec == [req[q] EXCEPT !.phase = "spending", !.left = n, !.ended = clock]
    <3>1. "spending" \in Phases /\ n \in 0 .. MaxRefused /\ n >= 1
      BY DEF Phases
    <3>2. rec \in Request /\ rec.phase = "spending" /\ rec.left = n /\ rec.at = req[q].at
      BY <1>0, <3>1 DEF Request
    <3>3. req[q].phase = "served" /\ req[q].at \in Replicas
      BY <1>0, <1>6 DEF Served, Open, Phases
    <3>4. req' = [req EXCEPT ![q] = rec]
      BY <2>2
    <3> HIDE DEF rec
    <3>5. Becomes(q, rec)
      BY <3>1, <3>2, <3>3, <3>4 DEF Becomes
    <3> QED
      BY <2>2, <3>2, <3>3, <3>5, KeepsSlots DEF Holding
  <2> QED
    BY <1>6, <2>1, <2>2 DEF Served
<1>7. CASE ServedThrows(q)
  BY <1>7, GivesSlot DEF ServedThrows, Holding
<1>8. CASE Spend(q)
  <2>1. CASE Answer(q)
    BY <1>8, <2>1, GivesSlot DEF Spend, Holding
  <2>2. CASE req[q].left # 1 /\ req' = [req EXCEPT ![q].left = @ - 1] /\ inFlight' = inFlight
    <3> DEFINE rec == [req[q] EXCEPT !.left = @ - 1]
    <3>1. req[q].phase = "spending" /\ req[q].left >= 1 /\ req[q].at \in Replicas
      BY <1>0, <1>8 DEF Spend, Open, Phases
    <3>2. rec \in Request /\ rec.phase = req[q].phase /\ rec.at = req[q].at /\ rec.left >= 1
      BY <1>0, <2>2, <3>1 DEF Request
    <3>3. Becomes(q, rec)
      BY <2>2, <3>1, <3>2 DEF Becomes
    <3> HIDE DEF rec
    <3> QED
      BY <2>2, <3>1, <3>2, <3>3, KeepsSlots
  <2> QED
    BY <1>8, <2>1, <2>2 DEF Spend
<1> QED
  BY <1>2, <1>3, <1>4, <1>5, <1>6, <1>7, <1>8 DEF Handle

-----------------------------------------------------------------------------
(* Counts.                                                                 *)

LEMMA WindowStarts ==
  ASSUME NEW t \in Nat
  PROVE  windowStart(t) \in Nat
<1>1. t % Window \in 0 .. Window - 1
  BY WindowAssumption
<1>2. t < Window => t % Window = t
  BY WindowAssumption
<1>3. t % Window <= t
  BY <1>1, <1>2, WindowAssumption
<1> QED
  BY <1>1, <1>3 DEF windowStart

\* The windows a count in memory may be of; its start when nothing was counted is -1.
LEMMA StartsAre ==
  /\ \A w \in Starts : w \in Nat
  /\ \A t \in 0 .. MaxClock : windowStart(t) \in Starts
BY WindowStarts, GatewayAssumption DEF Starts

Memory == [start : Starts \cup {-1}, counts : [Counted -> Nat]]

CountsTyped ==
  /\ clock \in 0 .. MaxClock
  /\ valkey \in [Counters -> Nat]
  /\ memory \in [Replicas -> [Limiters -> Memory]]
  /\ granted \in [Replicas \cup {NoReplica} -> [Counters -> Nat]]
  /\ failed \in [Starts -> Nat]
  /\ outages \in Nat /\ reached \in BOOLEAN

\* What Valkey let through it had counted.
ValkeyCounted ==
  \A c \in Counters :
    granted[NoReplica][c] <= valkey[c] /\ granted[NoReplica][c] <= Limit[c[1][1]]

\* A replica's memory let nothing through in a window it has not reached, and what it
\* let through in its present window it has counted.
CountedIn(mem, gr) ==
  \A c \in Counters :
    LET present == mem[c[1][1]]
    IN  /\ gr[c] <= Limit[c[1][1]]
        /\ c[2] > present.start => gr[c] = 0
        /\ c[2] = present.start => gr[c] <= present.counts[c[1][2]]

WithinLimits == \A r \in Replicas : \A c \in Counters : granted[r][c] <= Limit[c[1][1]]
MemoryCounted == \A r \in Replicas : state[r] # "down" => CountedIn(memory[r], granted[r])

\* Nobody is served by a replica that is down.
NobodyThere == \A q \in Requests : req[q].phase \in Open => state[req[q].at] # "down"
StatesKnown == DOMAIN state = Replicas
ForgetsAll == \A r \in Replicas : state[r] = "down" => memory[r] = [l \in Limiters |-> NoCounts]

\* While Valkey has been there all along it counted every refused key.
RefusalsCounted ==
  outages = 0 =>
    /\ reached
    /\ \A w \in Starts : failed[w] <= valkey[<<<<"authFailures", Address>>, w>>]

CountsInv ==
  /\ CountsTyped /\ ValkeyCounted /\ WithinLimits /\ MemoryCounted
  /\ StatesKnown /\ NobodyThere /\ ForgetsAll /\ RefusalsCounted

\* A limiter and the key it is asked for.
Pairs(l, key) == l \in Limiters /\ key \in Counted /\ <<l, key>> \in Limited

\* One more in a replica's memory.
LEMMA TookCounted ==
  ASSUME CountsTyped, NEW r \in Replicas, NEW l, NEW key, Pairs(l, key),
         NEW now \in 0 .. MaxClock, NEW mem, mem = took(memory[r][l], key, now)
  PROVE  /\ mem \in Memory /\ mem.start \in Starts
         /\ <<<<l, key>>, mem.start>> \in Counters
         /\ memory[r][l].start <= mem.start
         /\ IF memory[r][l].start < mem.start
            THEN mem.counts = [k \in Counted |-> IF k = key THEN 1 ELSE 0]
            ELSE mem.counts = [memory[r][l].counts EXCEPT ![key] = @ + 1]
<1> DEFINE old == memory[r][l]
<1>1. old \in Memory /\ windowStart(now) \in Starts /\ key \in Counted
      /\ \A w \in Starts : w \in Nat
  BY StartsAre DEF CountsTyped, Pairs
<1>0. old.start \in Int /\ windowStart(now) \in Int
  <2>1. old.start \in Starts \cup {-1}
    BY <1>1 DEF Memory
  <2> QED
    BY <1>1, <2>1
<1>2. CASE windowStart(now) > old.start
  <2>1. Rolled(old, now) = [start |-> windowStart(now), counts |-> [k \in Counted |-> 0]]
    BY <1>2 DEF Rolled, NoCounts
  <2>2. mem = [start |-> windowStart(now), counts |-> [k \in Counted |-> IF k = key THEN 1 ELSE 0]]
    BY <1>1, <2>1 DEF took
  <2>3. mem.start = windowStart(now) /\ mem \in Memory
    BY <1>1, <2>2 DEF Memory
  <2>4. <<<<l, key>>, mem.start>> \in Counters
    BY <1>1, <2>3 DEF Pairs, Counters
  <2>5. old.start < mem.start /\ old.start \in Int
    BY <1>0, <1>2, <2>3
  <2>6. mem.counts = [k \in Counted |-> IF k = key THEN 1 ELSE 0]
    BY <2>2
  <2> HIDE DEF old
  <2>7. old.start <= mem.start /\ mem.start \in Starts
    BY <1>0, <1>1, <2>3, <2>5
  <2> QED
    BY <2>3, <2>4, <2>5, <2>6, <2>7 DEF old
<1>3. CASE ~(windowStart(now) > old.start)
  <2>1. Rolled(old, now) = old
    BY <1>3 DEF Rolled
  <2>2. mem = [old EXCEPT !.counts[key] = @ + 1]
    BY <2>1 DEF took
  <2>3. mem.start = old.start /\ mem.counts = [old.counts EXCEPT ![key] = @ + 1] /\ mem \in Memory
    BY <1>1, <2>2 DEF Memory
  <2>4. old.start \in Starts
    <3>1. windowStart(now) \in Nat /\ old.start \in Starts \cup {-1}
      BY <1>1 DEF Memory
    <3> QED
      BY <1>3, <3>1
  <2>5. <<<<l, key>>, mem.start>> \in Counters
    BY <2>3, <2>4 DEF Pairs, Counters
  <2>6. ~(old.start < mem.start) /\ old.start <= mem.start
    BY <1>1, <2>3, <2>4
  <2> QED
    BY <1>1, <2>3, <2>4, <2>5, <2>6
<1> QED
  BY <1>2, <1>3

\* Counters by their parts.
LEMMA CounterParts ==
  /\ \A d \in Counters : /\ d[1][1] \in Limiters /\ d[1][2] \in Counted /\ d[2] \in Starts
                         /\ Limit[d[1][1]] \in Nat
                         /\ d = <<<<d[1][1], d[1][2]>>, d[2]>>
  /\ \A l, key : \A w \in Starts : Pairs(l, key) => <<<<l, key>>, w>> \in Counters
<1>1. \A d \in Counters : d[1] \in Limited /\ d[2] \in Starts /\ d = <<d[1], d[2]>>
  BY DEF Counters
<1>2. \A p \in Limited : p[1] \in Limiters /\ p[2] \in Counted /\ p = <<p[1], p[2]>>
  BY GatewayAssumption DEF Limited, Limiters
<1>3. \A l \in Limiters : Limit[l] \in Nat
  BY GatewayAssumption
<1>4. \A l, key : \A w \in Starts : Pairs(l, key) => <<<<l, key>>, w>> \in Counters
  BY DEF Pairs, Counters
<1> QED
  BY <1>1, <1>2, <1>3, <1>4

\* A take that Valkey answers.
LEMMA TakeThereCounts ==
  ASSUME CountsInv, NEW l, NEW key, Pairs(l, key), NEW now \in 0 .. MaxClock,
         NEW ok \in BOOLEAN, TakeThere(l, key, now, ok)
  PROVE  /\ reached /\ memory' = memory
         /\ valkey' \in [Counters -> Nat] /\ granted' \in [Replicas \cup {NoReplica} -> [Counters -> Nat]]
         /\ valkey' = [valkey EXCEPT ![<<<<l, key>>, windowStart(now)>>] = @ + 1]
         /\ \A r \in Replicas : granted'[r] = granted[r]
         /\ ValkeyCounted'
<1>0. PICK c \in Counters : c = <<<<l, key>>, windowStart(now)>>
  BY StartsAre, CounterParts
<1>1. c = <<<<l, key>>, windowStart(now)>> /\ c[1][1] = l
  BY <1>0
<1>2. /\ reached /\ memory' = memory
      /\ valkey' = [valkey EXCEPT ![c] = @ + 1]
      /\ ok => valkey[c] + 1 <= Limit[l]
      /\ granted' = IF ok THEN [granted EXCEPT ![NoReplica][c] = @ + 1] ELSE granted
  BY <1>1 DEF TakeThere
<1>3. valkey' \in [Counters -> Nat] /\ granted' \in [Replicas \cup {NoReplica} -> [Counters -> Nat]]
  BY <1>2 DEF CountsInv, CountsTyped
<1>4. \A r \in Replicas : granted'[r] = granted[r]
  BY <1>2, GatewayAssumption DEF CountsInv, CountsTyped
<1>6. ASSUME NEW d \in Counters
      PROVE  granted'[NoReplica][d] <= valkey'[d] /\ granted'[NoReplica][d] <= Limit[d[1][1]]
  <2>1. /\ granted[NoReplica][d] \in Nat /\ valkey[d] \in Nat /\ Limit[d[1][1]] \in Nat
        /\ granted[NoReplica][d] <= valkey[d] /\ granted[NoReplica][d] <= Limit[d[1][1]]
    BY CounterParts DEF CountsInv, CountsTyped, ValkeyCounted
  <2>2. valkey'[d] = IF d = c THEN valkey[d] + 1 ELSE valkey[d]
    BY <1>2 DEF CountsInv, CountsTyped
  <2>3. granted'[NoReplica][d] =
          IF ok /\ d = c THEN granted[NoReplica][d] + 1 ELSE granted[NoReplica][d]
    BY <1>2 DEF CountsInv, CountsTyped
  <2> QED
    BY <1>1, <1>2, <2>1, <2>2, <2>3
<1> QED
  BY <1>1, <1>2, <1>3, <1>4, <1>6 DEF ValkeyCounted

\* A take that is counted in a replica's memory.
LEMMA TakeHereCounts ==
  ASSUME CountsInv, NEW r \in Replicas, state[r] # "down",
         NEW l, NEW key, Pairs(l, key), NEW now \in 0 .. MaxClock,
         NEW ok \in BOOLEAN, TakeHere(r, l, key, now, ok)
  PROVE  /\ ~reached
         /\ valkey' \in [Counters -> Nat] /\ granted' \in [Replicas \cup {NoReplica} -> [Counters -> Nat]]
         /\ memory' \in [Replicas -> [Limiters -> Memory]]
         /\ \A s \in Replicas \ {r} : memory'[s] = memory[s] /\ granted'[s] = granted[s]
         /\ granted'[NoReplica] = granted[NoReplica]
         /\ \A c \in Counters : valkey[c] <= valkey'[c]
         /\ CountedIn(memory'[r], granted'[r])
<1>1. PICK mem : mem = took(memory[r][l], key, now)
  OBVIOUS
<1>2. PICK c : c = <<<<l, key>>, mem.start>>
  OBVIOUS
<1>3. /\ mem \in Memory /\ mem.start \in Starts /\ c \in Counters
      /\ memory[r][l].start <= mem.start
      /\ IF memory[r][l].start < mem.start
         THEN mem.counts = [k \in Counted |-> IF k = key THEN 1 ELSE 0]
         ELSE mem.counts = [memory[r][l].counts EXCEPT ![key] = @ + 1]
  BY <1>1, <1>2, TookCounted DEF CountsInv
<1>4. /\ ~reached
      /\ valkey' \in {valkey, [valkey EXCEPT ![<<<<l, key>>, windowStart(now)>>] = @ + 1]}
      /\ memory' = [memory EXCEPT ![r][l] = mem]
      /\ ok => mem.counts[key] <= Limit[l]
      /\ granted' = IF ok THEN [granted EXCEPT ![r][c] = @ + 1] ELSE granted
  BY <1>1, <1>2 DEF TakeHere
<1>5. valkey' \in [Counters -> Nat] /\ \A d \in Counters : valkey[d] <= valkey'[d]
  <2>1. PICK there \in Counters : there = <<<<l, key>>, windowStart(now)>>
    BY StartsAre, CounterParts
  <2>2. CASE valkey' = valkey
    BY <2>2 DEF CountsInv, CountsTyped
  <2>3. CASE valkey' = [valkey EXCEPT ![there] = @ + 1]
    BY <2>3 DEF CountsInv, CountsTyped
  <2> QED
    BY <1>4, <2>1, <2>2, <2>3
<1>6. /\ granted' \in [Replicas \cup {NoReplica} -> [Counters -> Nat]]
      /\ granted'[NoReplica] = granted[NoReplica]
      /\ \A s \in Replicas \ {r} : granted'[s] = granted[s]
  BY <1>3, <1>4, GatewayAssumption DEF CountsInv, CountsTyped
<1>7. /\ memory' \in [Replicas -> [Limiters -> Memory]]
      /\ \A s \in Replicas \ {r} : memory'[s] = memory[s]
      /\ memory'[r] = [memory[r] EXCEPT ![l] = mem]
  BY <1>3, <1>4 DEF CountsInv, CountsTyped, Pairs
<1>8. ASSUME NEW d \in Counters, d[1][1] # l
      PROVE  /\ memory'[r][d[1][1]] = memory[r][d[1][1]]
             /\ granted'[r][d] = granted[r][d]
  <2>1. d # c
    BY <1>2, <1>8
  <2> QED
    BY <1>3, <1>4, <1>7, <1>8, <2>1, CounterParts DEF CountsInv, CountsTyped
<1>9. ASSUME NEW d \in Counters, d[1][1] = l
      PROVE  /\ granted'[r][d] <= Limit[l]
             /\ d[2] > mem.start => granted'[r][d] = 0
             /\ d[2] = mem.start => granted'[r][d] <= mem.counts[d[1][2]]
  <2> DEFINE old == memory[r][l]
             before == granted[r][d]
             after == granted'[r][d]
  <2>1. /\ before \in Nat /\ before <= Limit[l]
        /\ d[2] > old.start => before = 0
        /\ d[2] = old.start => before <= old.counts[d[1][2]]
    BY <1>9 DEF CountsInv, CountsTyped, WithinLimits, MemoryCounted, CountedIn
  <2>2. /\ d[2] \in Int /\ old.start \in Int /\ mem.start \in Int /\ Limit[l] \in Nat
        /\ old.counts \in [Counted -> Nat] /\ mem.counts \in [Counted -> Nat]
        /\ d[1][2] \in Counted /\ key \in Counted
    <3>1. \A m \in Memory : m.start \in Int /\ m.counts \in [Counted -> Nat]
      BY StartsAre DEF Memory
    <3>2. old \in Memory
      BY DEF CountsInv, CountsTyped, Pairs
    <3> QED
      BY <1>3, <1>9, <3>1, <3>2, CounterParts, StartsAre DEF Pairs
  <2>3. after = IF ok /\ d = c THEN before + 1 ELSE before
    BY <1>3, <1>4 DEF CountsInv, CountsTyped
  <2>4. CASE d = c
    <3>1. d[2] = mem.start /\ d[1][2] = key
      BY <1>2, <2>4
    <3>2. before + 1 <= mem.counts[key]
      <4>1. CASE old.start < mem.start
        BY <1>3, <2>1, <2>2, <3>1, <4>1
      <4>2. CASE ~(old.start < mem.start)
        BY <1>3, <2>1, <2>2, <3>1, <4>2
      <4> QED
        BY <4>1, <4>2
    <3>3. after <= mem.counts[key] /\ after <= Limit[l]
      BY <1>4, <2>1, <2>2, <2>3, <2>4, <3>2
    <3> QED
      BY <2>2, <3>1, <3>3
  <2>5. CASE d # c
    <3>1. after = before
      BY <2>3, <2>5
    <3>2. d[2] > mem.start => before = 0
      BY <1>3, <2>1, <2>2
    <3>3. d[2] = mem.start => before <= mem.counts[d[1][2]]
      <4> HAVE d[2] = mem.start
      <4>1. d[1][2] # key
        BY <1>2, <1>9, <2>5, CounterParts
      <4>2. CASE old.start < mem.start
        BY <1>3, <2>1, <2>2, <4>1, <4>2
      <4>3. CASE ~(old.start < mem.start)
        BY <1>3, <2>1, <2>2, <4>1, <4>3
      <4> QED
        BY <4>2, <4>3
    <3> QED
      BY <2>1, <3>1, <3>2, <3>3
  <2> QED
    BY <2>4, <2>5
<1>10. CountedIn(memory'[r], granted'[r])
  <2> SUFFICES ASSUME NEW d \in Counters
               PROVE  LET present == memory'[r][d[1][1]]
                      IN  /\ granted'[r][d] <= Limit[d[1][1]]
                          /\ d[2] > present.start => granted'[r][d] = 0
                          /\ d[2] = present.start => granted'[r][d] <= present.counts[d[1][2]]
    BY DEF CountedIn
  <2>1. CASE d[1][1] # l
    BY <1>8, <2>1 DEF CountsInv, MemoryCounted, CountedIn
  <2>2. CASE d[1][1] = l
    <3>1. memory'[r][d[1][1]] = mem
      BY <1>7, <2>2 DEF CountsInv, CountsTyped, Pairs
    <3> QED
      BY <1>9, <2>2, <3>1
  <2> QED
    BY <2>1, <2>2
<1> QED
  BY <1>4, <1>5, <1>6, <1>7, <1>10

Raised(counts, c) == [counts EXCEPT ![c] = @ + 1]

\* What every take keeps, wherever it is counted.
LEMMA TakeKeepsCounts ==
  ASSUME CountsInv, NEW r \in Replicas, state[r] # "down",
         NEW l, NEW key, Pairs(l, key), NEW now \in 0 .. MaxClock,
         NEW ok \in BOOLEAN, take(r, l, key, now, ok),
         state' = state, outages' = outages, reached' = reached, clock' = clock
  PROVE  /\ (failed' \in [Starts -> Nat] => CountsTyped')
         /\ ValkeyCounted' /\ WithinLimits' /\ MemoryCounted' /\ ForgetsAll'
         /\ \A c \in Counters : valkey[c] <= valkey'[c]
         /\ reached => valkey' = Raised(valkey, <<<<l, key>>, windowStart(now)>>)
<1>1. CASE TakeThere(l, key, now, ok)
  <2>1. /\ reached /\ memory' = memory
        /\ valkey' \in [Counters -> Nat] /\ granted' \in [Replicas \cup {NoReplica} -> [Counters -> Nat]]
        /\ valkey' = [valkey EXCEPT ![<<<<l, key>>, windowStart(now)>>] = @ + 1]
        /\ \A s \in Replicas : granted'[s] = granted[s]
        /\ ValkeyCounted'
    BY <1>1, TakeThereCounts
  <2>2. WithinLimits' /\ MemoryCounted' /\ ForgetsAll'
    BY <2>1 DEF CountsInv, WithinLimits, MemoryCounted, ForgetsAll
  <2>3. \A c \in Counters : valkey[c] <= valkey'[c]
    <3>1. PICK there \in Counters : there = <<<<l, key>>, windowStart(now)>>
      BY StartsAre, CounterParts
    <3>2. valkey' = [valkey EXCEPT ![there] = @ + 1]
      BY <2>1, <3>1
    <3> QED
      BY <3>2 DEF CountsInv, CountsTyped
  <2>4. failed' \in [Starts -> Nat] => CountsTyped'
    BY <2>1 DEF CountsInv, CountsTyped
  <2> QED
    BY <2>1, <2>2, <2>3, <2>4 DEF Raised
<1>2. CASE TakeHere(r, l, key, now, ok)
  <2>1. /\ ~reached
        /\ valkey' \in [Counters -> Nat] /\ granted' \in [Replicas \cup {NoReplica} -> [Counters -> Nat]]
        /\ memory' \in [Replicas -> [Limiters -> Memory]]
        /\ \A s \in Replicas \ {r} : memory'[s] = memory[s] /\ granted'[s] = granted[s]
        /\ granted'[NoReplica] = granted[NoReplica]
        /\ \A c \in Counters : valkey[c] <= valkey'[c]
        /\ CountedIn(memory'[r], granted'[r])
    BY <1>2, TakeHereCounts
  <2>2. WithinLimits' /\ MemoryCounted' /\ ForgetsAll'
    <3>1. \A s \in Replicas : state[s] # "down" => CountedIn(memory'[s], granted'[s])
      BY <2>1 DEF CountsInv, MemoryCounted
    <3>2. \A s \in Replicas : \A c \in Counters : granted'[s][c] <= Limit[c[1][1]]
      <4>1. \A c \in Counters : granted'[r][c] <= Limit[c[1][1]]
        BY <2>1 DEF CountedIn
      <4> QED
        BY <2>1, <4>1 DEF CountsInv, WithinLimits
    <3> QED
      BY <2>1, <3>1, <3>2 DEF CountsInv, WithinLimits, MemoryCounted, ForgetsAll
  <2>3. ValkeyCounted'
    <3>1. \A c \in Counters :
            granted[NoReplica][c] \in Nat /\ valkey[c] \in Nat /\ valkey'[c] \in Nat
      BY <2>1 DEF CountsInv, CountsTyped
    <3> QED
      BY <2>1, <3>1 DEF CountsInv, ValkeyCounted
  <2>4. failed' \in [Starts -> Nat] => CountsTyped'
    BY <2>1 DEF CountsInv, CountsTyped
  <2> QED
    BY <2>1, <2>2, <2>3, <2>4
<1> QED
  BY <1>1, <1>2 DEF take

\* A step of a request leaves the others alone and the request where it is, and moves
\* neither the replicas nor the world.
LEMMA HandleStays ==
  ASSUME SlotsTyped, NEW q \in Requests, Handle(q)
  PROVE  /\ UNCHANGED <<state, since, stops, clock, reached, outages>>
         /\ req[q].phase \in Open
         /\ \A p \in Requests \ {q} : req'[p] = req[p]
         /\ req'[q].phase \in Open => req'[q].at = req[q].at
<1>0. req[q] \in Request /\ req \in [Requests -> Request]
  BY DEF SlotsTyped
<1>1. UNCHANGED <<state, since, stops, clock, reached, outages>>
  BY DEF Handle, AddressTaken, Peek, KeyTaken, Gate, Served, ServedThrows, Spend, replica, world
<1>2. req[q].phase \in Open
  BY DEF Handle, AddressTaken, Peek, KeyTaken, Gate, Served, ServedThrows, Spend, Phases, Open
<1>3. ASSUME Answer(q)
      PROVE  /\ \A p \in Requests \ {q} : req'[p] = req[p]
             /\ req'[q].phase \notin Open
  <2>1. req' = [req EXCEPT ![q] = [Unborn EXCEPT !.phase = "answered"]]
    BY <1>3 DEF Answer, Ended
  <2>2. req'[q].phase = "answered"
    BY <1>0, <2>1, UnbornBut DEF Phases
  <2> QED
    BY <1>0, <2>1, <2>2 DEF Open
<1>4. CASE AddressTaken(q)
  BY <1>0, <1>1, <1>2, <1>4 DEF AddressTaken, Request
<1>5. CASE Peek(q)
  BY <1>0, <1>1, <1>2, <1>5 DEF Peek, Request
<1>6. CASE KeyTaken(q)
  BY <1>0, <1>1, <1>2, <1>6 DEF KeyTaken, Request
<1>7. CASE Gate(q)
  BY <1>0, <1>1, <1>2, <1>7 DEF Gate, Request
<1>8. CASE Served(q)
  BY <1>0, <1>1, <1>2, <1>3, <1>8 DEF Served, Request
<1>9. CASE ServedThrows(q)
  BY <1>0, <1>1, <1>2, <1>3, <1>9 DEF ServedThrows
<1>10. CASE Spend(q)
  BY <1>0, <1>1, <1>2, <1>3, <1>10 DEF Spend, Request
<1> QED
  BY <1>4, <1>5, <1>6, <1>7, <1>8, <1>9, <1>10 DEF Handle

LEMMA HandleKeepsCounts ==
  ASSUME SlotsInv, CountsInv, NEW q \in Requests, Handle(q)
  PROVE  CountsInv'
<1>r. PICK r : r = req[q].at
  OBVIOUS
<1>0. /\ req[q] \in Request /\ req[q].phase \in Open
      /\ r \in Replicas /\ state[r] # "down"
      /\ req[q].now \in 0 .. MaxClock /\ req[q].ended \in 0 .. MaxClock
      /\ req[q].keys \subseteq Accounts
  BY <1>r, HandleStays DEF SlotsInv, SlotsTyped, Routed, CountsInv, NobodyThere, Request
<1>1. UNCHANGED <<state, outages, reached, clock>> /\ NobodyThere' /\ StatesKnown'
  <2>1. /\ UNCHANGED <<state, outages, reached, clock>>
        /\ \A p \in Requests \ {q} : req'[p] = req[p]
        /\ req'[q].phase \in Open => req'[q].at = req[q].at
    BY HandleStays DEF SlotsInv
  <2> QED
    BY <1>0, <2>1 DEF CountsInv, NobodyThere, StatesKnown
<1>2. ASSUME limits' = limits, failed' = failed
      PROVE  CountsInv'
  BY <1>1, <1>2 DEF limits, CountsInv, CountsTyped, ValkeyCounted, WithinLimits, MemoryCounted,
     CountedIn, ForgetsAll, RefusalsCounted
<1>t. ASSUME NEW l, NEW key, Pairs(l, key), NEW ok \in BOOLEAN, NEW t \in 0 .. MaxClock,
             take(req[q].at, l, key, t, ok), failed' \in [Starts -> Nat]
      PROVE  /\ CountsTyped' /\ ValkeyCounted' /\ WithinLimits' /\ MemoryCounted' /\ ForgetsAll'
             /\ \A c \in Counters : valkey[c] <= valkey'[c]
             /\ reached => valkey' = Raised(valkey, <<<<l, key>>, windowStart(t)>>)
  <2>1. take(r, l, key, t, ok) /\ state' = state /\ outages' = outages
        /\ reached' = reached /\ clock' = clock
    BY <1>r, <1>1, <1>t
  <2> QED
    BY <1>0, <1>t, <2>1, TakeKeepsCounts
<1>3. \A w \in Starts : failed[w] \in Nat /\ <<<<"authFailures", Address>>, w>> \in Counters
                        /\ valkey[<<<<"authFailures", Address>>, w>>] \in Nat
  BY DEF CountsInv, CountsTyped, Counters, Limited
<1>4. ASSUME NEW l, NEW key, Pairs(l, key), NEW ok \in BOOLEAN,
             take(req[q].at, l, key, req[q].now, ok), failed' = failed
      PROVE  CountsInv'
  <2>1. /\ CountsTyped' /\ ValkeyCounted' /\ WithinLimits' /\ MemoryCounted' /\ ForgetsAll'
        /\ \A c \in Counters : valkey[c] <= valkey'[c]
    <3>1. failed' \in [Starts -> Nat]
      BY <1>4 DEF CountsInv, CountsTyped
    <3> QED
      BY <1>0, <1>4, <1>t, <3>1
  <2>2. RefusalsCounted'
    <3>1. \A w \in Starts : valkey'[<<<<"authFailures", Address>>, w>>] \in Nat
      BY <1>3, <2>1 DEF CountsTyped
    <3> QED
      BY <1>1, <1>3, <1>4, <2>1, <3>1 DEF CountsInv, RefusalsCounted
  <2> QED
    BY <1>1, <2>1, <2>2 DEF CountsInv
<1>5. CASE AddressTaken(q)
  <2>1. Pairs("addressLimit", Address)
    BY GatewayAssumption DEF Pairs, Limiters, Limited
  <2> QED
    BY <1>4, <1>5, <2>1 DEF AddressTaken
<1>6. CASE KeyTaken(q)
  <2>1. \A key \in req[q].keys : Pairs("credentialLimit", key)
    BY <1>0, GatewayAssumption DEF Pairs, Limiters, Limited
  <2>2. PICK key \in req[q].keys, ok \in BOOLEAN :
          take(req[q].at, "credentialLimit", key, req[q].now, ok) /\ failed' = failed
    BY <1>6 DEF KeyTaken
  <2> QED
    BY <1>4, <2>1, <2>2
<1>7. CASE Peek(q) \/ Gate(q) \/ Served(q) \/ ServedThrows(q)
  BY <1>2, <1>7 DEF Peek, Gate, Served, ServedThrows, limits
<1>8. CASE Spend(q)
  <2>1. PICK ok \in BOOLEAN : take(req[q].at, "authFailures", Address, req[q].ended, ok)
    BY <1>8 DEF Spend, spentAt
  <2>s. PICK start : start = windowStart(req[q].ended)
    OBVIOUS
  <2>2. failed' = [failed EXCEPT ![start] = @ + 1] /\ start \in Starts
    BY <1>0, <1>8, <2>s, StartsAre DEF Spend
  <2>3. Pairs("authFailures", Address)
    BY GatewayAssumption DEF Pairs, Limiters, Limited
  <2>4. failed' \in [Starts -> Nat]
    BY <2>2 DEF CountsInv, CountsTyped
  <2>5. /\ CountsTyped' /\ ValkeyCounted' /\ WithinLimits' /\ MemoryCounted' /\ ForgetsAll'
        /\ reached => valkey' = Raised(valkey, <<<<"authFailures", Address>>, start>>)
    BY <1>0, <1>t, <2>s, <2>1, <2>3, <2>4
  <2>6. RefusalsCounted'
    <3>0. outages' = 0 => reached'
      BY <1>1 DEF CountsInv, RefusalsCounted
    <3> SUFFICES ASSUME outages = 0, NEW w \in Starts
                 PROVE  failed'[w] <= valkey'[<<<<"authFailures", Address>>, w>>]
      BY <1>1, <3>0 DEF RefusalsCounted
    <3>1. /\ reached
          /\ failed[w] <= valkey[<<<<"authFailures", Address>>, w>>]
      BY DEF CountsInv, RefusalsCounted
    <3>2. valkey' = [valkey EXCEPT ![<<<<"authFailures", Address>>, start>>] = @ + 1]
      BY <2>5, <3>1 DEF Raised
    <3>3. CASE w = start
      BY <1>3, <2>2, <3>1, <3>2, <3>3 DEF CountsInv, CountsTyped
    <3>4. CASE w # start
      BY <1>3, <2>2, <3>1, <3>2, <3>4 DEF CountsInv, CountsTyped
    <3> QED
      BY <3>1, <3>3, <3>4
  <2> QED
    BY <1>1, <2>5, <2>6 DEF CountsInv
<1> QED
  BY <1>5, <1>6, <1>7, <1>8 DEF Handle

-----------------------------------------------------------------------------
(* The specification.                                                      *)

IInv == SlotsInv /\ CountsInv

LEMMA InitInv == Init => IInv
<1> SUFFICES ASSUME Init PROVE IInv
  OBVIOUS
<1> USE GatewayAssumption
<1>1. Unborn \in Request /\ Unborn.phase = "idle"
  BY UnbornBut DEF Phases
<1>2. \A q \in Requests : req[q] = Unborn
  BY DEF Init
<1>3. SlotsTyped
  BY <1>1 DEF Init, SlotsTyped, Routed, Owed, Open
<1>4. \A r \in Replicas : Holders(r) = {}
  BY <1>1, <1>2 DEF Holders, Holding
<1>5. SlotsPaired
  BY <1>4, SlotsPairedAre, FS_EmptySet DEF Init
<1>6. NoCounts \in Memory /\ NoCounts.start = -1
  BY DEF NoCounts, Memory
<1>7. CountsTyped
  BY <1>6 DEF Init, CountsTyped, None
<1>8. ValkeyCounted /\ WithinLimits
  BY CounterParts DEF Init, ValkeyCounted, WithinLimits, None
<1>9. MemoryCounted
  <2>1. \A r \in Replicas : \A c \in Counters :
          granted[r][c] = 0 /\ c[2] \in Nat /\ memory[r][c[1][1]] = NoCounts
    BY CounterParts, StartsAre DEF Init, None
  <2> QED
    BY <1>6, <1>8, <2>1 DEF MemoryCounted, CountedIn, WithinLimits
<1>10. StatesKnown /\ NobodyThere /\ ForgetsAll /\ RefusalsCounted
  <2>1. \A w \in Starts : failed[w] = 0 /\ valkey[<<<<"authFailures", Address>>, w>>] = 0
    BY DEF Init, None, Counters, Limited
  <2> QED
    BY <1>1, <1>2, <2>1 DEF Init, StatesKnown, NobodyThere, ForgetsAll, RefusalsCounted, Open
<1> QED
  BY <1>3, <1>5, <1>7, <1>8, <1>9, <1>10 DEF IInv, SlotsInv, CountsInv

\* A request that arrives gets no slot yet, and its replica is up.
LEMMA ArriveKeepsInv ==
  ASSUME IInv, NEW q \in Requests, NEW r \in Replicas, Arrive(q, r)
  PROVE  IInv'
<1>1. PICK tenant \in BOOLEAN :
        req' = [req EXCEPT ![q] = [Unborn EXCEPT
                  !.phase = IF tenant THEN "address" ELSE "gate",
                  !.at = r, !.tenant = tenant, !.now = clock]]
  BY DEF Arrive
<1>2. PICK phase \in {"address", "gate"} : phase = IF tenant THEN "address" ELSE "gate"
  OBVIOUS
<1>3. PICK rec : rec = [Unborn EXCEPT
                  !.phase = phase, !.at = r, !.tenant = tenant, !.now = clock]
  OBVIOUS
<1>4. req' = [req EXCEPT ![q] = rec]
  BY <1>1, <1>2, <1>3
<1>5. rec \in Request /\ rec.phase = phase /\ rec.at = r
  <2>1. Unborn \in Request /\ phase \in Phases /\ clock \in 0 .. MaxClock
    BY <1>2, UnbornBut DEF Phases, IInv, CountsInv, CountsTyped
  <2> QED
    BY <1>3, <2>1 DEF Request
<1>6. Becomes(q, rec)
  BY <1>2, <1>4, <1>5 DEF Becomes
<1>7. /\ req[q].phase \notin Holding /\ phase \notin Holding /\ inFlight' = inFlight
      /\ state[r] # "down"
  BY <1>2 DEF Arrive, Holding
<1>8. SlotsInv'
  BY <1>5, <1>6, <1>7, KeepsSlots DEF IInv
<1>9. UNCHANGED <<limits, state, clock, reached, outages, failed>>
  BY DEF Arrive, replica, world
<1>10. NobodyThere'
  <2>1. req'[q] = rec /\ \A p \in Requests \ {q} : req'[p] = req[p]
    BY <1>4 DEF IInv, SlotsInv, SlotsTyped
  <2> QED
    BY <1>5, <1>7, <1>9, <2>1 DEF IInv, CountsInv, NobodyThere
<1>11. CountsInv'
  BY <1>9, <1>10 DEF limits, IInv, StatesKnown, CountsInv, CountsTyped, ValkeyCounted, WithinLimits,
     MemoryCounted, CountedIn, ForgetsAll, RefusalsCounted
<1> QED
  BY <1>8, <1>11 DEF IInv

\* A replica that exits takes its requests, its slots and its counts with it.
LEMMA ExitKeepsInv ==
  ASSUME IInv, NEW r \in Replicas, Exit(r)
  PROVE  IInv'
<1> DEFINE gone == [Unborn EXCEPT !.phase = "answered"]
<1>0. gone \in Request /\ gone.phase = "answered"
  BY UnbornBut DEF Phases
<1> HIDE DEF gone
<1>1. /\ req' = [q \in Requests |-> IF q \in OpenAt(r) THEN gone ELSE req[q]]
      /\ inFlight' = [inFlight EXCEPT ![r] = 0]
      /\ memory' = [memory EXCEPT ![r] = [l \in Limiters |-> NoCounts]]
      /\ state' = [state EXCEPT ![r] = "down"]
      /\ UNCHANGED <<valkey, granted, clock, reached, outages, failed>>
  BY DEF Exit, gone, world
<1>2. \A q \in Requests :
        /\ q \in OpenAt(r) <=> req[q].at = r /\ req[q].phase \in Open
        /\ q \in OpenAt(r) => req'[q].phase = "answered"
        /\ q \notin OpenAt(r) => req'[q] = req[q]
  BY <1>0, <1>1 DEF OpenAt
<1>3. SlotsTyped'
  <2>1. req' \in [Requests -> Request]
    BY <1>0, <1>1 DEF IInv, SlotsInv, SlotsTyped
  <2>2. Routed' /\ Owed'
    BY <1>2 DEF IInv, SlotsInv, SlotsTyped, Routed, Owed, Open
  <2>3. inFlight' \in [Replicas -> 0 .. MaxInflight]
    BY <1>1, GatewayAssumption DEF IInv, SlotsInv, SlotsTyped
  <2> QED
    BY <2>1, <2>2, <2>3 DEF SlotsTyped
<1>4. SlotsPaired'
  <2>1. Holders(r)' = {}
    BY <1>2 DEF Holders, Holding, Open, Phases
  <2>2. \A s \in Replicas \ {r} : Holders(s)' = Holders(s)
    <3> TAKE s \in Replicas \ {r}
    <3>1. \A q \in Requests : q \in Holders(s)' <=> q \in Holders(s)
      BY <1>2 DEF Holders, Holding
    <3> QED
      BY <3>1 DEF Holders
  <2>3. \A s \in Replicas : inFlight'[s] = Cardinality(Holders(s)') /\ inFlight'[s] <= MaxInflight
    BY <1>1, <2>1, <2>2, FS_EmptySet, SlotsPairedAre, GatewayAssumption
       DEF IInv, SlotsInv, SlotsTyped
  <2> QED
    BY <2>3 DEF SlotsPaired, Holders
<1>5. CountsTyped'
  <2>1. NoCounts \in Memory
    BY DEF NoCounts, Memory
  <2> QED
    BY <1>1, <2>1 DEF IInv, CountsInv, CountsTyped
<1>6. MemoryCounted' /\ ForgetsAll'
  <2>1. \A s \in Replicas : \/ state'[s] = "down" /\ memory'[s] = [l \in Limiters |-> NoCounts]
                            \/ state'[s] = state[s] /\ memory'[s] = memory[s]
    BY <1>1 DEF StatesKnown, IInv, CountsInv, CountsTyped
  <2> QED
    BY <1>1, <2>1 DEF IInv, CountsInv, MemoryCounted, ForgetsAll
<1>7. NobodyThere'
  BY <1>1, <1>2 DEF StatesKnown, IInv, CountsInv, NobodyThere, Open
<1> QED
  BY <1>1, <1>3, <1>4, <1>5, <1>6, <1>7
     DEF IInv, SlotsInv, CountsInv, StatesKnown, ValkeyCounted, WithinLimits, RefusalsCounted

\* Nothing about slots changes.
LEMMA SlotsUnchanged ==
  ASSUME SlotsInv, UNCHANGED <<req, inFlight>>
  PROVE  SlotsInv'
BY DEF SlotsInv, SlotsTyped, Routed, Owed, SlotsPaired

\* A replica that starts has counted nothing, and let nothing through.
LEMMA RestartKeepsInv ==
  ASSUME IInv, NEW r \in Replicas, Restart(r)
  PROVE  IInv'
<1>1. /\ state[r] = "down" /\ state' = [state EXCEPT ![r] = "up"]
      /\ granted' = [granted EXCEPT ![r] = None]
      /\ UNCHANGED <<valkey, memory, clock, reached, outages, inFlight, req, failed>>
  BY DEF Restart, world
<1>2. SlotsInv'
  BY <1>1, SlotsUnchanged DEF IInv
<1>3. None \in [Counters -> Nat] /\ \A c \in Counters : None[c] = 0
  BY DEF None
<1>4. CountsTyped'
  BY <1>1, <1>3 DEF IInv, CountsInv, CountsTyped
<1>5. /\ granted'[NoReplica] = granted[NoReplica]
      /\ granted'[r] = None
      /\ \A s \in Replicas \ {r} : granted'[s] = granted[s]
  BY <1>1, GatewayAssumption DEF IInv, CountsInv, CountsTyped
<1>6. ValkeyCounted' /\ WithinLimits'
  BY <1>1, <1>3, <1>5, CounterParts DEF IInv, CountsInv, ValkeyCounted, WithinLimits
<1>7. CountedIn(memory[r], None)
  <2>1. \A c \in Counters : /\ memory[r][c[1][1]] = NoCounts
                            /\ c[2] \in Nat /\ c[1][2] \in Counted /\ Limit[c[1][1]] \in Nat
    BY <1>1, CounterParts, StartsAre DEF IInv, CountsInv, ForgetsAll
  <2>2. NoCounts.start = -1 /\ \A k \in Counted : NoCounts.counts[k] = 0
    BY DEF NoCounts
  <2> QED
    BY <1>3, <2>1, <2>2 DEF CountedIn
<1>8. /\ state'[r] = "up" /\ \A s \in Replicas \ {r} : state'[s] = state[s]
      /\ DOMAIN state' = Replicas
  BY <1>1 DEF IInv, CountsInv, StatesKnown
<1>9. MemoryCounted' /\ ForgetsAll'
  BY <1>1, <1>5, <1>7, <1>8 DEF IInv, CountsInv, MemoryCounted, ForgetsAll
<1>10. NobodyThere'
  BY <1>1, <1>8 DEF IInv, SlotsInv, SlotsTyped, Routed, CountsInv, NobodyThere
<1> QED
  BY <1>1, <1>2, <1>4, <1>6, <1>8, <1>9, <1>10
     DEF IInv, CountsInv, StatesKnown, RefusalsCounted

LEMMA NextKeepsInv == IInv /\ [Next]_vars => IInv'
<1> SUFFICES ASSUME IInv, [Next]_vars PROVE IInv'
  OBVIOUS
<1>1. ASSUME NEW q \in Requests, Handle(q) PROVE IInv'
  BY <1>1, HandleKeepsSlots, HandleKeepsCounts DEF IInv, CountsInv, CountsTyped
<1>2. ASSUME NEW q \in Requests, NEW r \in Replicas, Arrive(q, r) PROVE IInv'
  BY <1>2, ArriveKeepsInv
<1>3. ASSUME NEW r \in Replicas, Shutdown(r) PROVE IInv'
  <2>1. /\ state[r] = "up" /\ state' = [state EXCEPT ![r] = "draining"]
        /\ UNCHANGED <<valkey, memory, granted, clock, reached, outages, inFlight, req, failed>>
    BY <1>3 DEF Shutdown, limits, world
  <2>2. /\ DOMAIN state' = Replicas
        /\ \A s \in Replicas : state'[s] = "down" <=> state[s] = "down"
    BY <2>1 DEF IInv, CountsInv, StatesKnown
  <2>3. NobodyThere'
    BY <2>1, <2>2 DEF IInv, SlotsInv, SlotsTyped, Routed, CountsInv, NobodyThere
  <2> QED
    BY <2>1, <2>2, <2>3, SlotsUnchanged DEF IInv, CountsInv, CountsTyped, ValkeyCounted,
       WithinLimits, MemoryCounted, CountedIn, StatesKnown, ForgetsAll, RefusalsCounted
<1>4. ASSUME NEW r \in Replicas, Closed(r) \/ Deadline(r) PROVE IInv'
  BY <1>4, ExitKeepsInv DEF Closed, Deadline
<1>5. ASSUME NEW r \in Replicas, Restart(r) PROVE IInv'
  BY <1>5, RestartKeepsInv
<1>6. CASE Outage
  <2>1. outages' # 0 /\ outages' \in Nat /\ reached' \in BOOLEAN
    <3>1. outages \in Nat /\ reached \in BOOLEAN /\ (outages = 0 => reached)
      BY DEF IInv, CountsInv, CountsTyped, RefusalsCounted
    <3>2. reached' = ~reached /\ outages' = IF reached THEN outages + 1 ELSE outages
      BY <1>6 DEF Outage
    <3>3. reached' \in BOOLEAN
      BY <3>2
    <3>4. outages' # 0 /\ outages' \in Nat
      BY <3>1, <3>2
    <3> QED
      BY <3>3, <3>4
  <2> QED
    BY <1>6, <2>1, SlotsUnchanged DEF Outage, limits, replica, IInv, CountsInv, CountsTyped,
       ValkeyCounted, WithinLimits, MemoryCounted, CountedIn, StatesKnown, NobodyThere,
       ForgetsAll, RefusalsCounted
<1>7. CASE Tick
  <2>1. clock' \in 0 .. MaxClock
    BY <1>7, GatewayAssumption DEF Tick, IInv, CountsInv, CountsTyped
  <2> QED
    BY <1>7, <2>1, SlotsUnchanged DEF Tick, limits, replica, IInv, CountsInv, CountsTyped,
       ValkeyCounted, WithinLimits, MemoryCounted, CountedIn, StatesKnown, NobodyThere,
       ForgetsAll, RefusalsCounted
<1>8. CASE UNCHANGED vars
  BY <1>8, SlotsUnchanged DEF vars, IInv, CountsInv, CountsTyped,
     ValkeyCounted, WithinLimits, MemoryCounted, CountedIn, StatesKnown, NobodyThere,
     ForgetsAll, RefusalsCounted
<1> QED
  BY <1>1, <1>2, <1>3, <1>4, <1>5, <1>6, <1>7, <1>8 DEF Next

\* Only its own handler moves a request that waits at the peek.
LEMMA OnlyItsHandler ==
  ASSUME IInv, [Next]_vars, NEW q \in Requests,
         req[q].phase = "peek", req'[q].phase = "keys"
  PROVE  Handle(q)
<1>0. req \in [Requests -> Request] /\ req'[q] # req[q]
  BY DEF IInv, SlotsInv, SlotsTyped
<1>1. ASSUME NEW p \in Requests, Handle(p) PROVE Handle(q)
  BY <1>0, <1>1, HandleStays DEF IInv, SlotsInv
<1>2. ASSUME NEW p \in Requests, NEW r \in Replicas, Arrive(p, r) PROVE FALSE
  BY <1>0, <1>2 DEF Arrive
<1>3. ASSUME NEW r \in Replicas, Exit(r) PROVE FALSE
  <2>1. [Unborn EXCEPT !.phase = "answered"].phase = "answered"
    BY UnbornBut DEF Phases
  <2> QED
    BY <1>0, <1>3, <2>1 DEF Exit
<1>4. ASSUME NEW r \in Replicas, Shutdown(r) \/ Restart(r) PROVE FALSE
  BY <1>0, <1>4 DEF Shutdown, Restart
<1>5. CASE Outage \/ Tick \/ UNCHANGED vars
  BY <1>0, <1>5 DEF Outage, Tick, vars
<1> QED
  BY <1>1, <1>2, <1>3, <1>4, <1>5 DEF Next, Closed, Deadline

LEMMA Invariance == Spec => []IInv
  BY InitInv, NextKeepsInv, PTL DEF Spec

\* Every slot of a replica is held by a request, whatever throws, refused keys and
\* shutdowns come in between (inflight.ts, app.ts).
THEOREM SlotsArePaired == Spec => []SlotsPaired
<1>1. IInv => SlotsPaired
  BY DEF IInv, SlotsInv
<1> QED
  BY <1>1, Invariance, PTL

\* No counter, shared or of one replica, lets through more than its limit in a window,
\* whatever outages and late requests there are (rate-limit.ts, valkey.ts).
THEOREM CountersHold == Spec => []EachCounterHolds
<1>1. IInv => EachCounterHolds
  BY DEF IInv, CountsInv, ValkeyCounted, WithinLimits, EachCounterHolds
<1> QED
  BY <1>1, Invariance, PTL

\* While Valkey has been there all along, an address whose keys were refused to the limit
\* is stopped at its next request in that window, on every replica (tenant.ts, app.ts).
THEOREM ArrivalsStopped == Spec => RefusalsStopArrivals
<1> DEFINE Stops(q) == req[q].phase = "peek" /\ req'[q].phase = "keys"
                         => failed[windowStart(req[q].now)] < Limit["authFailures"]
<1>1. IInv /\ [Next]_vars => [outages' = 0 => \A q \in Requests : Stops(q)]_vars
  <2> SUFFICES ASSUME IInv, [Next]_vars, outages' = 0, NEW q \in Requests,
                      req[q].phase = "peek", req'[q].phase = "keys"
               PROVE  failed[windowStart(req[q].now)] < Limit["authFailures"]
    OBVIOUS
  <2>1. Peek(q)
    <3>1. Handle(q)
      BY OnlyItsHandler
    <3> QED
      BY <3>1 DEF Handle, AddressTaken, Peek, KeyTaken, Gate, Served, ServedThrows, Spend
  <2>2. outages = 0
    BY <2>1 DEF Peek, world
  <2> DEFINE start == windowStart(req[q].now)
  <2>3. start \in Starts
    BY StartsAre DEF IInv, SlotsInv, SlotsTyped, Request
  <2>4. reached /\ failed[start] <= valkey[<<<<"authFailures", Address>>, start>>]
    BY <2>2, <2>3 DEF IInv, CountsInv, RefusalsCounted
  <2>5. valkey[<<<<"authFailures", Address>>, start>>] < Limit["authFailures"]
    <3>1. req'[q].phase # "answered"
      OBVIOUS
    <3>2. req' # [req EXCEPT ![q].phase = "answered"]
      BY DEF IInv, SlotsInv, SlotsTyped, Request
    <3> QED
      BY <2>1, <2>4, <3>2 DEF Peek, peek
  <2>6. /\ failed[start] \in Nat /\ Limit["authFailures"] \in Nat
        /\ valkey[<<<<"authFailures", Address>>, start>>] \in Nat
    BY <2>3, GatewayAssumption DEF IInv, CountsInv, CountsTyped, Counters, Limited, Limiters
  <2> QED
    BY <2>4, <2>5, <2>6
<1> QED
  BY <1>1, Invariance, PTL DEF Spec, RefusalsStopArrivals
=============================================================================
