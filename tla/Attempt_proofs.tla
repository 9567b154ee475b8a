---------------------------- MODULE Attempt_proofs ----------------------------
(***************************************************************************)
(* Proofs about Attempt: for every chain, deadline, list of caps and size  *)
(* of body, the loop with its attempts opened up is a walk of its plan,    *)
(* and what it records of an attempt is true of what happened.             *)
(***************************************************************************)
EXTENDS Attempt, TLAPS

\* What a hop may spend is within what is left, and beyond its own floor it spends
\* only what the floors of the hops behind it do not need (budget.ts, hopBudget).
LEMMA ShareIsWithin ==
  ASSUME NEW left \in Int, NEW hops \in Nat, NEW most \in Nat, ~Exhausted(left)
  PROVE  /\ perAttempt(left, hops, most) \in Nat
         /\ perAttempt(left, hops, most) <= left
         /\ \/ perAttempt(left, hops, most) <= MinUseful
            \/ left - perAttempt(left, hops, most) >= hops * MinUseful
<1> DEFINE reserve == hops * MinUseful
<1>1. reserve \in Nat
  BY MinUsefulAssumption
<1> HIDE DEF reserve
<1>2. /\ Lesser(Greater(MinUseful, Lesser(most, left - reserve)), most) \in Nat
      /\ Lesser(Greater(MinUseful, Lesser(most, left - reserve)), most) <= left
      /\ \/ Lesser(Greater(MinUseful, Lesser(most, left - reserve)), most) <= MinUseful
         \/ left - Lesser(Greater(MinUseful, Lesser(most, left - reserve)), most) >= reserve
  BY <1>1, MinUsefulAssumption DEF Exhausted, Lesser, Greater
<1> QED
  BY <1>2 DEF reserve, perAttempt

Counted ==
  /\ deadline \in Deadlines /\ i \in 0 .. Hops
  /\ clock \in Nat /\ lost \in 0 .. Overhead
  /\ launched \in Nat /\ share \in Nat

\* An attempt runs for a hop of an unfinished walk, with the share it was given when
\* it was launched, and until that has passed: its timer stays set, or has fired.
WithinShare ==
  phase # "idle" =>
    /\ ended = "no" /\ i < Hops
    /\ ~Exhausted(deadline - launched)
    /\ share = perAttempt(deadline - launched, Hops - i - 1, Cap[i])
    /\ launched <= clock /\ clock - launched <= share
    /\ timer \/ aborted

IInv == Counted /\ WithinShare

LEMMA InitInv == Init => IInv
BY ChainPlanAssumption DEF Init, IInv, Counted, WithinShare

\* However an attempt ends, nothing of it is left.
LEMMA LeaveKeepsInv == ASSUME IInv, phase # "idle", Leave PROVE IInv'
<1>1. i' = i + 1 /\ i' \in 0 .. Hops
  BY ChainPlanAssumption DEF IInv, Counted, WithinShare, Leave
<1> QED
  BY <1>1 DEF IInv, Counted, WithinShare, Leave, request, time

Ends == TooLarge \/ Fails \/ Reply \/ Caught

\* An answer or an abort takes leave of the attempt, and does not exhaust the walk.
LEMMA RecordLeaves ==
  ASSUME NEW fact, NEW o, Record(fact, o)
  PROVE  Leave /\ ended' # "exhausted"
BY DEF Record

LEMMA EndsLeave == ASSUME Ends PROVE phase # "idle" /\ Leave /\ ended' # "exhausted"
<1>1. CASE TooLarge
  BY <1>1, RecordLeaves DEF TooLarge
<1>2. CASE Fails
  BY <1>2, RecordLeaves DEF Fails
<1>3. CASE Reply
  <2>1. PICK fact, o : phase = "body" /\ Record(fact, o)
    BY <1>3 DEF Reply
  <2> QED
    BY <2>1, RecordLeaves
<1>4. CASE Caught
  BY <1>4, RecordLeaves DEF Caught
<1> QED
  BY <1>1, <1>2, <1>3, <1>4 DEF Ends

\* A launch gives the attempt its share of what is left now, and sets its timer.
LEMMA LaunchKeepsInv == ASSUME IInv, Launch PROVE IInv'
<1>1. /\ deadline' = deadline /\ i' = i /\ clock' = clock /\ lost' = lost
      /\ ended' = ended /\ ended = "no" /\ i < Hops
      /\ launched' = clock /\ timer' = TRUE
      /\ share' = perAttempt(deadline - clock, Hops - i - 1, Cap[i])
      /\ ~Exhausted(deadline - clock)
  BY DEF Launch, Launched, Between, request, time, walk
<1>2. share' \in Nat
  <2>1. deadline - clock \in Int /\ Hops - i - 1 \in Nat /\ Cap[i] \in Nat
    BY <1>1, ChainPlanAssumption DEF IInv, Counted
  <2> QED
    BY <1>1, <2>1, ShareIsWithin
<1>3. Counted'
  BY <1>1, <1>2 DEF IInv, Counted
<1>4. WithinShare'
  <2>1. clock - clock <= share'
    BY <1>2 DEF IInv, Counted
  <2> QED
    BY <1>1, <2>1 DEF IInv, Counted, WithinShare
<1> QED
  BY <1>3, <1>4 DEF IInv

\* Time does not pass an attempt whose timer is due.
LEMMA TickKeepsInv == ASSUME IInv, Tick PROVE IInv'
<1>1. /\ UNCHANGED <<deadline, i, lost, launched, share, phase, timer, aborted, ended>>
      /\ clock' = clock + 1 /\ ~aborted /\ phase # "idle"
      /\ ~(timer /\ clock - launched >= share)
  BY DEF Tick, request, walk, budget
<1>2. launched <= clock' /\ clock' - launched <= share
  BY <1>1 DEF IInv, Counted, WithinShare
<1> QED
  BY <1>1, <1>2 DEF IInv, Counted, WithinShare

LEMMA NextKeepsInv == IInv /\ [Next]_vars => IInv'
<1> SUFFICES ASSUME IInv, [Next]_vars PROVE IInv'
  OBVIOUS
<1>1. CASE Wait
  <2>1. lost' \in 0 .. Overhead /\ clock' \in Nat
    BY <1>1, ChainPlanAssumption DEF Wait, IInv, Counted
  <2> QED
    BY <1>1, <2>1 DEF Wait, Between, IInv, Counted, WithinShare, request, walk, budget
<1>2. CASE Launch
  BY <1>2, LaunchKeepsInv
<1>3. CASE GiveUp
  BY <1>3 DEF GiveUp, Between, IInv, Counted, WithinShare, request, time, budget
<1>4. CASE Headers \/ Chunk
  BY <1>4 DEF Headers, Chunk, IInv, Counted, WithinShare, request, time, walk, budget
<1>5. CASE Ends
  BY <1>5, EndsLeave, LeaveKeepsInv
<1>6. CASE TimerFires
  BY <1>6 DEF TimerFires, IInv, Counted, WithinShare, request, time, walk, budget
<1>7. CASE HangUp
  BY <1>7 DEF HangUp, IInv, Counted, WithinShare, request, time, walk, budget
<1>8. CASE Tick
  BY <1>8, TickKeepsInv
<1>9. CASE UNCHANGED vars
  BY <1>9 DEF vars, IInv, Counted, WithinShare, request, time, walk, budget
<1> QED
  BY <1>1, <1>2, <1>3, <1>4, <1>5, <1>6, <1>7, <1>8, <1>9 DEF Next, Ends, Finished

LEMMA Invariance == Spec => []IInv
  BY InitInv, NextKeepsInv, PTL DEF Spec

-----------------------------------------------------------------------------
\* The walk divides its time as its attempts do.
LEMMA SameArithmetic ==
  /\ \A left : Walk!Exhausted(left) <=> Exhausted(left)
  /\ \A left, hops, most : Walk!perAttempt(left, hops, most) = perAttempt(left, hops, most)
BY DEF Walk!Exhausted, Exhausted, Walk!perAttempt, perAttempt,
       Walk!Lesser, Lesser, Walk!Greater, Greater

\* An attempt that is over was one attempt of the walk: what it spent is within what
\* hopBudget gave it.
LEMMA EndsIsAttempt == ASSUME IInv, Ends PROVE Walk!Attempt
<1>1. /\ phase # "idle" /\ ended' # "exhausted" /\ phase' = "idle" /\ i' = i + 1
      /\ UNCHANGED <<deadline, clock, lost>>
  BY EndsLeave DEF Leave, request, time
<1>2. /\ ended = "no" /\ i < Hops /\ ~Exhausted(deadline - launched)
      /\ share = perAttempt(deadline - launched, Hops - i - 1, Cap[i])
      /\ launched <= clock /\ clock - launched <= share
      /\ deadline \in Int /\ launched \in Nat /\ clock \in Nat /\ share \in Nat
  BY <1>1, ChainPlanAssumption DEF IInv, Counted, WithinShare
<1> DEFINE spent == clock - launched
<1>3. spent \in 0 .. share /\ deadline - clock = (deadline - launched) - spent
  BY <1>2
<1> HIDE DEF spent
<1>4. \E d \in 0 .. perAttempt(deadline - launched, Hops - i - 1, Cap[i]) :
        deadline - clock = (deadline - launched) - d
  BY <1>2, <1>3
<1> QED
  BY <1>1, <1>2, <1>4, SameArithmetic DEF Walk!Attempt, Walk!hopsLeft

LEMMA StepIsWalk == IInv /\ [Next]_vars => [Walk!Next]_(Walk!vars)
<1> SUFFICES ASSUME IInv, [Next]_vars PROVE [Walk!Next]_(Walk!vars)
  OBVIOUS
<1>1. CASE Wait
  <2>1. /\ 1 \in 1 .. Overhead - lost /\ lost' = lost + 1
        /\ deadline - (clock + 1) = (deadline - clock) - 1
    BY <1>1, ChainPlanAssumption DEF Wait, IInv, Counted
  <2>2. /\ phase = "idle" /\ phase' = phase /\ clock' = clock + 1
        /\ i < Hops /\ ended = "no"
        /\ UNCHANGED <<deadline, i, ended>>
    BY <1>1 DEF Wait, Between, request, walk
  <2>3. Walk!Wait
    BY <2>1, <2>2 DEF Walk!Wait
  <2> QED
    BY <2>3 DEF Walk!Next
<1>2. CASE Launch
  BY <1>2 DEF Launch, Launched, Between, request, time, walk, Walk!vars
<1>3. CASE GiveUp
  <2>1. Walk!GiveUp
    BY <1>3, SameArithmetic DEF GiveUp, Between, request, time, Walk!GiveUp
  <2> QED
    BY <2>1 DEF Walk!Next
<1>4. CASE Headers \/ Chunk
  BY <1>4 DEF Headers, Chunk, request, time, walk, budget, Walk!vars
<1>5. CASE Ends
  BY <1>5, EndsIsAttempt DEF Walk!Next
<1>6. CASE TimerFires \/ HangUp
  BY <1>6 DEF TimerFires, HangUp, request, time, walk, budget, Walk!vars
<1>7. CASE Tick
  BY <1>7 DEF Tick, request, walk, budget, Walk!vars
<1>8. CASE UNCHANGED vars
  BY <1>8 DEF vars, request, time, walk, budget, Walk!vars
<1> QED
  BY <1>1, <1>2, <1>3, <1>4, <1>5, <1>6, <1>7, <1>8 DEF Next, Ends, Finished

\* The loop of runChain with its attempts opened up - their bodies, timers, aborts and
\* answers - is a walk of its plan (chain.ts, the loop; transport.ts, the timer).
THEOREM AttemptsAreAWalk == Spec => ImplementsWalk
<1>1. Init => Walk!Init
  BY ChainPlanAssumption DEF Init, Walk!Init
<1> QED
  BY <1>1, StepIsWalk, Invariance, PTL DEF Spec, ImplementsWalk

\* No attempt outlives the caller's deadline (transport.ts: the timer covers the body).
THEOREM AttemptWithinDeadline == Spec => []WithinDeadline
<1>1. IInv => WithinDeadline
  <2> SUFFICES ASSUME IInv, phase # "idle" PROVE clock <= deadline
    BY DEF WithinDeadline
  <2>1. deadline - launched \in Int /\ Hops - i - 1 \in Nat /\ Cap[i] \in Nat
    BY ChainPlanAssumption DEF IInv, Counted, WithinShare
  <2>2. share <= deadline - launched
    BY <2>1, ShareIsWithin DEF IInv, WithinShare
  <2> QED
    BY <2>2, ChainPlanAssumption DEF IInv, Counted, WithinShare
<1> QED
  BY <1>1, Invariance, PTL

-----------------------------------------------------------------------------
\* What is left of the deadline: the walk's remaining.
Left == deadline - (IF phase = "idle" THEN clock ELSE launched)

ToGo == Hops - i

\* While the deadline was long enough, the floors of all hops to come are left, but
\* for what the walk itself has spent.
Reserved == deadline >= Hops * MinUseful => Left + lost >= ToGo * MinUseful

WalkInv == Reserved /\ EveryHopReached

LEMMA WalkTyped ==
  ASSUME IInv
  PROVE  deadline \in Nat /\ i \in 0 .. Hops /\ Left \in Int /\ lost \in Nat
BY ChainPlanAssumption DEF IInv, Counted, Left

LEMMA InitWalkInv == Init => WalkInv
<1> SUFFICES ASSUME Init PROVE WalkInv
  OBVIOUS
<1>1. ToGo = Hops /\ Left + lost = deadline
  BY ChainPlanAssumption DEF Init, ToGo, Left
<1> QED
  BY <1>1 DEF Init, WalkInv, Reserved, EveryHopReached, Walk!EveryHopReached

\* Time the walk spends moves from what is left to what is lost.
LEMMA WaitReserves == ASSUME IInv, WalkInv, Walk!Wait PROVE WalkInv'
<1>1. PICK d \in 1 .. Overhead - lost : lost' = lost + d /\ Left' = Left - d
  BY DEF Walk!Wait, Left
<1>2. deadline' = deadline /\ i' = i /\ ended' # "exhausted"
  BY DEF Walk!Wait
<1>3. Left' + lost' = Left + lost
  BY <1>1, WalkTyped
<1> QED
  BY <1>2, <1>3 DEF WalkInv, Reserved, ToGo, EveryHopReached, Walk!EveryHopReached

\* An attempt spends a floor at most, or leaves what is kept back.
LEMMA FloorSpentOrKept ==
  ASSUME NEW left \in Int, NEW after \in Int, NEW lostSoFar \in Nat, NEW most \in Nat,
         NEW kept \in Int, NEW floor \in Nat,
         left + lostSoFar >= kept + floor,
         after >= left - most,
         most <= floor \/ left - most >= kept
  PROVE  after + lostSoFar >= kept
OBVIOUS

LEMMA AttemptReserves == ASSUME IInv, WalkInv, Walk!Attempt PROVE WalkInv'
<1> DEFINE hops == Hops - i - 1
           most == perAttempt(Left, hops, Cap[i])
           rest == hops * MinUseful
<1>1. /\ deadline' = deadline /\ lost' = lost /\ ended' # "exhausted"
      /\ i < Hops /\ i' = i + 1 /\ ~Exhausted(Left)
  BY SameArithmetic DEF Walk!Attempt, Left
<1>2. PICK spent \in 0 .. most : Left' = Left - spent
  BY SameArithmetic DEF Walk!Attempt, Walk!hopsLeft, Left
<1>3. /\ i \in 0 .. Hops - 1 /\ hops \in Nat /\ Cap[i] \in Nat
      /\ Left \in Int /\ lost \in Nat /\ MinUseful \in Nat /\ Hops \in Nat
  BY <1>1, WalkTyped, ChainPlanAssumption, MinUsefulAssumption
<1>4. /\ most \in Nat /\ most <= Left
      /\ most <= MinUseful \/ Left - most >= rest
  BY <1>1, <1>3, ShareIsWithin
<1>5. Left' \in Int /\ Left' >= Left - most
  BY <1>2, <1>3, <1>4
<1>6. ASSUME deadline >= Hops * MinUseful
      PROVE  Left' + lost >= rest
  <2>1. Left + lost >= ToGo * MinUseful
    BY <1>6 DEF WalkInv, Reserved
  <2>2. ToGo = hops + 1
    BY <1>3 DEF ToGo
  <2> HIDE DEF hops
  <2>3. (hops + 1) * MinUseful = rest + MinUseful /\ rest \in Int
    BY <1>3
  <2>4. Left + lost >= rest + MinUseful
    BY <2>1, <2>2, <2>3
  <2> HIDE DEF most, rest
  <2> QED
    BY ONLY <1>3, <1>4, <1>5, <2>3, <2>4, FloorSpentOrKept
<1>7. ToGo' = hops
  BY <1>1, <1>3 DEF ToGo
<1> QED
  BY <1>1, <1>6, <1>7 DEF WalkInv, Reserved, EveryHopReached, Walk!EveryHopReached

\* Giving up means the floor of the hop at hand was not left.
LEMMA GiveUpReserves == ASSUME IInv, WalkInv, Walk!GiveUp PROVE WalkInv'
<1> DEFINE hops == Hops - i - 1
<1>1. /\ deadline' = deadline /\ lost' = lost /\ i' = i /\ i < Hops /\ Left' = Left
      /\ Exhausted(Left)
  BY SameArithmetic DEF Walk!GiveUp, Left
<1>2. /\ hops \in Nat /\ ToGo = hops + 1 /\ Left \in Int /\ lost \in Nat
      /\ MinUseful \in Nat /\ Left < MinUseful
  BY <1>1, WalkTyped, ChainPlanAssumption, MinUsefulAssumption DEF ToGo, Exhausted
<1>3. Reserved'
  BY <1>1 DEF WalkInv, Reserved, ToGo
<1>4. EveryHopReached'
  <2> SUFFICES ASSUME deadline >= Hops * MinUseful PROVE lost > hops * MinUseful
    BY <1>1 DEF EveryHopReached, Walk!EveryHopReached, Walk!hopsLeft
  <2>1. Left + lost >= (hops + 1) * MinUseful
    BY <1>2 DEF WalkInv, Reserved
  <2>2. (hops + 1) * MinUseful = hops * MinUseful + MinUseful /\ hops * MinUseful \in Nat
    BY <1>2
  <2> QED
    BY <1>2, <2>1, <2>2
<1> QED
  BY <1>3, <1>4 DEF WalkInv

\* Slow answers, trickled bodies and hang-ups starve no planned hop, whatever the
\* deadlines and the caps (budget.ts, the reserve).
THEOREM AttemptsStarveNoHop == Spec => []EveryHopReached
<1>1. Init => WalkInv
  BY InitWalkInv
<1>2. IInv /\ WalkInv /\ [Walk!Next]_(Walk!vars) => WalkInv'
  <2> SUFFICES ASSUME IInv, WalkInv, [Walk!Next]_(Walk!vars) PROVE WalkInv'
    OBVIOUS
  <2>1. CASE UNCHANGED Walk!vars
    BY <2>1 DEF Walk!vars, WalkInv, Reserved, ToGo, Left, EveryHopReached,
                Walk!EveryHopReached, Walk!hopsLeft
  <2> QED
    BY <2>1, WaitReserves, AttemptReserves, GiveUpReserves DEF Walk!Next, Walk!Finished
<1>3. WalkInv => EveryHopReached
  BY DEF WalkInv
<1> QED
  BY <1>1, <1>2, <1>3, Invariance, AttemptsAreAWalk, PTL DEF Spec, ImplementsWalk

-----------------------------------------------------------------------------
(* What an attempt's outcome says of what happened.                        *)

\* How an answer of the target reads when nothing is in the way.
Reading(f, w) ==
  CASE f.status \in 200 .. 299 -> IF f.page \in {"blank", "challenge"} THEN "SOFT_BLOCK"
                                  ELSE IF w = "element" /\ f.page = "bare" THEN "WAIT_FOR_UNMET" ELSE "OK"
    [] f.status = 404 -> "TARGET_NOT_FOUND"
    [] f.status = 403 -> "HARD_BLOCK"
    [] f.status = 429 -> "TARGET_RATE_LIMITED"
    [] OTHER -> "TARGET_ERROR"

\* An answer of the target, taken apart.
LEMMA ServedParts ==
  ASSUME NEW f \in ServedFacts
  PROVE  /\ f.kind = "served" /\ f.status \in 100 .. 599 /\ f.page \in Pages
         /\ f.forges \in Forgeries
BY DEF ServedFacts

\* What Bright Data's adapter makes of a target's forgery.
Misreads(p, f, o) ==
  /\ p = "brightdata"
  /\ \/ f.forges = "rejection" /\ o = "PROVIDER_ERROR"
     \/ f.forges = "refusal" /\ f.status = 407 /\ f.page = "blank" /\ o = "AUTH_FAILED"

\* Whoever relays it, what the target served is its doing: content, its own error or a block.
TargetsDoing(p, f, o) ==
  \/ outcomeClass(o) \in {"ok", "target", "blocked"}
  \/ o = "PROVIDER_BODY_OFFLOADED" /\ f.page = "large"
  \/ Misreads(p, f, o)

TargetSaid == {"OK", "TARGET_NOT_FOUND", "HARD_BLOCK", "TARGET_RATE_LIMITED", "TARGET_ERROR"}

\* All that is read from a target's status is of the class ok, target or blocked.
LEMMA TargetClasses ==
  \A o \in TargetSaid \cup {"SOFT_BLOCK", "WAIT_FOR_UNMET"} :
    outcomeClass(o) \in {"ok", "target", "blocked"}
BY DEF TargetSaid, outcomeClass, Blocked, Target, Provider, Client

\* The detector makes a block or a missed wait of it, or leaves it alone.
LEMMA JudgeServed ==
  ASSUME NEW p, NEW r, NEW w, parse(p, r) \in TargetSaid
  PROVE  judge(p, r, w) \in TargetSaid \cup {"SOFT_BLOCK", "WAIT_FOR_UNMET"}
BY DEF judge, TargetSaid

\* Both readings of a target's status stay among the target's outcomes.
LEMMA TargetOutcomes ==
  /\ \A s : outcomeForTarget(s) \in TargetSaid
  /\ \A s : BrightTarget(s) \in TargetSaid
BY DEF outcomeForTarget, BrightTarget, TargetSaid

\* What Bright Data passes on of a target's answer, taken apart.
LEMMA PassesParts ==
  ASSUME NEW f \in ServedFacts, NEW r \in Passes(f)
  PROVE  /\ r.status = 200 /\ r.target = f.status
         /\ f.forges = "nothing" => r.code = "none" /\ r.page = f.page
         /\ f.forges = "refusal" =>
              r.code = "client" /\ (r.page = f.page \/ (r.page = "none" /\ f.page = "blank"))
         /\ f.forges = "rejection" => r.code \in Rejections /\ r.page = f.page
<1>1. f.forges \in Forgeries
  BY ServedParts
<1>2. CASE f.forges = "nothing"
  BY <1>2 DEF Passes, Response
<1>3. CASE f.forges = "refusal"
  BY <1>3 DEF Passes, Response
<1>4. CASE f.forges = "rejection"
  <2>1. PICK code \in Rejections, told \in {None, 404, 503} :
          r = [Response(200, f.status, code, f.page) EXCEPT !.told = told]
    BY <1>4 DEF Passes
  <2> QED
    BY <1>4, <2>1 DEF Response
<1> QED
  BY <1>1, <1>2, <1>3, <1>4 DEF Forgeries

\* Whatever a provider makes of an answer, its adapter finds the target's status in it,
\* but for a page that Scrapfly would not send inline and a forgery.
LEMMA ServedParse ==
  ASSUME NEW f \in ServedFacts, NEW p \in Providers, NEW r \in Says(p, f)
  PROVE  \/ parse(p, r) \in TargetSaid
         \/ parse(p, r) = "PROVIDER_BODY_OFFLOADED" /\ f.page = "large"
         \/ Misreads(p, f, parse(p, r))
<1>1. f.kind = "served" /\ f.status \in 100 .. 599 /\ f.page \in Pages /\ f.forges \in Forgeries
  BY ServedParts
<1>2. CASE p = "scraperapi"
  <2>1. r \in SaysScraperapi(f) /\ parse(p, r) = parseScraperapi(r)
    BY <1>2 DEF Says, parse
  <2>2. r.target = f.status
    BY <1>1, <2>1 DEF SaysScraperapi, Response
  <2> QED
    BY <1>1, <2>1, <2>2, TargetOutcomes DEF parseScraperapi, None, Garbled
<1>3. CASE p = "scrapingbee"
  <2>1. r \in SaysScrapingbee(f) /\ parse(p, r) = parseScrapingbee(r)
    BY <1>3 DEF Says, parse
  <2>2. r.target = f.status
    BY <1>1, <2>1 DEF SaysScrapingbee, Response
  <2> QED
    BY <1>1, <2>1, <2>2, TargetOutcomes DEF parseScrapingbee, None, Garbled
<1>4. CASE p = "scrapfly"
  <2>1. r \in SaysScrapfly(f) /\ parse(p, r) = parseScrapfly(r)
    BY <1>4 DEF Says, parse
  <2>2. r.target = f.status /\ r.code = "result" /\ r.page = f.page
    BY <1>1, <2>1 DEF SaysScrapfly, Response
  <2> QED
    BY <1>1, <2>1, <2>2, TargetOutcomes DEF parseScrapfly, outcomeForErrorCode, None
<1>5. CASE p = "brightdata"
  <2>1. r \in SaysBrightdata(f) /\ parse(p, r) = parseBrightdata(r)
    BY <1>5 DEF Says, parse
  <2>2. r \in Passes(f) \/ (f.status \in {404, 429, 503} /\ r = Rejected(f.status))
    BY <1>1, <2>1 DEF SaysBrightdata
  <2>3. CASE f.forges = "nothing" /\ r \in Passes(f)
    <3>1. r.status = 200 /\ r.code = "none" /\ r.target = f.status
      BY <2>3, PassesParts
    <3> QED
      BY <1>1, <2>1, <3>1, TargetOutcomes DEF parseBrightdata, None, Garbled
  <2>4. CASE f.forges = "refusal" /\ r \in Passes(f)
    <3>1. /\ r.status = 200 /\ r.code = "client" /\ r.target = f.status
          /\ r.page = "none" => f.page = "blank"
      BY <1>1, <2>4, PassesParts DEF Pages
    <3>2. CASE r.target = 407 /\ r.page = "none"
      BY <1>5, <2>1, <2>4, <3>1, <3>2 DEF parseBrightdata, Misreads
    <3>3. CASE ~(r.target = 407 /\ r.page = "none")
      BY <1>1, <2>1, <3>1, <3>3, TargetOutcomes DEF parseBrightdata, None, Garbled
    <3> QED
      BY <3>2, <3>3
  <2>5. CASE f.forges = "rejection" /\ r \in Passes(f)
    <3>1. r.status = 200 /\ r.code \in Rejections
      BY <2>5, PassesParts
    <3>2. parse(p, r) = BrightRejected(r)
      BY <2>1, <3>1 DEF parseBrightdata, Rejections
    <3>3. BrightRejected(r) \in TargetSaid \cup {"PROVIDER_ERROR"}
      BY TargetOutcomes DEF BrightRejected, TargetSaid
    <3> QED
      BY <1>5, <2>5, <3>2, <3>3 DEF Misreads
  <2>6. CASE f.status \in {404, 429, 503} /\ r = Rejected(f.status)
    <3>1. r.status = 200 /\ r.code = "http_status" /\ r.told = f.status
      BY <2>6 DEF Rejected, Response
    <3>2. BrightTarget(r.told) # "OK"
      BY <2>6, <3>1 DEF BrightTarget
    <3> QED
      BY <2>1, <3>1, <3>2, TargetOutcomes DEF parseBrightdata, BrightRejected
  <2> QED
    BY <1>1, <2>2, <2>3, <2>4, <2>5, <2>6 DEF Forgeries
<1>6. CASE p = "firecrawl"
  <2>1. r \in SaysFirecrawl(f) /\ parse(p, r) = parseFirecrawl(r)
    BY <1>6 DEF Says, parse
  <2>2. \/ r.code = "success" /\ r.page = f.page
        \/ r.code = "all_engines_failed"
    BY <1>1, <2>1 DEF SaysFirecrawl, Response
  <2> QED
    BY <1>1, <2>1, <2>2, TargetOutcomes DEF parseFirecrawl, TargetSaid, Pages
<1> QED
  BY <1>2, <1>3, <1>4, <1>5, <1>6 DEF Providers

\* Each adapter, and the detector after it, reads an answer of the target the same way,
\* when the provider lets that be seen.
LEMMA ReadsAlike ==
  ASSUME NEW f \in ServedFacts, NEW p \in Providers, NEW r \in Says(p, f), NEW w \in Waits,
         f.page # "large",
         p = "brightdata" => f.status \in ReadAlike /\ f.forges = "nothing",
         p = "firecrawl" => f.status = 200,
         f.page = "challenge" => f.status \in 200 .. 299 \cup {403, 404, 429}
  PROVE  judge(p, r, w) = Reading(f, w)
<1>1. f.kind = "served" /\ f.status \in 100 .. 599 /\ f.page \in Pages
  BY ServedParts
<1>2. ASSUME parse(p, r) = outcomeForTarget(f.status), r.page = f.page
      PROVE  judge(p, r, w) = Reading(f, w)
  BY <1>1, <1>2 DEF judge, Unmet, outcomeForTarget, Reading, Pages
<1>3. CASE p = "scraperapi"
  <2>1. r \in SaysScraperapi(f) /\ parse(p, r) = parseScraperapi(r)
    BY <1>3 DEF Says, parse
  <2>2. r.target = f.status /\ r.page = f.page
    BY <1>1, <2>1 DEF SaysScraperapi, Response
  <2>3. parse(p, r) = outcomeForTarget(f.status)
    BY <1>1, <2>1, <2>2 DEF parseScraperapi, None, Garbled
  <2> QED
    BY <1>2, <2>2, <2>3
<1>4. CASE p = "scrapingbee"
  <2>1. r \in SaysScrapingbee(f) /\ parse(p, r) = parseScrapingbee(r)
    BY <1>4 DEF Says, parse
  <2>2. r.target = f.status /\ r.page = f.page
    BY <1>1, <2>1 DEF SaysScrapingbee, Response
  <2>3. parse(p, r) = outcomeForTarget(f.status)
    BY <1>1, <2>1, <2>2 DEF parseScrapingbee, None, Garbled
  <2> QED
    BY <1>2, <2>2, <2>3
<1>5. CASE p = "scrapfly"
  <2>1. r \in SaysScrapfly(f) /\ parse(p, r) = parseScrapfly(r)
    BY <1>5 DEF Says, parse
  <2>2. r.target = f.status /\ r.code = "result" /\ r.page = f.page
    BY <1>1, <2>1 DEF SaysScrapfly, Response
  <2>3. parse(p, r) = outcomeForTarget(f.status)
    BY <1>1, <2>1, <2>2 DEF parseScrapfly, outcomeForErrorCode, None
  <2> QED
    BY <1>2, <2>2, <2>3
<1>6. CASE p = "brightdata"
  <2>1. r \in SaysBrightdata(f) /\ parse(p, r) = parseBrightdata(r)
    BY <1>6 DEF Says, parse
  <2>2. \/ r = Response(200, f.status, "none", f.page)
        \/ f.status \in {404, 429, 503} /\ r = Rejected(f.status)
    BY <1>1, <1>6, <2>1 DEF SaysBrightdata, Passes
  <2>3. BrightTarget(f.status) = outcomeForTarget(f.status)
    BY <1>6 DEF BrightTarget, outcomeForTarget, ReadAlike
  <2>4. CASE r = Response(200, f.status, "none", f.page)
    <3>1. r.status = 200 /\ r.code = "none" /\ r.target = f.status /\ r.page = f.page
      BY <2>4 DEF Response
    <3> QED
      BY <1>1, <1>2, <2>1, <2>3, <3>1 DEF parseBrightdata, None, Garbled
  <2>5. CASE f.status \in {404, 429, 503} /\ r = Rejected(f.status)
    <3>1. r.status = 200 /\ r.code = "http_status" /\ r.told = f.status /\ r.page = "none"
      BY <2>5 DEF Rejected, Response
    <3>2. parse(p, r) = BrightTarget(f.status)
      BY <2>1, <2>5, <3>1 DEF parseBrightdata, BrightRejected, BrightTarget
    <3>3. BrightTarget(f.status) = Reading(f, w) /\ BrightTarget(f.status) # "OK"
      BY <2>5 DEF BrightTarget, Reading
    <3> QED
      BY <3>1, <3>2, <3>3 DEF judge
  <2> QED
    BY <2>2, <2>4, <2>5
<1>7. CASE p = "firecrawl"
  <2>1. r \in SaysFirecrawl(f) /\ parse(p, r) = parseFirecrawl(r)
    BY <1>7 DEF Says, parse
  <2>2. r.code = "success" /\ r.page = f.page /\ r.target = f.status
    BY <1>1, <1>7, <2>1 DEF SaysFirecrawl, Response
  <2>3. parse(p, r) = outcomeForTarget(f.status)
    BY <1>1, <2>1, <2>2 DEF parseFirecrawl, Pages
  <2> QED
    BY <1>2, <2>2, <2>3
<1> QED
  BY <1>3, <1>4, <1>5, <1>6, <1>7 DEF Providers

\* What may be made of a situation in which the target did not answer.
Blamed(f) ==
  CASE f.kind = "dead_host" -> {"TARGET_ERROR"}
    [] f.kind = "slow_target" -> {"TARGET_ERROR", "PROVIDER_ERROR"}
    [] f.kind \in {"bad_key", "spent", "capped"} -> {"AUTH_FAILED", "QUOTA_EXHAUSTED", "RATE_LIMITED"}
    [] OTHER -> {"PROVIDER_ERROR", "PROVIDER_DRIFT"}

Unserved == TargetFacts \cup AccountFacts \cup ProviderFacts

\* All other situations.
LEMMA UnservedKinds ==
  ASSUME NEW f \in Unserved
  PROVE  f.kind \in {"dead_host", "slow_target", "bad_key", "spent", "capped", "down", "changed"}
BY DEF Unserved, TargetFacts, AccountFacts, ProviderFacts, Fact

\* Each adapter blames a fault where it belongs, and the detector leaves that alone.
LEMMA UnservedReads ==
  ASSUME NEW f \in Unserved, NEW p \in Providers, NEW r \in Says(p, f), NEW w
  PROVE  judge(p, r, w) \in Blamed(f)
<1>1. f.kind \in {"dead_host", "slow_target", "bad_key", "spent", "capped", "down", "changed"}
  BY UnservedKinds
<1>2. ASSUME parse(p, r) \in Blamed(f), r.page # "challenge"
      PROVE  judge(p, r, w) \in Blamed(f)
  <2>1. parse(p, r) # "OK"
    BY <1>1, <1>2 DEF Blamed
  <2> QED
    BY <1>2, <2>1 DEF judge
<1>3. CASE p = "scraperapi"
  <2>1. r \in SaysScraperapi(f) /\ parse(p, r) = parseScraperapi(r)
    BY <1>3 DEF Says, parse
  <2>2. parseScraperapi(r) \in Blamed(f) /\ r.page # "challenge"
    BY <1>1, <2>1 DEF SaysScraperapi, Response, parseScraperapi, ScraperapiOwn, outcomeForTarget,
       Blamed, None, Garbled
  <2> QED
    BY <1>2, <2>1, <2>2
<1>4. CASE p = "scrapingbee"
  <2>1. r \in SaysScrapingbee(f) /\ parse(p, r) = parseScrapingbee(r)
    BY <1>4 DEF Says, parse
  <2>2. parseScrapingbee(r) \in Blamed(f) /\ r.page # "challenge"
    BY <1>1, <2>1 DEF SaysScrapingbee, Response, parseScrapingbee, ScrapingbeeOwn, outcomeForTarget,
       Blamed, None, Garbled
  <2> QED
    BY <1>2, <2>1, <2>2
<1>5. CASE p = "scrapfly"
  <2>1. r \in SaysScrapfly(f) /\ parse(p, r) = parseScrapfly(r)
    BY <1>5 DEF Says, parse
  <2>2. r.page = "none"
    BY <1>1, <2>1 DEF SaysScrapfly, Response
  <2>3. CASE f.kind = "dead_host"
    <3>1. r.code = "invalid_hostname"
      BY <2>1, <2>3 DEF SaysScrapfly, Response
    <3> QED
      BY <1>2, <2>1, <2>2, <2>3, <3>1 DEF parseScrapfly, ScrapflyAccount, Blamed
  <2>4. CASE f.kind = "slow_target"
    <3>1. r.code = "network_error"
      BY <2>1, <2>4 DEF SaysScrapfly, Response
    <3> QED
      BY <1>2, <2>1, <2>2, <2>4, <3>1 DEF parseScrapfly, outcomeForErrorCode, Blamed
  <2>5. CASE f.kind \in {"bad_key", "spent", "capped"}
    <3>1. \/ r.code = "no_result" /\ r.status \in {401, 429}
          \/ r.code \in {"quota_limit", "max_concurrent"}
      BY <2>1, <2>5 DEF SaysScrapfly, Response
    <3>2. parseScrapfly(r) \in {"AUTH_FAILED", "QUOTA_EXHAUSTED", "RATE_LIMITED"}
      BY <2>2, <3>1 DEF parseScrapfly, ScrapflyAccount, outcomeForErrorCode
    <3>3. Blamed(f) = {"AUTH_FAILED", "QUOTA_EXHAUSTED", "RATE_LIMITED"}
      BY <2>5 DEF Blamed
    <3> QED
      BY <1>2, <2>1, <2>2, <3>2, <3>3
  <2>6. CASE f.kind \in {"down", "changed"}
    <3>1. \/ r.code = "no_result" /\ r.status = 500
          \/ r.code = "broken"
      BY <2>1, <2>6 DEF SaysScrapfly, Response
    <3>2. parseScrapfly(r) \in {"PROVIDER_ERROR", "PROVIDER_DRIFT"}
      <4>1. CASE r.code = "broken"
        BY <4>1 DEF parseScrapfly
      <4>2. CASE r.code = "no_result" /\ r.status = 500
        <5>1. ScrapflyAccount(r) = "PROVIDER_ERROR"
          BY <4>2 DEF ScrapflyAccount
        <5> QED
          BY <4>2, <5>1 DEF parseScrapfly
      <4> QED
        BY <3>1, <4>1, <4>2
    <3>3. Blamed(f) = {"PROVIDER_ERROR", "PROVIDER_DRIFT"}
      BY <2>6 DEF Blamed
    <3> QED
      BY <1>2, <2>1, <2>2, <3>2, <3>3
  <2> QED
    BY <1>1, <2>3, <2>4, <2>5, <2>6
<1>6. CASE p = "brightdata"
  <2>1. r \in SaysBrightdata(f) /\ parse(p, r) = parseBrightdata(r)
    BY <1>6 DEF Says, parse
  <2>2. parseBrightdata(r) \in Blamed(f) /\ r.page # "challenge"
    BY <1>1, <2>1 DEF SaysBrightdata, Response, parseBrightdata, BrightRejected,
       Blamed, None, Garbled
  <2> QED
    BY <1>2, <2>1, <2>2
<1>7. CASE p = "firecrawl"
  <2>1. r \in SaysFirecrawl(f) /\ parse(p, r) = parseFirecrawl(r)
    BY <1>7 DEF Says, parse
  <2>2. parseFirecrawl(r) \in Blamed(f) /\ r.page # "challenge"
    BY <1>1, <2>1 DEF SaysFirecrawl, Response, parseFirecrawl, FirecrawlOwn,
       Blamed, None, Garbled
  <2> QED
    BY <1>2, <2>1, <2>2
<1> QED
  BY <1>3, <1>4, <1>5, <1>6, <1>7 DEF Providers

\* Whatever a provider says of a target that answered, the target is blamed, or nobody.
LEMMA ServedReads ==
  ASSUME NEW f \in ServedFacts, NEW p \in Providers, NEW r \in Says(p, f), NEW w
  PROVE  TargetsDoing(p, f, judge(p, r, w)) /\ judge(p, r, w) # "PROVIDER_TIMEOUT"
<1>1. CASE parse(p, r) \in TargetSaid
  <2>1. judge(p, r, w) \in TargetSaid \cup {"SOFT_BLOCK", "WAIT_FOR_UNMET"}
    BY <1>1, JudgeServed
  <2>2. outcomeClass(judge(p, r, w)) \in {"ok", "target", "blocked"}
    BY <2>1, TargetClasses
  <2>3. judge(p, r, w) # "PROVIDER_TIMEOUT"
    BY <2>1 DEF TargetSaid
  <2> QED
    BY <2>2, <2>3 DEF TargetsDoing
<1>2. CASE parse(p, r) = "PROVIDER_BODY_OFFLOADED" /\ f.page = "large"
  <2>1. judge(p, r, w) = "PROVIDER_BODY_OFFLOADED"
    BY <1>2 DEF judge
  <2> QED
    BY <1>2, <2>1 DEF TargetsDoing
<1>3. CASE Misreads(p, f, parse(p, r))
  <2>1. parse(p, r) \in {"PROVIDER_ERROR", "AUTH_FAILED"}
    BY <1>3 DEF Misreads
  <2>2. judge(p, r, w) = parse(p, r)
    BY <2>1 DEF judge
  <2> QED
    BY <1>3, <2>1, <2>2 DEF TargetsDoing
<1> QED
  BY <1>1, <1>2, <1>3, ServedParse

\* A situation in which the target did not answer is blamed on the target only when it
\* was the target's, and never called content.
LEMMA UnservedBlame ==
  /\ \A f \in TargetFacts : Blamed(f) \subseteq {"TARGET_ERROR", "PROVIDER_ERROR"}
  /\ \A f : f.kind = "dead_host" => Blamed(f) = {"TARGET_ERROR"}
  /\ \A f \in AccountFacts : Blamed(f) \subseteq {"AUTH_FAILED", "QUOTA_EXHAUSTED", "RATE_LIMITED"}
  /\ \A f \in ProviderFacts : Blamed(f) \subseteq {"PROVIDER_ERROR", "PROVIDER_DRIFT"}
  /\ \A f \in Unserved : f.kind # "served" /\ "OK" \notin Blamed(f) /\ "PROVIDER_TIMEOUT" \notin Blamed(f)
<1>1. /\ \A f \in TargetFacts : f.kind \in {"dead_host", "slow_target"}
      /\ \A f \in AccountFacts : f.kind \in {"bad_key", "spent", "capped"}
      /\ \A f \in ProviderFacts : f.kind \in {"down", "changed"}
  BY DEF TargetFacts, AccountFacts, ProviderFacts, Fact
<1> QED
  BY <1>1, UnservedKinds DEF Blamed

-----------------------------------------------------------------------------
\* What an attempt that got no answer comes to.
NoAnswer == {"RESPONSE_TOO_LARGE", "PROVIDER_ERROR", "PROVIDER_TIMEOUT"}

\* What may have happened to an attempt of this request.
Happened == {site} \cup AccountFacts \cup ProviderFacts

\* Each attempt on the log had no answer, or an answer that its provider gives of what
\* happened, judged as the request asks.
Told(h) ==
  /\ h.provider \in Providers
  /\ \/ h.fact = Unanswered /\ h.outcome \in NoAnswer
     \/ h.fact \in Happened /\ \E r \in Says(h.provider, h.fact) :
                                 h.outcome = judge(h.provider, r, waitFor)

LogIsTold ==
  /\ site \in Sites /\ waitFor \in Waits /\ chain \in [0 .. Hops - 1 -> Providers]
  /\ \A h \in log : Told(h)

\* The request's attempts are what its chain names.
LEMMA RecordTells ==
  ASSUME IInv, LogIsTold, phase # "idle", NEW fact, NEW o, Record(fact, o),
         \/ fact = Unanswered /\ o \in NoAnswer
         \/ fact \in Happened /\ \E r \in Says(chain[i], fact) : o = judge(chain[i], r, waitFor)
  PROVE  LogIsTold'
<1>1. chain[i] \in Providers
  BY ChainPlanAssumption DEF IInv, Counted, WithinShare, LogIsTold
<1>2. /\ UNCHANGED <<site, waitFor, chain>>
      /\ \A h \in log' : h \in log \/ h = [provider |-> chain[i], outcome |-> o, fact |-> fact]
  BY DEF Record, Leave, request
<1>3. \A h : Told(h)' <=> Told(h)
  BY <1>2 DEF Told, Happened
<1>4. Told([provider |-> chain[i], outcome |-> o, fact |-> fact])
  BY <1>1 DEF Told
<1> QED
  BY <1>2, <1>3, <1>4 DEF LogIsTold

LEMMA InitTold == Init => LogIsTold
BY AttemptAssumption DEF Init, LogIsTold

\* Each step keeps the log true.
LEMMA NextTells == IInv /\ LogIsTold /\ [Next]_vars => LogIsTold'
<1> SUFFICES ASSUME IInv, LogIsTold, [Next]_vars PROVE LogIsTold'
  OBVIOUS
<1> DEFINE Kept == UNCHANGED <<site, waitFor, chain, log>>
<1>1. ASSUME Kept PROVE LogIsTold'
  BY <1>1 DEF LogIsTold, Told, Happened
<1>2. CASE Wait \/ GiveUp \/ Headers \/ Chunk \/ TimerFires \/ HangUp \/ Tick \/ UNCHANGED vars
  BY <1>1, <1>2 DEF Wait, GiveUp, Headers, Chunk, TimerFires, HangUp, Tick, vars, request, walk
<1>3. CASE Launch
  BY <1>1, <1>3 DEF Launch, Launched, request, walk
<1>4. CASE TooLarge
  BY <1>4, RecordTells DEF TooLarge, NoAnswer
<1>5. CASE Fails
  BY <1>5, RecordTells DEF Fails, NoAnswer
<1>6. CASE Reply
  <2>1. PICK fact \in Happened : \E r \in Says(chain[i], fact) :
          phase = "body" /\ Record(fact, judge(chain[i], r, waitFor))
    BY <1>6 DEF Reply, Happened
  <2> QED
    BY <2>1, RecordTells
<1>7. CASE Caught
  BY <1>1, <1>7, RecordTells DEF Caught, NoAnswer, Leave, request
<1> QED
  BY <1>2, <1>3, <1>4, <1>5, <1>6, <1>7 DEF Next, Finished

LEMMA LogInvariance == Spec => [](IInv /\ LogIsTold)
  BY InitInv, NextKeepsInv, InitTold, NextTells, PTL DEF Spec

\* What is on the log is one of these.
LEMMA ToldParts ==
  ASSUME LogIsTold, NEW h \in log
  PROVE  /\ h.provider \in Providers
         /\ \/ h.fact = Unanswered /\ h.outcome \in NoAnswer
            \/ h.fact \in ServedFacts \cup Unserved /\ \E r \in Says(h.provider, h.fact) :
                                          h.outcome = judge(h.provider, r, waitFor)
BY AttemptAssumption DEF LogIsTold, Told, Happened, Unserved

LEMMA UnansweredIsElse ==
  Unanswered.kind = "unanswered" /\ Unanswered \notin ServedFacts \cup Unserved
<1>1. Unanswered.kind = "unanswered"
  BY DEF Unanswered, Fact
<1> QED
  BY <1>1, UnservedKinds, ServedParts

\* Whom an attempt's outcome blames, for what it was that happened, whichever statuses
\* targets answer with: a target that answered is never held against the provider or the
\* key, an account's fault is kept to the account and a provider's to the provider
\* (outcome.ts, FAILOVER; the five parse functions), but for what a target may forge of
\* Bright Data's error headers.
THEOREM BlameIsTrue == Spec => []BlameIsWhereItBelongs
<1>1. LogIsTold => BlameIsWhereItBelongs
  <2> SUFFICES ASSUME LogIsTold, NEW h \in log
               PROVE  /\ h.fact.kind = "served" => TargetsDoing(h.provider, h.fact, h.outcome)
                      /\ h.fact.kind = "dead_host" => h.outcome = "TARGET_ERROR"
                      /\ h.fact \in AccountFacts =>
                           h.outcome \in {"AUTH_FAILED", "QUOTA_EXHAUSTED", "RATE_LIMITED"}
                      /\ h.fact \in ProviderFacts => outcomeClass(h.outcome) = "provider"
    BY DEF BlameIsWhereItBelongs, TargetsDoing, Misreads, Misled
  <2>1. CASE h.fact = Unanswered
    BY <2>1, UnansweredIsElse DEF Unserved
  <2>2. CASE h.fact \in ServedFacts
    <3>1. PICK r \in Says(h.provider, h.fact) : h.outcome = judge(h.provider, r, waitFor)
      BY <2>2, ToldParts, UnansweredIsElse
    <3>2. TargetsDoing(h.provider, h.fact, h.outcome)
      BY <2>2, <3>1, ToldParts, ServedReads
    <3>3. h.fact.kind = "served" /\ h.fact \notin Unserved
      BY <2>2, ServedParts, UnservedBlame
    <3> QED
      BY <3>2, <3>3 DEF Unserved
  <2>3. CASE h.fact \in Unserved
    <3>1. PICK r \in Says(h.provider, h.fact) : h.outcome = judge(h.provider, r, waitFor)
      BY <2>3, ToldParts, UnansweredIsElse
    <3>2. h.outcome \in Blamed(h.fact)
      BY <2>3, <3>1, ToldParts, UnservedReads
    <3>3. \A o \in {"PROVIDER_ERROR", "PROVIDER_DRIFT"} : outcomeClass(o) = "provider"
      BY DEF outcomeClass, Blocked, Target, Provider, Client
    <3> QED
      BY <2>3, <3>2, <3>3, UnservedBlame
  <2> QED
    BY <2>1, <2>2, <2>3, ToldParts
<1> QED
  BY <1>1, LogInvariance, PTL

\* What the five adapters and the detector let through as content.
LEMMA ReadsContent ==
  ASSUME NEW f \in ServedFacts, NEW p \in Providers, NEW r \in Says(p, f), NEW w \in Waits,
         judge(p, r, w) = "OK"
  PROVE  /\ \/ f.status \in 200 .. 299
            \/ p = "brightdata" /\ f.status \notin ReadAlike \cup {401}
         /\ f.page \notin {"challenge", "blank"}
         /\ f.page = "bare" => w # "element"
<1>1. f.kind = "served" /\ f.status \in 100 .. 599 /\ f.page \in Pages
  BY ServedParts
<1>2. parse(p, r) = "OK" /\ r.page \notin {"blank", "challenge", "none"} /\ ~(w = "element" /\ r.page = "bare")
  BY DEF judge, Unmet
<1>3. \A s : outcomeForTarget(s) = "OK" <=> s \in 200 .. 299
  BY DEF outcomeForTarget
<1>4. CASE p \in {"scraperapi", "scrapingbee"}
  <2>1. r.target = f.status /\ r.page = f.page
    BY <1>1, <1>4 DEF Says, SaysScraperapi, SaysScrapingbee, Response
  <2>2. parse(p, r) = outcomeForTarget(f.status)
    BY <1>1, <1>4, <2>1 DEF parse, parseScraperapi, parseScrapingbee, None, Garbled
  <2> QED
    BY <1>2, <1>3, <2>1, <2>2
<1>5. CASE p = "scrapfly"
  <2>1. r.target = f.status /\ r.page = f.page /\ r.code = "result"
    BY <1>1, <1>5 DEF Says, SaysScrapfly, Response
  <2>2. parse(p, r) \in {"PROVIDER_BODY_OFFLOADED", outcomeForTarget(f.status)}
    BY <1>1, <1>5, <2>1 DEF parse, parseScrapfly, outcomeForErrorCode, None
  <2> QED
    BY <1>2, <1>3, <2>1, <2>2
<1>6. CASE p = "brightdata"
  <2>1. \/ r \in Passes(f)
        \/ r = Rejected(f.status)
    BY <1>1, <1>6 DEF Says, SaysBrightdata
  <2>2. r \in Passes(f)
    BY <1>2, <2>1 DEF Rejected, Response
  <2>3. r.code \in Rejections => parse(p, r) = BrightRejected(r) \/ parse(p, r) # "OK"
    BY <1>6 DEF parse, parseBrightdata, Rejections
  <2>4. BrightRejected(r) # "OK"
    BY DEF BrightRejected
  <2>5. r.code \notin Rejections
    BY <1>2, <2>3, <2>4
  <2>6. r.status = 200 /\ r.code \in {"none", "client"} /\ r.target = f.status /\ r.page = f.page
    BY <1>2, <2>2, <2>5, PassesParts, ServedParts DEF Forgeries
  <2>7. parse(p, r) \in {"AUTH_FAILED", BrightTarget(f.status)}
    BY <1>1, <1>6, <2>6 DEF parse, parseBrightdata, None, Garbled
  <2>8. BrightTarget(f.status) = "OK" => f.status \in 200 .. 299 \/ f.status \notin ReadAlike \cup {401}
    BY <1>1 DEF BrightTarget, ReadAlike
  <2> QED
    BY <1>2, <1>6, <2>6, <2>7, <2>8
<1>7. CASE p = "firecrawl"
  <2>1. \/ f.status = 200 /\ r.page = f.page
        \/ r.code = "all_engines_failed"
    BY <1>1, <1>7 DEF Says, SaysFirecrawl, Response
  <2>2. r.code # "all_engines_failed"
    BY <1>2, <1>7 DEF parse, parseFirecrawl
  <2> QED
    BY <1>2, <2>1, <2>2
<1> QED
  BY <1>4, <1>5, <1>6, <1>7 DEF Providers

\* What the caller is told is content is content, whatever the target serves: a page that
\* is no challenge, not empty, with the element that was looked for, under a success or
\* under one of the statuses that Bright Data's adapter lets through (chain.ts, detect and
\* the wait; the adapters).
THEOREM OKIsTrue == Spec => []OKIsContent
<1>1. LogIsTold => OKIsContent
  <2> SUFFICES ASSUME LogIsTold, NEW h \in log, h.outcome = "OK"
               PROVE  /\ h.fact.kind = "served"
                      /\ \/ h.fact.status \in 200 .. 299
                         \/ h.provider = "brightdata" /\ h.fact.status \notin ReadAlike \cup {401}
                      /\ h.fact.page \notin {"challenge", "blank"}
                      /\ h.fact.page = "bare" => waitFor # "element"
    BY DEF OKIsContent
  <2>1. PICK r \in Says(h.provider, h.fact) : h.outcome = judge(h.provider, r, waitFor)
    BY ToldParts DEF NoAnswer
  <2>2. h.fact \in ServedFacts
    <3>1. h.fact \notin Unserved
      BY <2>1, ToldParts, UnservedReads, UnservedBlame
    <3> QED
      BY <3>1, ToldParts DEF NoAnswer
  <2>3. h.provider \in Providers /\ waitFor \in Waits
    BY ToldParts DEF LogIsTold
  <2>4. judge(h.provider, r, waitFor) = "OK"
    BY <2>1
  <2>5. h.fact.kind = "served"
    BY <2>2, ServedParts
  <2> QED
    BY <2>1, <2>2, <2>3, <2>4, <2>5, ReadsContent
<1> QED
  BY <1>1, LogInvariance, PTL

\* What an attempt that tells of the target comes to, where its provider's adapter reads
\* the status as the others do.
LEMMA TellsReading ==
  ASSUME LogIsTold, NEW h \in log, Tells(h),
         h.provider = "brightdata" => h.fact.status \in ReadAlike
  PROVE  h.outcome = Reading(h.fact, waitFor)
<1>1. h.fact.kind = "served" /\ h.fact.page # "large"
  BY DEF Tells
<1>2. h.fact \notin Unserved /\ h.fact # Unanswered
  BY <1>1, UnservedBlame, UnansweredIsElse
<1>3. h.fact \in ServedFacts /\ h.provider \in Providers
  BY <1>2, ToldParts
<1>4. PICK r \in Says(h.provider, h.fact) : h.outcome = judge(h.provider, r, waitFor)
  BY <1>2, ToldParts
<1>5. /\ h.provider = "brightdata" => h.fact.status \in ReadAlike /\ h.fact.forges = "nothing"
      /\ h.provider = "firecrawl" => h.fact.status = 200
      /\ h.fact.page = "challenge" => h.fact.status \in 200 .. 299 \cup {403, 404, 429}
      /\ waitFor \in Waits
  BY DEF Tells, LogIsTold
<1>6. judge(h.provider, r, waitFor) = Reading(h.fact, waitFor)
  BY <1>1, <1>3, <1>4, <1>5, ReadsAlike
<1> QED
  BY <1>4, <1>6

\* What the target did reads the same whoever served it (scraperapi/index.ts:116), for
\* every status and every pair of the four adapters that share outcomeForTarget, and for
\* Bright Data's with them on the statuses that all five read alike; apart from what a
\* provider keeps from its adapter (Tells).
THEOREM AdaptersAlwaysAgree == Spec => []AdaptersAgree
<1>1. LogIsTold => AdaptersAgree
  <2> SUFFICES ASSUME LogIsTold, NEW g \in log, NEW h \in log,
                      g.fact = h.fact, Tells(g), Tells(h),
                      "brightdata" \in {g.provider, h.provider} => h.fact.status \in ReadAlike
               PROVE  g.outcome = h.outcome
    BY DEF AdaptersAgree
  <2>1. g.outcome = Reading(g.fact, waitFor)
    BY TellsReading
  <2>2. h.outcome = Reading(h.fact, waitFor)
    BY TellsReading
  <2> QED
    BY <2>1, <2>2
<1> QED
  BY <1>1, LogInvariance, PTL

-----------------------------------------------------------------------------
\* An attempt is cut off by its caller or by the end of its share.
CutOff == phase # "idle" /\ aborted /\ ~gone => clock - launched >= share

\* Only the caller, or the timer when it is due, aborts an attempt.
LEMMA NextCutsOff == CutOff /\ [Next]_vars => CutOff'
<1> SUFFICES ASSUME CutOff, [Next]_vars PROVE CutOff'
  OBVIOUS
<1>1. CASE Wait \/ GiveUp
  BY <1>1 DEF Wait, GiveUp, Between, CutOff
<1>2. CASE Launch
  BY <1>2 DEF Launch, Launched, CutOff
<1>3. CASE Headers \/ Chunk
  BY <1>3 DEF Headers, Chunk, CutOff
<1>4. CASE Ends
  BY <1>4, EndsLeave DEF Leave, CutOff
<1>5. CASE TimerFires
  BY <1>5 DEF TimerFires, CutOff, time, budget
<1>6. CASE HangUp
  BY <1>6 DEF HangUp, CutOff
<1>7. CASE Tick
  BY <1>7 DEF Tick, CutOff
<1>8. CASE UNCHANGED vars
  BY <1>8 DEF vars, time, budget, CutOff
<1> QED
  BY <1>1, <1>2, <1>3, <1>4, <1>5, <1>6, <1>7, <1>8 DEF Next, Ends, Finished

\* No answer reads as a timeout.
LEMMA AnswerIsNoTimeout ==
  ASSUME LogIsTold, NEW p \in Providers, NEW fact \in Happened, NEW r \in Says(p, fact)
  PROVE  judge(p, r, waitFor) # "PROVIDER_TIMEOUT"
<1>1. fact \in ServedFacts \cup Unserved
  BY AttemptAssumption DEF LogIsTold, Happened, Unserved
<1> QED
  BY <1>1, ServedReads, UnservedReads, UnservedBlame

\* Only the catch records a timeout.
LEMMA StepEarns ==
  ASSUME IInv, LogIsTold, CutOff, [Next]_vars, NEW h \in log' \ log, h.outcome = "PROVIDER_TIMEOUT"
  PROVE  clock - launched >= share /\ ~gone
<1>1. ASSUME NEW fact, NEW o, Record(fact, o) PROVE o = "PROVIDER_TIMEOUT"
  BY <1>1 DEF Record
<1>2. CASE Caught
  BY <1>2 DEF Caught, CutOff
<1>3. ~TooLarge /\ ~Fails
  BY <1>1 DEF TooLarge, Fails
<1>4. ~Reply
  <2> SUFFICES ASSUME Reply PROVE FALSE
    OBVIOUS
  <2>1. PICK fact \in Happened : \E r \in Says(chain[i], fact) :
          phase = "body" /\ Record(fact, judge(chain[i], r, waitFor))
    BY DEF Reply, Happened
  <2>2. chain[i] \in Providers
    BY <2>1, ChainPlanAssumption DEF IInv, Counted, WithinShare, LogIsTold
  <2> QED
    BY <1>1, <2>1, <2>2, AnswerIsNoTimeout
<1>5. CASE UNCHANGED log
  BY <1>5
<1>6. Wait \/ Launch \/ GiveUp \/ Headers \/ Chunk \/ TimerFires \/ HangUp \/ Tick
        \/ UNCHANGED vars => UNCHANGED log
  BY DEF Wait, Launch, Launched, GiveUp, Headers, Chunk, TimerFires, HangUp, Tick, vars, walk
<1> QED
  BY <1>2, <1>3, <1>4, <1>5, <1>6 DEF Next, Finished

\* A provider is given a timeout only when its whole share has passed and somebody was
\* still waiting (transport.ts, execute's catch).
THEOREM TimeoutsAreEarned == Spec => TimeoutIsEarned
<1>1. Init => CutOff
  BY DEF Init, CutOff
<1>2. IInv /\ LogIsTold /\ CutOff /\ [Next]_vars =>
        [\A h \in log' \ log : h.outcome = "PROVIDER_TIMEOUT" => clock - launched >= share /\ ~gone]_vars
  BY StepEarns
<1> QED
  BY <1>1, <1>2, NextCutsOff, LogInvariance, PTL DEF Spec, TimeoutIsEarned
=============================================================================
