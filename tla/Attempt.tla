------------------------------- MODULE Attempt -------------------------------
(***************************************************************************)
(* The walk of a chain with its attempts opened up: the transport that     *)
(* cuts an attempt off (packages/shared/src/transport.ts), the adapters    *)
(* that read an answer (Adapters), and runChain's loop around them.        *)
(*                                                                         *)
(* The chain has nothing to fall back on once its plan is walked: no       *)
(* terminal retry and no cooling provider, which FailoverChain has.  Time  *)
(* is the process's clock, in steps; a timer that is due fires before the  *)
(* next step.                                                              *)
(***************************************************************************)
EXTENDS ChainPlan, Adapters

CONSTANTS
  Chains,   \* the orders in which providers may be tried
  Sites,    \* the facts a target may present (Served and TargetFacts)
  MaxBody,  \* maxBodyBytes, in chunks
  MaxClock  \* the clock's bound, beyond every deadline

ASSUME AttemptAssumption ==
  /\ Chains \subseteq [0 .. Hops - 1 -> Providers]
  /\ Sites \subseteq TargetFacts \cup ServedFacts
  /\ MaxBody \in Nat /\ MaxClock \in Nat

VARIABLES
  deadline, chain, site, waitFor,  \* the request, and what its target is like
  clock,     \* since runChain started
  lost,      \* what of it went between attempts
  i,         \* the hop about to run or running
  onceUsed,  \* the one failover an outcome may have was had
  phase,     \* of the attempt: no attempt, awaiting its headers, reading its body
  launched, share,  \* when it was launched and its perAttemptMs
  read,      \* chunks of the body
  timer,     \* the transport's timer is set
  aborted,   \* its controller has been aborted
  gone,      \* the caller has hung up
  log,       \* what the last recorded attempt came to, and each that tells of the target
  ended      \* how the walk ended

request == <<deadline, chain, site, waitFor>>
time == <<clock, lost>>
walk == <<i, onceUsed, log, ended>>
budget == <<launched, share>>
vars == <<request, time, walk, budget, phase, read, timer, aborted, gone>>

Unanswered == Fact("unanswered")
Hop == [provider : Providers, outcome : Outcomes,
        fact : Sites \cup AccountFacts \cup ProviderFacts \cup {Unanswered}]

TypeOK ==
  /\ deadline \in Deadlines /\ chain \in Chains /\ site \in Sites /\ waitFor \in Waits
  /\ clock \in 0 .. MaxClock /\ lost \in 0 .. Overhead /\ i \in 0 .. Hops
  /\ phase \in {"idle", "head", "body"} /\ read \in 0 .. MaxBody
  /\ launched \in 0 .. MaxClock /\ share \in Nat
  /\ timer \in BOOLEAN /\ aborted \in BOOLEAN /\ gone \in BOOLEAN /\ onceUsed \in BOOLEAN
  /\ ended \in {"no", "answered", "exhausted", "gone"}
  /\ log \subseteq Hop

Init ==
  /\ deadline \in Deadlines /\ chain \in Chains /\ site \in Sites /\ waitFor \in Waits
  /\ clock = 0 /\ lost = 0 /\ i = 0 /\ onceUsed = FALSE
  /\ phase = "idle" /\ launched = 0 /\ share = 0 /\ read = 0
  /\ timer = FALSE /\ aborted = FALSE /\ gone = FALSE
  /\ log = {} /\ ended = "no"

-----------------------------------------------------------------------------
(* The chain between attempts.                                             *)

Between == phase = "idle" /\ ended = "no" /\ i < Hops

\* The stores are awaited.
Wait ==
  /\ Between /\ lost < Overhead
  /\ clock' = clock + 1 /\ lost' = lost + 1
  /\ UNCHANGED <<request, walk, budget, phase, read, timer, aborted, gone>>

Launched(remaining) ==
  /\ share' = perAttempt(remaining, Hops - i - 1, Cap[i])
  /\ phase' = "head" /\ launched' = clock /\ read' = 0
  /\ timer' = TRUE /\ aborted' = FALSE
  /\ UNCHANGED <<request, time, walk, gone>>

Launch_StaleTime ==
  /\ Between /\ ~Exhausted(deadline - clock)
  /\ Launched(deadline - clock + lost)

\* A fresh controller, a timer for the hop's budget, and a listener on the caller's
\* signal, which an earlier hang-up does not call any more.
Launch ==
  /\ Between /\ ~Exhausted(deadline - clock)
  /\ Launched(deadline - clock)

\* BUDGET_EXCEEDED.
GiveUp ==
  /\ Between /\ Exhausted(deadline - clock)
  /\ ended' = "exhausted"
  /\ UNCHANGED <<request, time, i, onceUsed, log, budget, phase, read, timer, aborted, gone>>

-----------------------------------------------------------------------------
(* The attempt.                                                            *)

\* The attempt is over: the transport's finally, and on to the next hop.
Leave ==
  /\ phase' = "idle" /\ timer' = FALSE /\ i' = i + 1
  /\ launched' = 0 /\ share' = 0 /\ read' = 0 /\ aborted' = FALSE
  /\ UNCHANGED <<request, time, gone>>

\* It is recorded, and the outcome's policy says whether the next hop is tried.
Record(fact, o) ==
  LET onward == failover(o) = "true" \/ (failover(o) = "once" /\ ~onceUsed)
  IN  /\ Leave
      /\ log' = {h \in log : h.fact = site}
                   \cup {[provider |-> chain[i], outcome |-> o, fact |-> fact]}
      /\ onceUsed' = (onceUsed \/ failover(o) = "once")
      /\ ended' = IF onward /\ i < Hops - 1 THEN "no" ELSE "answered"

Headers_ClearsTimer ==
  /\ phase = "head" /\ ~aborted
  /\ phase' = "body" /\ timer' = FALSE
  /\ UNCHANGED <<request, time, walk, budget, read, aborted, gone>>

\* fetch resolves; the timer stays.
Headers ==
  /\ phase = "head" /\ ~aborted
  /\ phase' = "body"
  /\ UNCHANGED <<request, time, walk, budget, read, timer, aborted, gone>>

\* readCapped takes a chunk of the body.
Chunk ==
  /\ phase = "body" /\ ~aborted /\ read < MaxBody
  /\ read' = read + 1
  /\ UNCHANGED <<request, time, walk, budget, phase, timer, aborted, gone>>

\* One more would pass the cap.
TooLarge ==
  /\ phase = "body" /\ ~aborted /\ read = MaxBody
  /\ Record(Unanswered, "RESPONSE_TOO_LARGE")

\* The connection fails.
Fails ==
  /\ phase # "idle" /\ ~aborted
  /\ Record(Unanswered, "PROVIDER_ERROR")

\* The whole answer is there; the adapter and the detector judge it.
Reply ==
  /\ phase = "body" /\ ~aborted
  /\ \E fact \in {site} \cup AccountFacts \cup ProviderFacts :
       \E r \in Says(chain[i], fact) : Record(fact, judge(chain[i], r, waitFor))

TimerFires ==
  /\ timer /\ clock - launched >= share
  /\ timer' = FALSE /\ aborted' = TRUE
  /\ UNCHANGED <<request, time, walk, budget, phase, read, gone>>

Caught_TimeoutFirst ==
  /\ phase # "idle" /\ aborted
  /\ Record(Unanswered, "PROVIDER_TIMEOUT")

\* The abort surfaces in execute's catch, which asks first whose it was.
Caught ==
  /\ phase # "idle" /\ aborted
  /\ \/ ~gone /\ Record(Unanswered, "PROVIDER_TIMEOUT")
     \/ gone /\ Leave /\ ended' = "gone" /\ UNCHANGED <<onceUsed, log>>

-----------------------------------------------------------------------------
(* The caller, and time.                                                   *)

\* The caller hangs up: the attempt under way, if any, is aborted.
HangUp ==
  /\ ended = "no" /\ ~gone
  /\ gone' = TRUE /\ aborted' = (aborted \/ phase # "idle")
  /\ UNCHANGED <<request, time, walk, budget, phase, read, timer>>

Tick ==
  /\ phase # "idle" /\ ~aborted /\ clock < MaxClock
  /\ ~(timer /\ clock - launched >= share)
  /\ clock' = clock + 1
  /\ UNCHANGED <<request, lost, walk, budget, phase, read, timer, aborted, gone>>

Finished == ended # "no" /\ UNCHANGED vars

Next ==
  \/ Wait \/ Launch \/ GiveUp
  \/ Headers \/ Chunk \/ TooLarge \/ Fails \/ Reply
  \/ TimerFires \/ Caught
  \/ HangUp \/ Tick
  \/ Finished

\* Time passes, and what is due is done; no provider owes an answer.
Fairness == WF_vars(Tick) /\ WF_vars(TimerFires) /\ WF_vars(Caught)

Spec == Init /\ [][Next]_vars /\ Fairness

-----------------------------------------------------------------------------
Walk == INSTANCE BudgetWalk WITH
          remaining <- deadline - (IF phase = "idle" THEN clock ELSE launched),
          exhausted <- (ended = "exhausted")

\* The loop with its attempts opened up is a walk of the plan: a trickling body, a
\* hang-up or a cap passed half way never gives an attempt more than its share.
ImplementsWalk == Walk!Init /\ [][Walk!Next]_(Walk!vars)

\* Slow answers starve no planned hop (budget.ts, the reserve).
EveryHopReached == Walk!EveryHopReached

\* No attempt outlives the caller's deadline (transport.ts: the timer covers the body).
WithinDeadline == phase # "idle" => clock <= deadline

\* Every attempt comes to an end although a provider may trickle for ever.
AttemptEnds == phase # "idle" ~> phase = "idle"

\* A provider is given a timeout only when its whole share has passed and somebody was
\* still waiting (transport.ts: a hang-up "must never be recorded" as the provider's).
TimeoutIsEarned ==
  [][\A h \in log' \ log : h.outcome = "PROVIDER_TIMEOUT" =>
       clock - launched >= share /\ ~gone]_vars

\* Whom an attempt's outcome blames, for what it was that happened: a target that
\* answered is never held against the provider or the key, an account's fault is kept
\* to the account, and a provider's fault to the provider (outcome.ts, FAILOVER).
\*
\* One exception is known and accepted (brightdata/index.ts:164): a target may send Bright
\* Data's error headers itself.  A rejection it forges passes for Bright Data's failure,
\* and the whole shape of a refusal, a 407 over an empty body, for the account's.
Misled(h) ==
  /\ h.provider = "brightdata"
  /\ \/ h.fact.forges = "rejection" /\ h.outcome = "PROVIDER_ERROR"
     \/ /\ h.fact.forges = "refusal" /\ h.fact.status = 407 /\ h.fact.page = "blank"
        /\ h.outcome = "AUTH_FAILED"

BlameIsWhereItBelongs ==
  \A h \in log :
    LET fact == h.fact
        o == h.outcome
    IN  /\ fact.kind = "served" =>
             \/ outcomeClass(o) \in {"ok", "target", "blocked"}
             \/ o = "PROVIDER_BODY_OFFLOADED" /\ fact.page = "large"
             \/ Misled(h)
        /\ fact.kind = "dead_host" => o = "TARGET_ERROR"
        /\ fact \in AccountFacts => o \in {"AUTH_FAILED", "QUOTA_EXHAUSTED", "RATE_LIMITED"}
        /\ fact \in ProviderFacts => outcomeClass(o) = "provider"

\* The statuses all five adapters read alike.  Of the others Bright Data's adapter calls
\* OK all that are below 500, but for 401.
ReadAlike == 200 .. 299 \cup {403, 404, 429} \cup 500 .. 599

\* What the caller is told is content is content: a page the target served, no challenge,
\* not empty, and with the element the caller waited for, unless that is one that cannot
\* be looked for (chain.ts:826, unverified).  It was served as a success, or by Bright
\* Data, whose adapter leaves every other status to the detector (brightdata/index.ts:275).
OKIsContent ==
  \A h \in log :
    h.outcome = "OK" =>
      LET fact == h.fact IN
      /\ fact.kind = "served"
      /\ \/ fact.status \in 200 .. 299
         \/ h.provider = "brightdata" /\ fact.status \notin ReadAlike \cup {401}
      /\ fact.page \notin {"challenge", "blank"}
      /\ fact.page = "bare" => waitFor # "element"

\* A provider keeps some of what the target did from its adapter: Scrapfly a page too
\* large to be inlined, Firecrawl the status of a failure, and an envelope the challenge
\* under an error.  A target's forgery is for Bright Data's adapter only.
Tells(h) ==
  LET fact == h.fact IN
  /\ fact.kind = "served" /\ fact.page # "large"
  /\ h.provider = "firecrawl" => fact.status = 200
  /\ fact.page = "challenge" => fact.status \in 200 .. 299 \cup {403, 404, 429}
  /\ h.provider = "brightdata" => fact.forges = "nothing"

\* scraperapi/index.ts:116: "the same situation must produce the same outcome whichever
\* provider served it, or a caller cannot write correct code".  It does for every status a
\* target may answer with by four of the adapters, and by Bright Data's on those that all
\* read alike; on the others that sentence is not true (brightdata/index.ts:278).
AdaptersAgree ==
  \A g, h \in log :
    /\ g.fact = h.fact /\ Tells(g) /\ Tells(h)
    /\ "brightdata" \in {g.provider, h.provider} => h.fact.status \in ReadAlike
    => g.outcome = h.outcome

\* transport.ts:86: "The caller going away aborts this hop as surely as the deadline
\* does": no provider is asked, and paid, for a caller who has gone.
GoneStopsSpending == [][phase = "idle" /\ phase' # "idle" => ~gone]_vars
=============================================================================
