--------------------------- MODULE FailoverChain ---------------------------
(***************************************************************************)
(* runChain (apps/gateway/src/chain.ts): requests for one domain walk the  *)
(* capable providers, best first, failing over from one to the next, and   *)
(* share the cooldown keys, each of which is open, cooling, half-open, or  *)
(* has its probe out.  A step runs from one await to the next.             *)
(***************************************************************************)
EXTENDS Outcome, HopBudget, Sequences, FiniteSets, SequencesExt

CONSTANTS
  Requests,
  Priority,        \* the capable providers, in the deployment's order
  HealthViews,     \* what the health snapshot may say of them
  Answers,         \* what an attempt may come to, of Outcomes
  InitialStore,    \* what earlier traffic may have left in the cooldown keys
  Deadline,        \* deadlineMs
  FastCap,         \* every provider's fastTimeoutMs
  MaxCap,          \* every provider's maxTimeoutMs
  TerminalRetries, \* extra goes at the last hop
  StoreErrors,     \* may cooldown calls fail?
  Slow,            \* bound: the answers that may take their whole budget
  Overhead,        \* bound: what a request may lose beside its attempts
  Lapsing,         \* bound: the keys whose records may run out meanwhile;
                   \* the forced slot's CAP_MS is longer than any deadline
  None             \* no provider, or no key

Providers == ToSet(Priority)
ForcedKey == <<"forced">>
blk(p) == <<"blk", p>>
acct(p) == <<"acct", p>>
Keys == {blk(p) : p \in Providers} \cup {acct(p) : p \in Providers} \cup {ForcedKey}
Statuses == {"open", "cooling", "halfopen", "probing"}

Attempts == [provider : Providers, outcome : Outcomes]

ASSUME ChainAssumption ==
  /\ Priority \in Seq(Providers) /\ Priority # <<>> /\ IsInjective(Priority)
  /\ HealthViews # {} /\ HealthViews \subseteq [Providers -> {"healthy", "degraded", "demoted"}]
  /\ Answers \subseteq Outcomes
  /\ InitialStore \subseteq [Keys -> Statuses \ {"probing"}]
  /\ Deadline \in Nat
  /\ FastCap \in Nat /\ MaxCap \in Nat /\ MinUseful <= FastCap /\ FastCap <= MaxCap
  /\ TerminalRetries \in Nat
  /\ StoreErrors \in BOOLEAN
  /\ Slow \subseteq Answers
  /\ Overhead \in Nat
  /\ Lapsing \subseteq Keys \ {ForcedKey}
  /\ None \notin Providers \cup Keys \cup Attempts

VARIABLES
  store,  \* the cooldown keys
  q       \* what each request's runChain holds

vars == <<store, q>>

PCs == {"new", "flooring", "floored", "claiming", "launching", "attempting",
        "lastResort", "lastArm", "done"}

\* What runChain returns, and why it returned.
Results == [outcome : Outcomes, provider : Providers \cup {None},
            why : {"answer", "exhausted", "time", "gone", "cooling", "probed"}]

Request ==
  [pc : PCs,
   snap : [Keys -> {"open", "cooling", "probe"}],   \* cooldowns
   health : HealthViews,                            \* states
   chain : Seq(Providers),                          \* attemptable
   i : Nat,
   unusable : SUBSET Providers,
   forcedBy : Providers \cup {None},                \* forcedByCooldown
   claimedKey : Keys \cup {None},
   onceUsed : BOOLEAN,
   exhaustionForced : BOOLEAN,
   retries : Nat,                                   \* terminalRetriesLeft
   left : Int,                                      \* deadlineMs - elapsed
   lost : 0 .. Overhead,                            \* of it, outside the attempts
   attempts : Seq(Attempts),
   lastVerdict : Attempts \cup {None},
   result : Results \cup {None}]

TypeOK ==
  /\ store \in [Keys -> Statuses]
  /\ q \in [Requests -> Request]

-----------------------------------------------------------------------------
decide(status) ==
  CASE status = "open" -> "open"
    [] status = "halfopen" -> "probe"
    [] OTHER -> "cooling"

\* The worst thing either namespace says about provider p.
cooldownFor(s, p) ==
  LET both == {s.snap[blk(p)], s.snap[acct(p)]}
  IN  IF "cooling" \in both THEN "cooling"
      ELSE IF "probe" \in both THEN "probe" ELSE "open"

cooled(s) == {p \in Providers : cooldownFor(s, p) = "cooling"}

notCooling(s) == (Providers \ cooled(s)) \cup ({s.forcedBy} \ {None})

byPriority == [p \in Providers |-> CHOOSE n \in DOMAIN Priority : Priority[n] = p]

RANK == [healthy |-> 0, degraded |-> 1, demoted |-> 2]
byHealth(s) == [p \in Providers |-> RANK[s.health[p]] * Len(Priority) + byPriority[p]]

\* The providers in set, the smallest key first.
orderChain(set, key) ==
  CHOOSE c \in [1 .. Cardinality(set) -> set] :
    \A m, n \in 1 .. Cardinality(set) : m < n => key[c[m]] < key[c[n]]

rank_ByPriority(s) == orderChain(notCooling(s) \ s.unusable, byPriority)

\* The usable providers, healthy before degraded; a demoted one only when there
\* is nothing else, and then only the first.
rank(s) ==
  LET usable == notCooling(s) \ s.unusable
      up == {p \in usable : s.health[p] # "demoted"}
  IN  IF up # {} \/ usable = {} THEN orderChain(up, byHealth(s))
      ELSE <<Head(orderChain(usable, byHealth(s)))>>

provider(s) == s.chain[s.i]
hopsLeft(s) == Len(s.chain) - s.i

cap(s) ==
  IF hopsLeft(s) = 0 /\ s.health[provider(s)] = "healthy" /\ s.forcedBy # provider(s)
  THEN MaxCap ELSE FastCap

budget(s) == perAttempt(s.left, hopsLeft(s), cap(s))

Return(s, outcome, p, why) ==
  [s EXCEPT !.pc = "done", !.claimedKey = None,
            !.result = [outcome |-> outcome, provider |-> p, why |-> why]]

lastCompleted(s) == Last(s.attempts)

IsVerdict(a) == outcomeClass(a.outcome) \in {"blocked", "target"}

summary_LastHop(s) == lastCompleted(s)

\* The last attempt in which the target answered; if none did, the last attempt.
summary(s) == IF s.lastVerdict # None THEN s.lastVerdict ELSE lastCompleted(s)

ReturnSummary(s) == Return(s, summary(s).outcome, summary(s).provider, "exhausted")

\* The top of the loop, or what follows it.
AtHop(s) ==
  IF s.i <= Len(s.chain)
  THEN [s EXCEPT !.pc = IF cooldownFor(s, provider(s)) = "probe"
                        THEN "claiming" ELSE "launching"]
  ELSE IF s.attempts # <<>> THEN ReturnSummary(s)
  ELSE Return(s, "NO_PROVIDER_AVAILABLE", None, "probed")

Rerank(s) == AtHop([s EXCEPT !.chain = rank(s), !.i = 1])

-----------------------------------------------------------------------------
\* The store calls, each of which may fail when StoreErrors.
ClaimGranted(k) ==
  /\ store[k] \in {"open", "halfopen"}
  /\ store' = [store EXCEPT ![k] = IF @ = "halfopen" THEN "probing" ELSE @]

ClaimRefused(k) == store[k] \in {"cooling", "probing"} /\ UNCHANGED store

Writes(before, k, statuses) ==
  {[before EXCEPT ![k] = status] : status \in statuses}
    \cup (IF StoreErrors THEN {before} ELSE {})

\* settleProbe: release what was claimed and not settled.
Released(before, s) ==
  IF s.claimedKey = None \/ before[s.claimedKey] # "probing" THEN {before}
  ELSE Writes(before, s.claimedKey, {"halfopen"})

\* The key an outcome at provider p arms or clears; OK and a 404 clear the block
\* key only.
wroteKey(p, o) ==
  CASE cooldownScope(o) = "blk" -> blk(p)
    [] cooldownScope(o) = "acct" -> acct(p)
    [] o \in {"OK", "TARGET_NOT_FOUND"} -> blk(p)
    [] OTHER -> None

\* The store after that write; a draw of zero leaves an armed key half-open.
Written(p, o) ==
  IF wroteKey(p, o) = None THEN {store}
  ELSE Writes(store, wroteKey(p, o),
              IF cooldownScope(o) = "none" THEN {"open"} ELSE {"cooling", "halfopen"})

Settled_OnAnyWrite(s, p, o) ==
  [s EXCEPT !.claimedKey = IF wroteKey(p, o) # None THEN None ELSE @]

\* A claim is settled by a write to the very key that was claimed.
Settled(s, p, o) ==
  [s EXCEPT !.claimedKey = IF wroteKey(p, o) = @ THEN None ELSE @]

Init ==
  /\ store \in InitialStore
  /\ q = [r \in Requests |->
       [pc |-> "new", snap |-> [k \in Keys |-> "open"],
        health |-> CHOOSE view \in HealthViews : TRUE,
        chain |-> <<>>, i |-> 1, unusable |-> {}, forcedBy |-> None,
        claimedKey |-> None, onceUsed |-> FALSE, exhaustionForced |-> FALSE,
        retries |-> TerminalRetries, left |-> Deadline, lost |-> 0,
        attempts |-> <<>>, lastVerdict |-> None, result |-> None]]

\* Time goes by beside the attempts: the stores are awaited, replies are parsed and
\* searched, chains are ranked; and each hop reads the clock anew.
Late(s, d) == [s EXCEPT !.left = @ - d, !.lost = @ + d]

Wait(r) ==
  /\ q[r].pc \notin {"new", "attempting", "done"}
  /\ \E d \in 1 .. Overhead - q[r].lost : q' = [q EXCEPT ![r] = Late(@, d)]
  /\ UNCHANGED store

\* One snapshot of health and cooldowns (a failed read finds every key open),
\* then the walk, or the floor when every provider is cooling.
Start(r) ==
  /\ q[r].pc = "new"
  /\ \E view \in HealthViews,
        snap \in {[k \in Keys |-> decide(store[k])]}
                   \cup (IF StoreErrors THEN {[k \in Keys |-> "open"]} ELSE {}) :
       LET s == [q[r] EXCEPT !.snap = snap, !.health = view]
       IN  q' = [q EXCEPT ![r] = IF notCooling(s) = {} THEN [s EXCEPT !.pc = "flooring"]
                                 ELSE Rerank(s)]
  /\ UNCHANGED store

\* The floor's claim of the domain's forced slot.  It fails closed.
ClaimFloor(r) ==
  /\ q[r].pc = "flooring"
  /\ \/ ClaimGranted(ForcedKey) /\ q' = [q EXCEPT ![r].pc = "floored"]
     \/ /\ ClaimRefused(ForcedKey) \/ (StoreErrors /\ UNCHANGED store)
        /\ q' = [q EXCEPT ![r] = Return(@, "NO_PROVIDER_AVAILABLE", None, "cooling")]

ArmFloor_NoArm(r) ==
  /\ q[r].pc = "floored"
  /\ UNCHANGED store
  /\ \E p \in cooled(q[r]) : q' = [q EXCEPT ![r] = Rerank([@ EXCEPT !.forcedBy = p])]

\* The slot is armed, and the cooled provider nearest to open is the chain.
ArmFloor(r) ==
  /\ q[r].pc = "floored"
  /\ store' \in Writes(store, ForcedKey, {"cooling"})
  /\ \E p \in cooled(q[r]) : q' = [q EXCEPT ![r] = Rerank([@ EXCEPT !.forcedBy = p])]

\* The key a probe is claimed on: the block key's, before the account key's.
probeKey(s) ==
  IF s.snap[blk(provider(s))] = "probe" THEN blk(provider(s)) ELSE acct(provider(s))

Claim_StillUsable(r) ==
  /\ q[r].pc = "claiming"
  /\ LET s == q[r] IN
     \/ /\ ClaimGranted(probeKey(s)) \/ (StoreErrors /\ UNCHANGED store)
        /\ q' = [q EXCEPT ![r].pc = "launching", ![r].claimedKey = probeKey(s)]
     \/ /\ ClaimRefused(probeKey(s))
        /\ q' = [q EXCEPT ![r] = Rerank(s)]

\* The half-open probe's claim.  It fails open; lost, the chain is ranked again.
Claim(r) ==
  /\ q[r].pc = "claiming"
  /\ LET s == q[r] IN
     \/ /\ ClaimGranted(probeKey(s)) \/ (StoreErrors /\ UNCHANGED store)
        /\ q' = [q EXCEPT ![r].pc = "launching", ![r].claimedKey = probeKey(s)]
     \/ /\ ClaimRefused(probeKey(s))
        /\ q' = [q EXCEPT ![r] =
                   Rerank([s EXCEPT !.unusable = @ \cup {provider(s)}])]

ReturnUnsent(r, result) ==
  /\ store' \in Released(store, q[r])
  /\ q' = [q EXCEPT ![r] = result]

\* hopBudget, then translate, then the request is sent.
Launch(r) ==
  /\ q[r].pc = "launching"
  /\ LET s == q[r] IN
     IF Exhausted(s.left)
     THEN ReturnUnsent(r, Return(s, "BUDGET_EXCEEDED", None, "time"))
     ELSE \/ q' = [q EXCEPT ![r].pc = "attempting"] /\ UNCHANGED store
          \/ /\ "INVALID_REQUEST" \in Answers
             /\ ReturnUnsent(r, Return([s EXCEPT !.attempts = Append(@,
                    [provider |-> provider(s), outcome |-> "INVALID_REQUEST"])],
                  "INVALID_REQUEST", None, "answer"))

\* The caller hangs up: nothing is recorded and nothing is cooled.
ClientGone(r) ==
  /\ q[r].pc = "attempting"
  /\ ReturnUnsent(r, Return(q[r], "BUDGET_EXCEEDED", None, "gone"))

Retryable == {"PROVIDER_ERROR", "PROVIDER_TIMEOUT"}

Bookkept_NotUnusable(s, p, o, spent) ==
  [s EXCEPT !.left = @ - spent, !.attempts = Append(@, [provider |-> p, outcome |-> o])]

\* The attempt enters the chain's own books.
Bookkept(s, p, o, spent) ==
  LET attempt == [provider |-> p, outcome |-> o]
  IN  [s EXCEPT !.unusable = @ \cup {p}, !.left = @ - spent,
                !.attempts = Append(@, attempt),
                !.lastVerdict = IF IsVerdict(attempt) THEN attempt ELSE @]

After_RetriesUncounted(s, o) ==
  LET onward == [s EXCEPT !.onceUsed = @ \/ failover(o) = "once"]
  IN  IF failover(o) = "false" \/ (failover(o) = "once" /\ s.onceUsed)
      THEN Return(s, o, provider(s), "answer")
      ELSE IF hopsLeft(s) > 0 THEN AtHop([onward EXCEPT !.i = @ + 1])
      ELSE IF o \in Retryable /\ s.left > FastCap
      THEN AtHop([onward EXCEPT !.retries = @ - 1])
      ELSE ReturnSummary(onward)

\* Where the walk goes after outcome o at the current hop.
After(s, o) ==
  LET onward == [s EXCEPT !.onceUsed = @ \/ failover(o) = "once"]
  IN  IF failover(o) = "false" \/ (failover(o) = "once" /\ s.onceUsed)
      THEN Return(s, o, provider(s), "answer")
      ELSE IF hopsLeft(s) > 0 THEN AtHop([onward EXCEPT !.i = @ + 1])
      ELSE IF s.retries > 0 /\ o \in Retryable /\ s.left > FastCap
      THEN AtHop([onward EXCEPT !.retries = @ - 1])
      ELSE IF ~s.exhaustionForced /\ cooled(s) \ s.unusable # {}
      THEN [onward EXCEPT !.pc = "lastResort", !.exhaustionForced = TRUE]
      ELSE ReturnSummary([onward EXCEPT !.exhaustionForced = TRUE])

\* The attempt ends, at once or when its budget does, and is looked at, which may take
\* time.  A claim still unsettled is released at once, unless the last resort is awaited
\* first.
Reply(r) ==
  /\ q[r].pc = "attempting"
  /\ \E o \in Answers \ {"INVALID_REQUEST"} :
     \E spent \in (IF o = "PROVIDER_TIMEOUT" THEN {} ELSE {0})
                   \cup (IF o \in Slow THEN {budget(q[r])} ELSE {}),
        late \in 0 .. Overhead - q[r].lost :
       LET p == provider(q[r])
           s == Settled(Bookkept(Late(q[r], late), p, o, spent), p, o)
           next == After(s, o)
       IN  \E written \in Written(p, o) :
             IF next.pc = "lastResort"
             THEN store' = written /\ q' = [q EXCEPT ![r] = next]
             ELSE /\ store' \in Released(written, s)
                  /\ q' = [q EXCEPT ![r] = [next EXCEPT !.claimedKey = None]]

\* claimForcedAttempt, when the whole chain has failed.  It fails closed.
ClaimLastResort(r) ==
  /\ q[r].pc = "lastResort"
  /\ LET s == q[r] IN
     \/ ClaimGranted(ForcedKey) /\ q' = [q EXCEPT ![r].pc = "lastArm"]
     \/ /\ store[ForcedKey] \in {"cooling", "probing"} \/ StoreErrors
        /\ ReturnUnsent(r, ReturnSummary(s))

\* The slot is armed, and one untried cooled provider is the whole chain.
ArmLastResort(r) ==
  /\ q[r].pc = "lastArm"
  /\ LET s == q[r] IN
     \E armed \in Writes(store, ForcedKey, {"cooling"}) :
       /\ store' \in Released(armed, s)
       /\ \E p \in cooled(s) \ s.unusable :
            q' = [q EXCEPT ![r] = AtHop([s EXCEPT !.forcedBy = p, !.chain = <<p>>,
                                                  !.i = 1, !.claimedKey = None])]

\* A cooldown runs out.
Expire(k) ==
  /\ store[k] = "cooling"
  /\ store' = [store EXCEPT ![k] = "halfopen"]
  /\ UNCHANGED q

\* The store forgets a record whose cooldown ran out long ago.
Forget(k) ==
  /\ store[k] \in {"halfopen", "probing"}
  /\ store' = [store EXCEPT ![k] = "open"]
  /\ UNCHANGED q

Finished ==
  /\ \A r \in Requests : q[r].pc = "done"
  /\ UNCHANGED vars

Step(r) ==
  \/ Start(r)
  \/ ClaimFloor(r)
  \/ ArmFloor(r)
  \/ Claim(r)
  \/ Launch(r)
  \/ ClientGone(r)
  \/ Reply(r)
  \/ ClaimLastResort(r)
  \/ ArmLastResort(r)

Next ==
  (\E r \in Requests : Step(r) \/ Wait(r)) \/ (\E k \in Lapsing : Expire(k) \/ Forget(k)) \/ Finished

\* A started request is never left waiting: store calls and provider calls return.
Fairness == \A r \in Requests : WF_vars(q[r].pc # "new" /\ Step(r))

Spec == Init /\ [][Next]_vars /\ Fairness

-----------------------------------------------------------------------------
Active(r) == q[r].pc \in {"launching", "attempting", "lastResort", "lastArm"}
Attempting(r) == q[r].pc \in {"launching", "attempting"}
Tried(r) == {a.provider : a \in ToSet(q[r].attempts)}

\* A probe slot that is taken is owed a settlement by a request under way.  What
\* an outcome writes is often another namespace than what was claimed, and the
\* claim must be settled all the same (chain.ts, settleProbe).
NoStrandedProbe ==
  \A k \in Keys : store[k] = "probing" =>
    \E r \in Requests :
      \/ Active(r) /\ q[r].claimedKey = k
      \/ k = ForcedKey /\ q[r].pc \in {"floored", "lastArm"}

\* However often the walk is ranked again, it pays a provider a second time only
\* to retry a hop that has just failed to answer, and for no more retries than the
\* request has (chain.ts, unusable and terminalRetriesLeft).
NoSecondAttempt ==
  \A r \in Requests : LET tries == q[r].attempts IN
    /\ \A b \in 2 .. Len(tries) :
         (\E a \in 1 .. b - 1 : tries[a].provider = tries[b].provider) =>
           tries[b - 1].provider = tries[b].provider /\ tries[b - 1].outcome \in Retryable
    /\ Len(tries) <= Cardinality(Tried(r)) + TerminalRetries

\* A verdict outranks a fault: a chain that ran out after the target was heard
\* from reports the target's answer, whatever hop came last (chain.ts, lastVerdict).
VerdictOutranksFault ==
  \A r \in Requests : q[r].pc = "done" /\ q[r].result.why = "exhausted" =>
    ((\E a \in ToSet(q[r].attempts) : IsVerdict(a)) => IsVerdict(q[r].result))

\* A request tries at most one provider that was cooling when it started, and
\* only on the domain's forced slot (chain.ts, claimForcedAttempt).
OneForcedAttempt ==
  \A r \in Requests :
    /\ Cardinality(Tried(r) \cap cooled(q[r])) <= 1
    /\ Attempting(r) /\ provider(q[r]) \in cooled(q[r]) => q[r].forcedBy = provider(q[r])

\* A demoted provider gets a request only as the floor: every better one is
\* cooling, tried already, or being probed elsewhere (health.ts, eligible).
DemotedIsFloor ==
  \A r \in Requests : Attempting(r) => LET s == q[r] IN
    s.health[provider(s)] = "demoted" /\ s.forcedBy # provider(s) =>
      \A p \in Providers : s.health[p] # "demoted" => p \in cooled(s) \cup s.unusable

\* With the floor for every provider in the deadline, a planned hop finds the time
\* gone only if the request has lost, beside its attempts, more than the floors of
\* all the hops behind it: slow answers alone starve nobody, however the chain is
\* ranked again and retried.  Only a forced last resort is planned for by no hop
\* (budget.ts: "each attempt RESERVES time for the hops behind it").
PlannedHopsGetTime ==
  \A r \in Requests : LET s == q[r] IN s.pc = "done" /\ s.result.why = "time" =>
    \/ Deadline < Len(Priority) * MinUseful
    \/ s.exhaustionForced
    \/ s.lost > hopsLeft(s) * MinUseful

UnderWay == {r \in Requests : q[r].pc \notin {"new", "done"}}

\* Every request that starts is answered, however claims are lost, chains ranked
\* again and hops retried.
Answered == UnderWay # {} ~> UnderWay = {}

\* "The cooldown this attempt just armed does NOT block the retry, deliberately"
\* (chain.ts:1117): a retry of the last hop is not refused its own provider.
RetryNotBlocked ==
  [][\A r \in Requests :
       q[r].pc = "claiming" /\ provider(q[r]) \in q[r].unusable /\ q'[r] # q[r] =>
         q'[r].pc = "launching"]_vars
=============================================================================
