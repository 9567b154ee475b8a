# Verification of proxlane

proxlane is a gateway in front of several scraping providers. A request names a
URL; the gateway tries the providers that can serve it, best first, until one
brings an answer worth returning. This directory holds TLA+ models of what the
gateway decides and remembers, TLC configurations that check them on small
instances, and TLAPS proofs of what matters most. Paths are relative to the
repository's root.

Run a model with `tlc -config X.cfg M`, check proofs with `tlapm M_proofs.tla`.
`PROJECT.json` lists the runs, the source lines every definition models, the
hazards, the findings and the theorems.

## 1. The system

### Components

| component | state it keeps | operations | models |
|---|---|---|---|
| failover chain, `apps/gateway/src/chain.ts` | one request's walk: snapshot, ranked chain, providers no longer usable, the claim it holds, attempts, last verdict | `runChain` | `FailoverChain`, `Attempt` |
| cooldown rules, `packages/shared/src/cooldown.ts` | none (pure) | `decide`, `arm`, `armFor`, `claimProbe`, ceilings, key names | `Cooldown` |
| cooldown stores, `apps/gateway/src/cooldown-store.ts`, `valkey.ts` | a record per key; in Valkey with an expiry and shared by all gateways | `check`, `claim`, `arm`, `clear`, `release`, `sweep` | `InMemoryCooldown`, `ValkeyCooldown` |
| outcome taxonomy, `packages/shared/src/outcome.ts` | none (a table) | class, failover policy, cooldown scope | `Outcome` |
| hop budget, `apps/gateway/src/budget.ts` | none (pure) | `hopBudget` | `HopBudget`, `BudgetWalk` |
| transport, `packages/shared/src/transport.ts` | a timer, the caller's signal, bytes read | `execute`, `readCapped` | `Attempt` |
| adapters and block detection, `packages/adapters`, `packages/detect` | none (pure) | `parse` of five providers, `isContentFree`, `detect` | `Adapters` |
| health, `packages/shared/src/health.ts` | a statistic and a state per provider | `observe`, `observeProbe`, `probeDelayMs`, ranking | `Health`; ranking in `FailoverChain` |
| health store, `valkey.ts` | a shared record, and in each gateway a buffer and a batch in flight | `record`, `flush`, `snapshot`, `close` | `HealthBuffer` |
| prober, `apps/gateway/src/prober.ts` | when each demoted provider was last probed; a lease | `tick` | `Prober` |
| OAuth grants, `oauth*.ts`, `grant-store.ts` | used codes and refresh tokens, revoked families | `exchange`, `verifyAccess`, `claim`, `revoke`, `finishAuthorize` | `OAuthGrants` |
| tenancy, limits, slots, `tenant.ts`, `rate-limit.ts`, `inflight.ts`, `app.ts` | counters per window, slots taken | `resolveTenant`, `take`, `peek`, `tryAcquire`, `release` | `RateLimit`, `Gateway` |
| start and shutdown, `apps/gateway/src/index.ts` | drain, its deadline | `shutdown` | `Gateway`, `HealthBuffer` (`close`) |
| database, `packages/db/src` | migration journal, partitions | `migrateUp`, `migrateDown`, `ensurePartitions`, `dropExpiredPartitions` | `Migrations`, `Rotation`, `Database` |
| edge guard, simulation, SDK, CLI, web site, scripts | none that lives on | | not modelled, see 6 |

### How they interact

A request passes its limits (`resolveTenant`), takes a slot of its replica, and
its handler calls `runChain`. That reads the health of the capable providers and
the cooldowns of all their keys once, drops the providers that are cooling, ranks
the rest by health, and walks the list. Each hop gets a share of the deadline
(`hopBudget`), goes through the transport, which cuts it off in time, and is read
by the provider's adapter into an *outcome*. The outcome's row in `FAILOVER` says
whether to go on, which cooldown key to arm, `blk` (this provider on this domain)
or `acct` (this provider's account), and the outcome is recorded in the health
store. All requests, and with Valkey all gateways, share keys and health. An
expired cooldown admits one *probe*, which a request must claim first; whoever
claims owes a settlement (arm, clear or release). When everything is cooling, one
request per domain may force an attempt, on a key of its own (`forced`). A
provider that health has demoted gets no traffic; the prober of each gateway,
under a shared lease, sends it probes until enough in a row are clean.

### What is hard, and what makes each part correct

* *Shared slots and many ways out.* A claim is made on one key, the outcome often
  writes another, and a hop ends in a dozen ways. Every claim is settled
  (`NoStrandedProbe`, `SlotComesBack`); every in-flight slot is released once
  (`SlotsPaired`).
* *Decide on a snapshot, act on the live record.* Between the read and the claim,
  others arm, clear, release and let expire. The chain is ranked again after a
  lost claim, and must neither pay a provider twice (`NoSecondAttempt`), nor use
  a demoted one too early (`DemotedIsFloor`), nor go round for ever (`Answered`).
  A probe's result comes back to a provider that may since have been lifted and
  demoted again (`LiftIsEarned`); a refresh passes the revocation check while the
  family is being revoked (`RevokedStaysDead`); what a request's keys were refused
  is counted in another window than the one it came in (`RefusalsStopArrivals`).
* *Unawaited writes.* `arm` in Valkey is read, compute, compare-and-set, retry;
  it must not undo what others wrote (`NoLostArm`, `ImplementsBreaker`) and its
  loss must cost a bounded outage (`OutageBounded`). Health is buffered and
  written behind (`ImplementsLog`, `ReadsItsOwn`, `CloseLosesOneBatch`,
  `EventuallyWritten`).
* *Failures half way.* A command may be applied and its reply lost (`NeverForks`),
  Valkey may come and go under a limiter (`EachCounterHolds`), deployers race one
  another without a lock (`JournalIsTrue`, `ReferrersLater`), and a job may die
  between two queries (`InsertsFit`, `RetentionKept`, `RetentionFrees`).
* *Time.* A slow hop must not starve the later ones (`ImplementsWalk`,
  `PlannedHopsGetTime`), a trickling body must not keep a request
  (`AttemptEnds`), and only a provider that was given its time is given the blame
  (`TimeoutIsEarned`).
* *The answer.* An exhausted chain reports what the target said rather than the
  last fault (`VerdictOutranksFault`); five providers' ways of saying things are
  read alike, as far as they are, and blame whom they should (`AdaptersAgree`,
  `BlameIsWhereItBelongs`, `OKIsContent`).

The full list, each at its line, is under `hazards` in `PROJECT.json`.

## 2. The modules

```
Cooldown --> InMemoryCooldown --implements--> HalfOpen <--implements-- ValkeyCooldown <-- Cooldown
Outcome, HopBudget --> FailoverChain
HopBudget, ChainPlan --> BudgetWalk <--implements-- Attempt <-- Outcome, Adapters, ChainPlan, HopBudget
Outcome --> Health --> Prober
HealthBuffer --implements--> HealthLog
RateLimit --> Gateway
Migrations, Rotation --> Database (both INSTANCEd over one state)
OAuthGrants
```

* `Cooldown` has the pure rules over an entry `[until, consecutive, probeTaken]`.
  A jittered draw is the set of values it can take; `arm` returns the set of
  entries it may leave.
* `HalfOpen` is the abstract specification of one cooldown key, as the store
  interface promises it: a record `[until, consecutive, probeTaken]` and the calls
  on it. `Arm` sets a fresh cooldown, of at most `Longest` counted from at most `Lag`
  ago, and counts exactly one more than the record it replaces; `Claim` takes the
  slot of an expired record and touches nothing else; `Release` frees a slot and
  leaves cooldown and count alone; `Clear` empties the key; and `Pass` forgets a
  record, count and all, only when its cooldown has been over for more than `Keep`.
  Which call a step is, is a variable of the specification and a history variable
  of the two stores, so a store cannot pass a blind write off as some other call.
* `InMemoryCooldown` is one key of the in-memory store and the requests that use
  it. Store calls are atomic (one event loop); a request is several of them with
  awaits between. `MayArm` says who arms, including a request on a stronger tier
  that arms this block key without ever having read it.
* `ValkeyCooldown` is the same key in Valkey. `Claim`, `Release` and `Clear` are
  one command; an arm is the task `Arm`, `ArmRead`, `ArmSwap`, with up to
  `Attempts` tries, while the request has long gone. Records expire (`Tick`), after
  the instant in which their TTL is zero: a script that writes one back in that
  instant leaves it without an expiry (`Kept`, `Never`). And
  commands and replies get lost (`ClaimLost`, `ArmLost`, `SettleLost`), including
  a command that was applied and is sent again.
* `Outcome` has the sets of outcomes by class, the failover policy and the
  cooldown scope of each. `HopBudget` has `perAttempt` and `Exhausted`.
* `FailoverChain` is `runChain`. `q[r]` is what one call holds; `store` is the shared
  keys, each of which is open, cooling, half-open or has its probe out: what `decide`
  makes of a record, and its slot. A step goes from one await to the next or less:
  `Start` (snapshot), `ClaimFloor`/`ArmFloor` (everything is cooling), `Claim` (a
  probe), `Launch` (budget, translate, send), `Reply` (books, cooldown writes,
  policy, settlement), `ClientGone`, `ClaimLastResort`/`ArmLastResort` (the whole
  chain failed), `Wait` for the time that store calls and parsing take beside the
  attempts, and `Expire`/`Forget` for time passing in the store.
* `BudgetWalk` is the arithmetic of the walk alone: hops with shares of a deadline,
  and time lost between them (`Wait`). `Attempt` opens its attempts up: `Launch`
  starts the timer and adds the abort listener, `Headers`, `Chunk`, `TooLarge`,
  `Reply` and `Fails` are what the network does, `TimerFires` aborts, `HangUp` is the
  caller, and `Caught` is the catch block that tells the two apart. `Adapters` says
  what the answer comes to: `parse` of each adapter, and `runChain`'s judgement of a
  page that is empty or lacks the awaited element; one that is no HTML, or whose
  selector it cannot evaluate (`Waits`), it leaves unverified. A target may send
  Bright Data's error headers itself (`Forgeries`, `Passes`). What a provider *sends*
  in a situation (`Says`) is external and taken from the recorded fixtures.
* `Health` has `observe` and `observeProbe` over a whole-number statistic; only
  signs and order of the steps matter, so they are tables. `Prober` runs passes of
  several gateways (`Tick`, `Forget`, `NotDue`, `AskLease`, `Leased`, `LeaseHeld`,
  `ProbeEnds`) with live traffic (`Observe`), failing store calls and restarts.
  Instants are relative to the present, which bounds the state without bounding
  the run, so that liveness means something.
* `HealthBuffer` is `ValkeyHealthStore`: `Enqueue`, the timer's `Flush`, `Write`
  (GET, then compare-and-set), `Execute` (Valkey takes a command), `Fold`,
  `Swapped`, `Read`, `Break`/`Resend` (a connection lost with commands and replies
  on it) and `Close`/`CloseRound`. A round of the close awaits the write it queued
  itself (`awaits`), whatever is queued behind it. The record is kept as the sequence of
  observations it is the fold of, so that order, loss and repetition are visible.
  `HealthLog` is what it promises: a log to which each gateway's observations go
  in order and once; only a full buffer sheds, and only a lost command or reply
  brings back what had landed, never more than the end of the last stretch the
  gateway has in the log. `ReadsItsOwn` says of a snapshot that the gateway's own
  observations are in it, each once and in the order made.
* `OAuthGrants` is an exchange step by step (`Present`, `AskRevoked`, `Record`
  (the claim), `Mark` (the revocation), `Issue`), with boxes that anybody may
  present again, expiry, lost answers, store failures and restarts. The constant
  `Shared` chooses Valkey or the in-memory store.
* `RateLimit` has a fixed window in memory; `Gateway` is the `/v1` handler around
  the chain on several replicas: `Arrive`, the limits (`AddressTaken`, `Peek`,
  `KeyTaken`) counted in Valkey or, in an `Outage`, in the replica's memory,
  `Gate` (the slot), `Served`, `Spend` (the refused keys), and `Shutdown`,
  `Closed`, `Deadline`, `Restart`. A command that fails may have counted.
* `Migrations` is `migrateUp` and `migrateDown` by deployers without a lock. A file
  and its journal row are one transaction of two statements, between which others
  commit: `UpCreates`, `UpCommits`, and `DownDrops`, which neither sees nor waits for
  a table that is not committed, `DownCommits`, which deletes a row committed since.
  A transaction may fail, or its connection break, at any of them. `Rotation` is the
  two partition jobs, query by query, with the ISO-week arithmetic of partition
  names: `Wanted` is the partition an `ensurePartitions` run is at, `Onward` the next
  one, and `NewYear` gives each day the first of its year, so that nothing depends on
  the calendar. `Database` composes them: one migration creates the partitioned
  tables, and rolling it back takes their partitions with it.
* `MC*` modules and `.cfg` files instantiate these. `*_proofs` hold the proofs.

Operators named `X_Something` beside `X` are variants of `X` with one plausible
mistake each (a claim settled by any write, a blind write, a box remembered too
briefly, a share with no reserve); the specifications never use them. Each
property is known to fail when its variant replaces `X`.

### Abstractions

* *Chain.* One domain, organisation and tier; capable providers are given and there
  is at least one (the URL guard and the empty case return before any state is
  touched). Arming the weaker tiers after a block is in the store models. An attempt
  ends at once or uses its whole budget (`Slow`); what a request loses beside its
  attempts, at any point of the walk, is at most `Overhead`, and of any size in the
  proofs; health is one of `HealthViews` at the snapshot, and the provider nearest to
  opening is an arbitrary cooled one. `Retry-After`, reasons and texts do not appear.
  The forced slot's 15 minutes are longer than any deadline (120 s), so that key does
  not expire under a request that armed it (`Lapsing` excludes it). The ranking is
  the one sequence of the usable providers in which the health rank and then the
  configured place grow (`byHealth`), which is what the source's filter and stable
  sort leave; `lastVerdict` is kept in the walk, as there.
* *Attempt.* No terminal retry and no cooling provider, which `FailoverChain` has.
  Time is the process's clock in steps; a timer that is due fires before the next
  step, but the hang-up, the body and the headers come in any order before it.
  `Sites` is any set of what can happen at a target, a status from 100 to 599 with
  a page and a forgery among them.
* *Stores.* Compare-and-set compares content, and the clocks of the gateways agree.
* *Prober.* A pass takes no time but for its probes, and health writes land at
  once: a flush takes seconds, less than a lease has left when its probe is over.
* *Grants.* A sealed box cannot be forged. A command that reaches Valkey in or
  after the very millisecond its box expires is outside the properties (`late`);
  the check of the box and the command are some milliseconds apart, and then the
  box is dead anyway.
* *Gateway.* One source address, one token kind with and without stored keys; the
  chain is a served interval and how many keys it had refused. The counters of a
  replica that restarts are new. The expiry of a window's key in Valkey is not
  modelled: it outlives its window.
* *Database.* Tables are sets of objects; a second writer of the same objects
  waits and then finds them there. Days are counted from a Monday. A journal has no
  two rows of one hash, which is unique.

## 3. The runs

| run | module, cfg | instance | what it shows |
|---|---|---|---|
| `in_memory` | `MCInMemoryCooldown` | 3 requests, clock to 5; entries fresh, just refused, and refused twice and expiring | each step is a call of the interface and does what that says; the probe slot is never stranded and comes back |
| `valkey` | `MCValkeyCooldown` | 3 requests, 2 tries, clock to 4, one lost command or reply, claims and releases in a record's last instant | the same for the shared store with arms in the background; no arm is lost to another; a stranded slot lasts no longer than the record, while that has an expiry |
| `chain` | `MCFailoverChain` | 2 requests that find the same health, 2 providers, the first of them well or demoted, everything cooled or probes to fight over, a key expiring and forgotten meanwhile | claims are settled, one forced provider at most, no second payment, a demoted provider only as the floor, every started request is answered |
| `chain_one` | `MCFailoverChain_One` | 1 request, 3 providers, 11 outcomes, slow answers, failing store calls, up to 2 floors of time lost between attempts | the walk by itself: verdicts and time |
| `attempt` | `MCAttempt` | `Timed`: 3 hops over 2 chains that hold the five providers, deadlines that just fit and that leave one hop room, a step lost between hops, a body of two chunks over a cap of one, a hang-up at any moment. `Hurried`: 10 chains that hold each pair of providers in both orders, 8 statuses, 6 pages, forged headers, and as much time as one answer takes | the walk implements the budget's arithmetic; attempts end; outcomes blame the right party, and agree |
| `prober` | `MCProber` | 2 gateways, 1 provider, a lease of 2 intervals, first delay 3, ceiling 6, 2 clean probes to be lifted, 1 fault | never two probes at once, only clean probes of this demotion lift, a provider that answers again is lifted |
| `health_buffer` | `MCHealthBuffer` | a gateway with 3 observations, a read, a close and a loss; another that contends with 1 | the buffer implements the log, a close loses no more than a batch, what is owed is written |
| `oauth` | `MCOAuthGrants` | 1 grant in Valkey, rotated twice, 2 requests, refresh tokens that live 2 steps of 2, 1 failure, 1 restart | a family never forks and stays dead once revoked |
| `gateway` | `MCGateway` | 2 replicas, 2 requests, limits of 1, two windows, 1 outage, 1 shutdown | slots are paired, every counter holds, refused keys stop arrivals |
| `database` | `MCDatabase` | 3 migrations, 2 deployers, 5 deployments, 2 of them beside the jobs; 11 days from Monday 23 December 2024, 2 tables, 1 crash | journal and schema agree, rows stand in an order that can be rolled back, inserts find their partition, retention keeps and frees |

Why the bounds suffice. Two requests are what it takes to lose a claim; a third, on a
single key, lets a stale settlement meet two probes. Two providers give a re-ranking
something to fall back on, and three separate "the last hop" from "the hop that had
the verdict" and from the demoted one. The cooldown clocks let a refusal, its expiry,
a failed probe at its longer ceiling and the sweep or TTL all happen. In `chain` the
two requests overlap with the same health (`SameHealth`): what health does to a walk
is its own ranking, and the better provider of a demoted one is lost to the other
request's probe. A lost floor is what it takes to starve the last hop, and with two
the hop before it. `attempt` has a first, a middle and a last hop, whose caps differ;
its second instance leaves time out, which `judge` does not see. A buffer of two with
three observations overflows, and a contender with one write makes a compare-and-set
fail once and then succeed. A grant rotated twice has a token that is used, one that
is live and one that is not issued yet when a replay comes. Two rollbacks beside an
up, after the up that made what they roll back, are four deployments, and a fifth
applies again what is gone; further deployments race each other only, before any job
has run (`MaxBeside`, `Undisturbed`). Two windows and a request of the first that is
late are what a roll-over needs; an outage leaves counts in three places. The year's
turn puts two Mondays into one week number unless the year is taken from the Monday.
`prober` has one provider: leases, health and backoff are per provider, and a pass
visits providers one after another, so a second one adds delay between a snapshot and
its use. How much delay is harmless is what `LiftsInReach` proves, for any number of
providers (see section 4 and "Also seen"). The constants declared as bounds say so
where they are declared. `SYMMETRY` over requests or replicas is used only where
safety alone is checked. `CHECK_DEADLOCK FALSE` in `gateway` and `database`: their
clocks end.

Two more runs exhibit places where the code does not do what its comments say;
`PROJECT.json` (`findings`) quotes the lines.

| run | what happens |
|---|---|
| `retry_not_blocked` | a terminal retry is refused by the account key its first go armed |
| `gone_stops_spending` | a caller who hangs up between two hops has the next provider asked, waited for and paid |

### Fairness

* `SlotComesBack`, `Answered`: a request which has started goes on (weak fairness
  on the disjunction of its steps). Every provider call carries a budget enforced
  by the transport, and store commands have their own time limit.
* `AttemptEnds`: the clock, timers that are due, and the catch block. Nothing is
  assumed of the network: a body may trickle for ever.
* `Recovers`: a gateway's interval fires and its pass goes on, and time passes.
  Leases and probes have budgets of their own. Faults and restarts are bounded.
* `EventuallyWritten`: the flush timer and the work of a connection, while the
  gateway stays up; that a batch is detached from the buffer is not enough, it must be
  in the record or shed. `ImplementsLog` is safety.
* `RetentionFrees`: the job is run, and days pass. The job is a cron line.

Nothing is assumed of requests or traffic arriving, of the sweep, or of clocks
where they are not named here.

### Also seen

The models have these behaviours, and TLC was seen to find each of them when asked
whether the sentence beside it holds. The properties are worded so as to allow them,
and where they contradict a comment of the source, the lines are given.

Cooldowns and the chain:

* A release frees whatever slot is taken, whoever took it. One that comes late frees
  the slot of a newer probe, and one expiry is probed twice (`cooldown-store.ts:134`;
  the interface speaks of "the single post-expiry probe", line 35). It never touches
  cooldown or count, which is what `ImplementsBreaker` says.
* `CLAIM` and `RELEASE` write a record back with the TTL it has left. In the very
  millisecond in which that is zero they write it without an expiry
  (`valkey.ts:438`, `452`), though both are called "TTL-preserving" (line 566). If the
  settlement is lost too, the slot is taken for ever; `OutageBounded` is of records
  with an expiry.
* Concurrent arms overwrite one another: a jittered draw can shorten the wait a target
  asked for. An arm gives up after losing to claims, releases or clears although
  nobody else armed (`valkey.ts:534`).
* A forced slot without a record is granted to everybody until the first arm
  (`cooldown.ts:186`), so all requests that find a domain cooled before that force an
  attempt at once, against `chain.ts:515` ("all force at once, which is the herd the
  probe exists to prevent") and `chain.ts:1148` ("so it cannot herd").
  `OneForcedAttempt` is of one request at a time.
* A terminal retry asks whether a fast cap still fits, and then runs under the long
  cap if it is the healthy last hop: it may use the deadline up, and a last resort
  forced after it answers `BUDGET_EXCEEDED`, which `chain.ts:1115` says is impossible.
* A chain that ends on a lost claim never asks for the forced slot
  (`chain.ts:712`, `1201`). One that does may find too little of the deadline
  left, spending the slot for fifteen minutes without an attempt and answering
  `BUDGET_EXCEEDED` where an earlier hop had a verdict. That hop is planned for by
  none before it, and `PlannedHopsGetTime` leaves it out.
* The reserve is exact (`budget.ts:50`), and the clock is read anew at each hop. A
  millisecond of store calls or parsing in between starves the last hop of a chain
  whose deadline just fits. So `PlannedHopsGetTime` and `EveryHopReached` say how much
  must have been lost, beside the attempts, for a hop to find its time gone: more than
  the floors of all the hops behind it. For the last hop that is anything at all.

Attempts:

* Bright Data's adapter reads a target's 401 as a block, and every status below 500 it
  does not name, 301 or 410 say, as a success for the detector to judge
  (`brightdata/index.ts:278`). The other four call all of these a target error, where
  `scraperapi/index.ts:116` says that "the same situation must produce the same outcome
  whichever provider served it". `AdaptersAgree` compares Bright Data with another on
  the statuses of `ReadAlike` only, and `OKIsContent` says which others it lets through.
* Most adapters read a challenge under a 5xx as a block; Scrapfly and Firecrawl, whose
  envelope hides it, leave it a target error. `Tells` says what a provider keeps from
  its adapter. `isContentFree` looks at the first 512 bytes only.
* A target that sends Bright Data's error headers itself has its answer booked as Bright
  Data's failure or, in the whole recorded shape, as the account's. The source knows and
  accepts it (`brightdata/index.ts:164`); it is the exception `Misled`.
* A page that is no HTML, or a selector that cannot be evaluated, passes as a success
  without the awaited element (`chain.ts:826`), marked unverified.

Health:

* A batch whose reply is lost is counted twice. Where it holds failures that are not
  enough to demote a provider, the second count may be, though `valkey.ts:370` says that
  this "cannot invent a demotion".
* `flush` says it waits "for writes already in flight" (`valkey.ts:234`), but awaits the
  write it queued itself. A write queued behind the last one holds its batch out of
  `#pending` while `close` looks there (line 258), so a batch may be lost unreported.
  `CloseLosesOneBatch` says that this is all that can be.
* A gateway without the lease notes nothing, and a lease is shorter than the
  first delay, so N gateways probe up to N times as often as the delay says
  (`prober.ts:147`). Backoff is forgotten only by a pass that sees the provider
  well, so a demotion that follows closely inherits the old delay.
* A pass uses one snapshot for all candidates: after long probes of earlier ones,
  a provider may be probed although others lifted it meanwhile, and the result
  counts if it is demoted again before the probe ends. It takes an earlier probe
  that uses its time up, a lift and a demotion within it, and costs one clean probe
  too few. `LiftIsEarned` therefore needs every provider to be in reach (`InReach`):
  its lease, `maxTimeoutMs` + 5 s, is longer than the probes (`fastTimeoutMs`) of it
  and of all candidates before it. The condition is sharp: with two candidates in
  `MCProber` and a lease of two budgets, TLC finds that trace. ScraperAPI, Scrapfly
  and ScrapingBee, in this order, come after 22, 42 and 64 s and have leases of
  75, 55 and 75 s, so they are in reach. With Bright Data and Firecrawl behind them
  those come after 99 and 129 s and have leases of 95 s each: when all five are
  demoted and the earlier ones hang, these two are not.

Grants, limits, shutdown:

* A refresh whose answer is lost is refused when tried again, and the whole family
  is revoked (`oauth-token.ts:112`). A restart of a gateway without Valkey forgets
  uses and revocations; both properties exclude it.
* A command that reaches Valkey in the very millisecond its box expires is granted
  although the record of an earlier use is gone; both properties exclude that (`late`).
* A burst from one address passes `peek` together before its refusals are noted.
* An outage multiplies a limit by the number of replicas, plus one.
* What a request does when it throws while its refused keys are noted, after its slot
  was given back, is not modelled.

Database:

* A job that dies between DETACH and DROP leaves a table no later run finds
  (`partitions.ts:170`), although "every job is safe to retry" (lines 10 and 11): the
  exception in `RetentionFrees`.
* A rollback's DROP beside an uncommitted CREATE sees no table and goes on; its DELETE
  then finds the row that was committed in between. Tables are left behind and the
  migration is marked un-applied, which the comment of `migrateDown` calls worse than a
  refusal (`migrate.ts:76`, `105`). `JournalIsTrue` says that the journal never names
  what is not there, which is the direction that holds.
* Deployers that race may journal files out of their order; `ReferrersLater` says it is
  never one that a rollback cannot undo.

## 4. The proofs

| theorem | statement | argument |
|---|---|---|
| `InMemoryCooldown_proofs!Typed` | `Spec => []TypeOK`, which no run repeats | with the next one, by the invariant `IInv` |
| `InMemoryCooldown_proofs!ProbeNeverStranded` | `Spec => []NoStrandedProbe` | `IInv` = `TypeOK`, `NoStrandedProbe` and `TakenIsExpired`: a taken slot is in a record whose time is up, so that arming always frees it and the refinement's "probing" and "cooling" never mix |
| `InMemoryCooldown_proofs!KeyIsABreaker` | `Spec => ImplementsBreaker` | every action is the call of `HalfOpen` that it records, with that call's effect on time, count and slot, from `IInv` and the lemmas about the rules |
| `ValkeyCooldown_proofs!ValkeyTyped` | `Spec => []TypeOK` | step by step; the record is whole whatever the tasks write over each other |
| `ValkeyCooldown_proofs!ProbeNeverStranded` | `Spec => []NoStrandedProbe`, for any number of losses | strengthened by who owes the settlement: while nothing is lost, what an arm task read is either still there, or somebody wrote after it |
| `ValkeyCooldown_proofs!NoArmIsLost` | `Spec => NoLostArm` | a swap writes only over the record its task read, and what it writes was armed from that one |
| `ValkeyCooldown_proofs!OutageIsBounded` | `Spec => []OutageBounded` | `Recorded`: a record in place has not come to its end, unless a script wrote it back in its last instant; `TasksRecent`: what a task is about to write was computed at most its lag ago |
| `ValkeyCooldown_proofs!ValkeyIsABreaker` | `Spec => ImplementsBreaker` | as above, from `IInv`: a swap writes over what its task read, hence counts exactly one more, and a record that vanishes has been over for the grace |
| `FailoverChain_proofs!ChainStrandsNoProbe` | `~StoreErrors => (Spec => []NoStrandedProbe)` | `Pays`: a step takes a probe only from a key that offers one and then owes it; what it owed it settles or goes on owing, on each path out of the walk |
| `FailoverChain_proofs!ChainTypes` | `Spec => []TypeOK` | `Walks`, see below |
| `FailoverChain_proofs!RetriesOnlyRetry` | `Spec => []NoSecondAttempt` | `Ledger`: attempts made and retries left are together no more than the providers tried and the retries given; `Ahead`, `Again`: what is ahead was not tried, but for a retry of the last hop |
| `FailoverChain_proofs!OneIsForced` | `~StoreErrors => (Spec => []OneForcedAttempt)` | `SlotHeld`: a request that forced a provider has the domain's slot armed, so that it is not given out again under it; `OnlyForced` |
| `FailoverChain_proofs!DemotedOnlyAsFloor` | `Spec => []DemotedIsFloor` | `OnlyFloor`, from what `rank` returns for every health and store |
| `FailoverChain_proofs!TimeForPlannedHops` | `Spec => []PlannedHopsGetTime`, for every `Overhead` | `InTime`: while no last resort is forced, every better provider is still ahead, and the time left and the time `lost` cover the floor of each hop ahead (`Spare`) |
| `FailoverChain_proofs!VerdictIsReported` | `Spec => []VerdictOutranksFault` | `Ledger`: where an attempt was a verdict, one is kept, and `Ended`: it is what an exhausted walk returns |
| `FailoverChain_proofs!WalksAreFinite` | every step of a request lessens its `Fuel`, or keeps it and spends of the time it may lose | `Hops`: providers not tried, retries left, and one for a retry under way; from `Walks`, since a lost claim or a new ranking never brings back what was tried |
| `Attempt_proofs!AttemptsAreAWalk` | `Spec => ImplementsWalk` | every step of an attempt is a step of `BudgetWalk` or a stutter, from `IInv`: what time was lost between attempts is `Counted`, and an attempt under way is `WithinShare` |
| `Attempt_proofs!AttemptsStarveNoHop` | `Spec => []EveryHopReached` | `Reserved`, along the refinement: what remains of the deadline covers the floors of all hops to come |
| `Attempt_proofs!AttemptWithinDeadline` | `Spec => []WithinDeadline` | from the same invariant |
| `Attempt_proofs!BlameIsTrue` | `Spec => []BlameIsWhereItBelongs` | `LogIsTold`: every entry of the log is what `judge` makes of something that the provider says of what happened; then the table of each adapter, for every status |
| `Attempt_proofs!OKIsTrue` | `Spec => []OKIsContent`, for every target | `LogIsTold`, and what each adapter, the detector and the caller's finish line let through as content |
| `Attempt_proofs!AdaptersAlwaysAgree` | `Spec => []AdaptersAgree`, for every pair of providers and every status | `LogIsTold`, and that four adapters read a status that was told to them as `outcomeForTarget` does, Bright Data's on `ReadAlike` |
| `Attempt_proofs!TimeoutsAreEarned` | `Spec => TimeoutIsEarned` | `CutOff`: an attempt that is aborted while its caller is there has had its share |
| `Gateway_proofs!SlotsArePaired` | `Spec => []SlotsPaired` | `SlotsInv`: each replica counts the requests that hold a slot there, and no request that is open belongs to a replica that is down |
| `Gateway_proofs!CountersHold` | `Spec => []EachCounterHolds` | `CountsInv`: what Valkey let through is bounded by its counter; what a replica let through in the window its memory is in, by that memory, and a window it has left it never counts again |
| `Gateway_proofs!ArrivalsStopped` | `Spec => RefusalsStopArrivals` | `RefusalsCounted`: without an outage, every refusal noted is in Valkey's counter of its window |
| `Prober_proofs!OneProbe` | `Spec => []OneProbeAtATime` | `Covered`: the age of a probe and the rest of its lease add up to the provider's `LeaseTtl`, and a probe's budget is less, so nobody finds the lease free meanwhile |
| `Prober_proofs!LiftsInReach` | `Spec => [][Lift]_vars`: `LiftIsEarned` of each provider that is `InReach`, whatever the others are | `CountKept`: the store's count of clean probes is no more than were sent in this demotion; `SentSince`: a probe under way was sent in it; and `Fresh`, see below |
| `Prober_proofs!LiftsAreEarned` | if all are `InReach`, `Spec => LiftIsEarned` | from `LiftsInReach` |
| `Prober_proofs!OnlyProbesLift` | `Spec => [][..]_vars`: only a clean probe that completes the store's count lifts | what `observe` and `observeProbe` do to a sane state; no condition on leases |
| `HealthBuffer_proofs!BufferTyped` | `Spec => []TypeOK` | `IInv`, see below |
| `HealthBuffer_proofs!CloseLosesAtMostABatch` | `Spec => []CloseLosesOneBatch` | every observation made is in the record, in the batch, in the buffer or shed; a close that reports nothing has an empty buffer, and there is a batch only while a write is queued |
| `HealthBuffer_proofs!BuffersImplementLog` | `Spec => ImplementsLog` | every step maps to a step of `HealthLog` or a stutter, from `KInv` |
| `HealthBuffer_proofs!SnapshotsAreWhole` | `Spec => []ReadsItsOwn` | `JInv`, see below |
| `Durable_proofs!FamiliesNeverFork` | `Spec => []NeverForks` | `OneLine`: a family has one box that can be exchanged, or one request that won and will seal the next; `Remembered`: a use is remembered while its box opens |
| `Durable_proofs!RevocationLasts` | `Spec => []RevokedStaysDead` | `CodeFirst`: when a family is revoked its code has been used; `Doomed`: a request past the check holds a clock from before the mark, so what it seals ends before it |
| `Durable_proofs!JournalHolds` | `DatabaseSpec => []JournalIsTrue` | with its sequence of rows (`JournalInv`): a commit that takes objects away takes the row there is by then; what `Append` and `RemoveAt` do to a sequence without repetitions are lemmas |
| `Durable_proofs!NewestRollsBack` | `DatabaseSpec => []ReferrersLater`: the files that refer to a row's have later rows | `OrderInv`, with `Locks`: what a file refers to is there while it is made, and cannot be dropped while it is there or being made |
| `Durable_proofs!InsertsHold` | `DatabaseSpec => []InsertsFit` | `RotationInv`, see below |
| `Durable_proofs!RetentionHolds` | `DatabaseSpec => []RetentionKept` | from the same invariant |
| `Durable_proofs!NamesAreDistinct` | two Mondays or tables never have one `partitionName`, for any years | equal names have the year of the Monday in common, hence the Monday the weeks are counted from |

They hold for every value of the constants that satisfies the modules' named
assumptions (`CooldownAssumption`, `InMemoryAssumption`, `ValkeyAssumption`,
`ChainAssumption`, `MinUsefulAssumption`, `ChainPlanAssumption`, `AttemptAssumption`,
`WindowAssumption`, `GatewayAssumption`, `ProberAssumption`, `HealthAssumption`,
`GrantsAssumption`, `DatabaseAssumption`).
The two cooldown proofs begin with the lemmas about the rules: an armed entry is
fresh, its draws are whole numbers under their ceilings (which needs that powers
of two are), and taking and releasing keep the type.

Three theorems have a hypothesis beyond those, stated in the theorem:

* `~StoreErrors`, for the two of `FailoverChain` that a failing store really
  breaks: a claim whose answer is lost is owed by nobody, and a slot that could
  not be armed is given out again.
* `InReach`, for all providers, in `LiftsAreEarned`: a lease of a provider is longer
  than the probes of it and of those before it in a pass. "Also seen" says which
  gateways meet it, and what happens where it fails. `LiftsInReach` has no such
  hypothesis: it speaks of those providers that are in reach.

The longer arguments:

* *The walk of `FailoverChain`.* The invariant `Walks` says of each request what
  it owes to its past (`Ledger`) and, while it walks, of what is ahead of it
  (`Course`); a finished one is `Ended`. That is inductive since each step hands the
  next hop a chain that is the tail of the last or a new ranking without what is
  no longer usable. Of a ranking only four facts are needed: its members, that
  none is there twice, that a demoted one is there only alone, and that all better
  ones are there. They are lemmas about `orderChain`: such an enumeration exists
  for every finite set and every key that tells its members apart, since the place
  of each is the number of those below it.
* *Snapshots of the prober.* A pass may hold a snapshot that is no longer true of a
  provider: somebody lifted it since. `Fresh` says that the lease of the probe that
  did so is then no older than the pass, counting a whole budget for each
  candidate the pass has left behind; it holds whatever the leases. So the lease of a
  provider that is `InReach` is still held when the pass comes to it, and it is not
  probed. That is why `LiftIsEarned` needs no check of the store before a probe is
  sent.
* *The buffer.* There is one write under way at a time, and what is on its
  connection is as that write left it (`OneWrite`); a confirmed batch is in the
  record (`Confirmed`). The log's `waiting` is the batch that has not landed
  followed by the buffer. To map a lost reply to `Lose` one must know that a batch
  that has landed is still the last stretch of the gateway's own in the record,
  however others wrote behind it (`Stretch`), that it landed just when a reply
  saying so is on its way (`Landing`), and that a gateway writes what it made
  itself (`Mine`). Until something is lost, what is in the record, in the batch and
  in the buffer is in order from one to the next (`InOrder`), and a reply to a read
  has the batch just when it comes behind the swap (`Informed`); hence laying batch
  and buffer over it, as `applyPending` does, neither forgets nor counts twice.
* *The partitions.* `Kept` says of a week that it has its partition unless it ends
  before the retention window. `RotationInv` has it of all weeks that the last
  complete run saw to (`LastRunKeeps`), of those that the run under way has passed
  (`RunKeeps`) and of all that was created (`MadeKept`). It is inductive since what a
  retention job is about to drop was past when the job listed it, and is so for
  ever (`OnlyPastGoes`), however many days the job takes; and since a run that finds a
  table of the name it is about to create has found that very week's partition, or a
  detached one that is past, by `NamesAreDistinct`. A run may straddle midnight on a
  Sunday: it goes on with the weeks it began with, and today's is among them as
  long as `InsertsFit` says. A rollback of the tables forgets all of this, and a
  run that was under way is not counted as complete (`undone`).

Only model-checked, and why:

* liveness, since fairness is beyond the prover: `SlotComesBack`, `Answered`,
  `AttemptEnds`, `Recovers`, `EventuallyWritten`, `RetentionFrees`. Of `Answered`
  the half without fairness is proved: no request takes more than six steps and
  five for each provider and retry (`WalksAreFinite`, `FuelGiven`);
* what the recursive and folding operators compute for every input; for the same
  reason that a deployer's plan, which `SelectSeq` filters, lists what the journal
  lacks (nothing above rests on it).

## 5. What is left

`FailoverChain` over keys whose arms arrive late; a second domain that shares the
account keys; tiers.

## 6. Not modelled

HTTP parsing and formatting, log lines, headers, routes other than `/v1` and the
token endpoint; `translate` of the adapters, charsets and costs; the patterns of
block detection (an attempt sees what they detect); the edge guard's address
checks; sealing of tokens and the consent page: they are pure translations, and
hold no state that these models read.

Most of the repository by lines is of this kind: the scripts that check the
repository, record fixtures and generate the API description, the web site, the
command line and the SDK. They are run by hand or in CI over files, or are clients
of the HTTP interface; none keeps state that lives on, runs concurrently with
itself or shares anything with the gateway but its interface, so a model would
restate them line by line. The simulation replays the pure routing rules for a
report.
