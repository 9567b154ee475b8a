------------------------------ MODULE Gateway ------------------------------
(***************************************************************************)
(* The handler of a scrape request (apps/gateway/src/app.ts) on several    *)
(* replicas: a tenant's token passes its limits (tenant.ts), then a slot   *)
(* of the replica is taken (inflight.ts) and the request is served; a      *)
(* replica drains on SIGTERM (index.ts). The limits are counted in Valkey  *)
(* (valkey.ts, ValkeyRateLimiter) and, while it cannot be reached, in the  *)
(* replica's memory. All requests come from one address.                   *)
(***************************************************************************)
EXTENDS RateLimit, FiniteSets

CONSTANTS
  Requests,     \* each arrives once
  Replicas,
  Accounts,     \* the provider accounts a token may hold
  Address,      \* the source address
  Limit,        \* of each limiter
  MaxInflight,
  MaxRefused,   \* keys refused (AUTH_FAILED) in one chain, at most
  Grace,        \* the shutdown's deadline
  MaxClock, MaxOutages, MaxStops,  \* bounds
  NoReplica

Limiters == {"addressLimit", "credentialLimit", "authFailures"}

ASSUME GatewayAssumption ==
  /\ IsFiniteSet(Requests)
  /\ Counted = Accounts \cup {Address}
  /\ Limit \in [Limiters -> Nat \ {0}]
  /\ MaxInflight \in Nat \ {0}
  /\ MaxRefused \in Nat /\ Grace \in Nat
  /\ MaxClock \in Nat /\ MaxOutages \in Nat /\ MaxStops \in Nat
  /\ NoReplica \notin Replicas

VARIABLES
  clock,
  valkey,    \* the counters in Valkey, by <<limiter, key>> and window
  reached,   \* can Valkey be reached?
  memory,    \* each replica's fallback counts, of each limiter
  state,     \* "up", "draining" or "down"
  since,     \* when a draining replica was told to stop
  inFlight,  \* InflightLimiter.#current
  req,       \* the requests
  outages, stops,
  granted,   \* history: takes granted, by where they were counted and the counter
  failed     \* history: refused keys noted, by the window they were noted in

vars == <<clock, valkey, reached, memory, state, since, inFlight, req, outages, stops,
          granted, failed>>
limits == <<valkey, memory, granted>>
replica == <<state, since, stops>>
world == <<clock, reached, outages>>

Starts == {windowStart(t) : t \in 0 .. MaxClock}
Limited == {"addressLimit", "authFailures"} \X {Address} \cup {"credentialLimit"} \X Accounts
Counters == Limited \X Starts
None == [c \in Counters |-> 0]
Phases == {"idle", "address", "peek", "keys", "gate", "served", "spending", "answered"}
Open == Phases \ {"idle", "answered"}
Holding == {"served", "spending"}

Request ==
  [phase : Phases, at : Replicas \cup {NoReplica}, tenant : BOOLEAN, now : 0 .. MaxClock,
   keys : SUBSET Accounts, over : BOOLEAN, left : 0 .. MaxRefused, ended : 0 .. MaxClock]

TypeOK ==
  /\ clock \in 0 .. MaxClock
  /\ valkey \in [Counters -> Nat]
  /\ reached \in BOOLEAN
  /\ memory \in [Replicas -> [Limiters -> Counts]]
  /\ state \in [Replicas -> {"up", "draining", "down"}]
  /\ since \in [Replicas -> 0 .. MaxClock]
  /\ inFlight \in [Replicas -> 0 .. MaxInflight]
  /\ req \in [Requests -> Request]
  /\ outages \in 0 .. MaxOutages
  /\ stops \in 0 .. MaxStops
  /\ granted \in [Replicas \cup {NoReplica} -> [Counters -> Nat]]
  /\ failed \in [Starts -> Nat]

Unborn ==
  [phase |-> "idle", at |-> NoReplica, tenant |-> FALSE, now |-> 0, keys |-> {},
   over |-> FALSE, left |-> 0, ended |-> 0]

Init ==
  /\ clock = 0
  /\ valkey = None
  /\ reached = TRUE
  /\ memory = [r \in Replicas |-> [l \in Limiters |-> NoCounts]]
  /\ state = [r \in Replicas |-> "up"]
  /\ since = [r \in Replicas |-> 0]
  /\ inFlight = [r \in Replicas |-> 0]
  /\ req = [q \in Requests |-> Unborn]
  /\ outages = 0
  /\ stops = 0
  /\ granted = [at \in Replicas \cup {NoReplica} |-> None]
  /\ failed = [start \in Starts |-> 0]

(***************************************************************************)
(* The limiters                                                            *)
(***************************************************************************)

\* take: one INCR in Valkey. If it cannot be reached the command may still
\* have run there, and the request is counted in memory.
TakeThere(l, key, now, ok) ==
  LET counter == <<<<l, key>>, windowStart(now)>>
  IN /\ reached
     /\ valkey' = [valkey EXCEPT ![counter] = @ + 1]
     /\ ok = (valkey[counter] + 1 <= Limit[l])
     /\ granted' = IF ok THEN [granted EXCEPT ![NoReplica][counter] = @ + 1] ELSE granted
     /\ UNCHANGED memory

\* The count is compared before it is raised.
TakeHere_CountBefore(r, l, key, now, ok) ==
  LET mem == took(memory[r][l], key, now)
  IN /\ ~reached
     /\ valkey' \in {valkey, [valkey EXCEPT ![<<<<l, key>>, windowStart(now)>>] = @ + 1]}
     /\ memory' = [memory EXCEPT ![r][l] = mem]
     /\ ok = (peeked(memory[r][l], key, now) <= Limit[l])
     /\ granted' = IF ok THEN [granted EXCEPT ![r][<<<<l, key>>, mem.start>>] = @ + 1] ELSE granted

TakeHere(r, l, key, now, ok) ==
  LET mem == took(memory[r][l], key, now)
  IN /\ ~reached
     /\ valkey' \in {valkey, [valkey EXCEPT ![<<<<l, key>>, windowStart(now)>>] = @ + 1]}
     /\ memory' = [memory EXCEPT ![r][l] = mem]
     /\ ok = (mem.counts[key] <= Limit[l])
     /\ granted' = IF ok THEN [granted EXCEPT ![r][<<<<l, key>>, mem.start>>] = @ + 1] ELSE granted

\* Whether the take is refused is decided by the count it finds.
take(r, l, key, now, ok) == TakeThere(l, key, now, ok) \/ TakeHere(r, l, key, now, ok)

peek(r, l, key, now) ==
  IF reached THEN valkey[<<<<l, key>>, windowStart(now)>>]
  ELSE peeked(memory[r][l], key, now)

(***************************************************************************)
(* The handler. Each await is a step of its own, and Date.now() is read    *)
(* when the token is resolved and again when the chain has run.            *)
(***************************************************************************)

\* A tenant's token goes through its limits; the operator's key does not.
Arrive(q, r) ==
  /\ req[q].phase = "idle"
  /\ state[r] = "up"
  /\ \E tenant \in BOOLEAN :
       req' = [req EXCEPT ![q] = [Unborn EXCEPT
                 !.phase = IF tenant THEN "address" ELSE "gate",
                 !.at = r, !.tenant = tenant, !.now = clock]]
  /\ UNCHANGED <<limits, replica, world, inFlight, failed>>

\* The limit of the address, before the token is opened.
AddressTaken(q) ==
  /\ req[q].phase = "address"
  /\ \E ok \in BOOLEAN :
       /\ take(req[q].at, "addressLimit", Address, req[q].now, ok)
       /\ req' = [req EXCEPT ![q].phase = IF ok THEN "peek" ELSE "answered"]
  /\ UNCHANGED <<replica, world, inFlight, failed>>

\* Has the address had too many keys refused? Then the token is opened: it may
\* be bad or denied, and otherwise it holds some keys.
Peek(q) ==
  /\ req[q].phase = "peek"
  /\ \/ /\ peek(req[q].at, "authFailures", Address, req[q].now) < Limit["authFailures"]
        /\ \E keys \in SUBSET Accounts \ {{}} :
             req' = [req EXCEPT ![q].phase = "keys", ![q].keys = keys]
     \/ req' = [req EXCEPT ![q].phase = "answered"]
  /\ UNCHANGED <<limits, replica, world, inFlight, failed>>

\* Promise.all over the keys of the token: each is counted, and the request is
\* refused if any is over.
KeyTaken(q) ==
  /\ req[q].phase = "keys"
  /\ \E key \in req[q].keys, ok \in BOOLEAN :
       LET over == req[q].over \/ ~ok
       IN /\ take(req[q].at, "credentialLimit", key, req[q].now, ok)
          /\ req' = [req EXCEPT ![q] = [@ EXCEPT
                      !.keys = req[q].keys \ {key}, !.over = over,
                      !.phase = IF req[q].keys # {key} THEN "keys"
                                ELSE IF over THEN "answered" ELSE "gate"]]
  /\ UNCHANGED <<replica, world, inFlight, failed>>

\* tryAcquire: a request that finds no slot is shed.
Gate(q) ==
  LET r == req[q].at
  IN /\ req[q].phase = "gate"
     /\ IF inFlight[r] >= MaxInflight
        THEN /\ req' = [req EXCEPT ![q].phase = "answered"]
             /\ UNCHANGED inFlight
        ELSE /\ req' = [req EXCEPT ![q].phase = "served"]
             /\ inFlight' = [inFlight EXCEPT ![r] = @ + 1]
     /\ UNCHANGED <<limits, replica, world, failed>>

release(r) == inFlight' = [inFlight EXCEPT ![r] = IF @ > 0 THEN @ - 1 ELSE @]

Ended(q, phase) == req' = [req EXCEPT ![q] = [Unborn EXCEPT !.phase = phase]]

Answer(q) == Ended(q, "answered") /\ release(req[q].at)

\* served returns. A tenant's refused keys are still to be noted, with the slot held.
Served(q) ==
  /\ req[q].phase = "served"
  /\ \/ Answer(q)
     \/ /\ req[q].tenant
        /\ \E n \in 1 .. MaxRefused :
             req' = [req EXCEPT ![q] =
                       [@ EXCEPT !.phase = "spending", !.left = n, !.ended = clock]]
        /\ UNCHANGED inFlight
  /\ UNCHANGED <<limits, replica, world, failed>>

\* The release is on the success path only.
ServedThrows_KeepsSlot(q) ==
  /\ req[q].phase = "served"
  /\ Ended(q, "answered")
  /\ UNCHANGED <<limits, replica, world, inFlight, failed>>

\* served throws: the slot goes back in the finally block.
ServedThrows(q) ==
  /\ req[q].phase = "served"
  /\ Answer(q)
  /\ UNCHANGED <<limits, replica, world, failed>>

\* The window the request arrived in is charged.
spentAt_Arrival(q) == req[q].now
\* Date.now() is read again when the chain has ended.
spentAt(q) == req[q].ended

\* spendAuthFailures: one take per refused key, one after another.
Spend(q) ==
  /\ req[q].phase = "spending"
  /\ \E ok \in BOOLEAN : take(req[q].at, "authFailures", Address, spentAt(q), ok)
  /\ failed' = [failed EXCEPT ![windowStart(req[q].ended)] = @ + 1]
  /\ IF req[q].left = 1 THEN Answer(q)
     ELSE req' = [req EXCEPT ![q].left = @ - 1] /\ UNCHANGED inFlight
  /\ UNCHANGED <<replica, world>>

(***************************************************************************)
(* Shutdown, restart and the world                                         *)
(***************************************************************************)

OpenAt(r) == {q \in Requests : req[q].at = r /\ req[q].phase \in Open}

\* SIGTERM: the server takes no more connections and waits for those it has.
Shutdown(r) ==
  /\ state[r] = "up"
  /\ stops < MaxStops
  /\ clock + Grace <= MaxClock  \* bound: the deadline is within the clock
  /\ stops' = stops + 1
  /\ state' = [state EXCEPT ![r] = "draining"]
  /\ since' = [since EXCEPT ![r] = clock]
  /\ UNCHANGED <<limits, world, inFlight, req, failed>>

Exit(r) ==
  /\ state' = [state EXCEPT ![r] = "down"]
  /\ since' = [since EXCEPT ![r] = 0]
  /\ inFlight' = [inFlight EXCEPT ![r] = 0]
  /\ memory' = [memory EXCEPT ![r] = [l \in Limiters |-> NoCounts]]
  /\ req' = [q \in Requests |->
               IF q \in OpenAt(r) THEN [Unborn EXCEPT !.phase = "answered"] ELSE req[q]]
  /\ UNCHANGED <<valkey, granted, world, stops, failed>>

\* The server is closed, and then Valkey, which may hang.
Closed(r) == state[r] = "draining" /\ OpenAt(r) = {} /\ Exit(r)

\* The race is won by the deadline.
Deadline(r) == state[r] = "draining" /\ clock - since[r] >= Grace /\ Exit(r)
\* The orchestrator starts the replica again; its counts in memory are new ones.
Restart(r) ==
  /\ state[r] = "down"
  /\ state' = [state EXCEPT ![r] = "up"]
  /\ granted' = [granted EXCEPT ![r] = None]
  /\ UNCHANGED <<valkey, memory, world, since, stops, inFlight, req, failed>>

\* Valkey goes away and comes back.
Outage ==
  /\ reached => outages < MaxOutages
  /\ reached' = ~reached
  /\ outages' = IF reached THEN outages + 1 ELSE outages
  /\ UNCHANGED <<limits, replica, clock, inFlight, req, failed>>

Tick ==
  /\ clock < MaxClock
  /\ clock' = clock + 1
  /\ UNCHANGED <<limits, replica, reached, outages, inFlight, req, failed>>

Handle(q) ==
  \/ AddressTaken(q) \/ Peek(q) \/ KeyTaken(q) \/ Gate(q)
  \/ Served(q) \/ ServedThrows(q) \/ Spend(q)

Next ==
  \/ \E q \in Requests : Handle(q) \/ \E r \in Replicas : Arrive(q, r)
  \/ \E r \in Replicas : Shutdown(r) \/ Closed(r) \/ Deadline(r) \/ Restart(r)
  \/ Outage
  \/ Tick

Spec == Init /\ [][Next]_vars

(***************************************************************************)
(* Properties                                                              *)
(***************************************************************************)

\* inflight.ts, "every true must be paired with exactly one release": the count
\* of a replica is the number of requests that hold a slot there, throws, refused
\* keys still to be noted and shutdowns included, and it respects the ceiling.
SlotsPaired ==
  \A r \in Replicas :
    /\ inFlight[r] = Cardinality({q \in Requests : req[q].at = r /\ req[q].phase \in Holding})
    /\ inFlight[r] <= MaxInflight

\* rate-limit.ts and valkey.ts, ValkeyRateLimiter: no counter lets more through
\* in one window than its limit, so that an outage multiplies a limit by the
\* replicas and never lifts it, however late a request of the window before is.
EachCounterHolds ==
  \A at \in Replicas \cup {NoReplica}, c \in Counters : granted[at][c] <= Limit[c[1][1]]

\* tenant.ts: while Valkey has been there all along, no request whose address has
\* had its limit of keys refused in the request's own window gets past the peek,
\* whichever replica noted them.
RefusalsStopArrivals ==
  [][outages' = 0 =>
       \A q \in Requests :
         req[q].phase = "peek" /\ req'[q].phase = "keys"
           => failed[windowStart(req[q].now)] < Limit["authFailures"]]_vars
=============================================================================
