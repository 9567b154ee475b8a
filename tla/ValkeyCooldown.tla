--------------------------- MODULE ValkeyCooldown ---------------------------
(***************************************************************************)
(* One key of ValkeyCooldownStore (apps/gateway/src/valkey.ts), shared by  *)
(* the requests of every gateway.  claim, release and clear are one        *)
(* command each; arm is a task nobody awaits, a GET and then a compare-    *)
(* and-set, retried while other writers win.  Commands and replies may be *)
(* lost.  The gateways' clocks are taken to agree.                         *)
(***************************************************************************)
EXTENDS Cooldown, FiniteSets

CONSTANTS
  Requests,       \* each is one pass of one chain over this key
  RetryAfters,    \* the waits a target may ask for
  NoRetryAfter,   \* the target asked for none
  InitialEntries, \* what earlier traffic may have left under the key
  Grace,          \* COOLDOWN_GRACE_MS: how long a record outlives its cooldown
  Never,          \* the expiry of a record written without PX
  Attempts,       \* CAS_ATTEMPTS
  MaxLosses,      \* bound: commands and replies the store loses
  ArmLag,         \* bound: an arm task is over within this many ticks
  MaxNow          \* bound: the clock stops here

ASSUME ValkeyAssumption ==
  /\ RetryAfters \subseteq Nat
  /\ NoRetryAfter \notin Nat
  /\ Grace \in Nat \ {0}
  /\ Never \notin Int
  /\ InitialEntries \subseteq
       {NoEntry} \cup {e \in Entry : ~e.probeTaken /\ 0 <= e.until + Grace}
  /\ Attempts \in Nat \ {0}
  /\ MaxLosses \in Nat
  /\ ArmLag \in Nat \ {0}
  /\ MaxNow \in Nat

VARIABLES
  now,      \* the clock
  entry,    \* the record under the key, or NoEntry
  expires,  \* the last instant the store keeps the record (PX), or Never
  pc,       \* where each request is; "reading" and "swapping" are its arm task
  holds,    \* the request's claimedKey is this key, and is not settled
  armAt,    \* the arm task's now
  wait,     \* the arm task's retryAfterMs
  read,     \* what the arm task's GET returned
  tries,    \* the arm task's lost attempts
  losses,   \* commands and replies lost so far
  call      \* history: the call that took effect in the last step, or "none"

task == <<armAt, wait, read, tries>>
vars == <<now, entry, expires, pc, holds, task, losses, call>>

PC == {"new", "claiming", "attempting", "reading", "swapping", "done"}

Calls == {"none", "arm", "claim", "release", "clear"}

TypeOK ==
  /\ now \in Nat
  /\ entry \in Entry \cup {NoEntry}
  /\ expires \in Int \cup {Never}
  /\ pc \in [Requests -> PC]
  /\ holds \in [Requests -> BOOLEAN]
  /\ armAt \in [Requests -> Nat]
  /\ wait \in [Requests -> RetryAfters \cup {NoRetryAfter}]
  /\ read \in [Requests -> Entry \cup {NoEntry}]
  /\ tries \in [Requests -> Nat]
  /\ losses \in Nat
  /\ call \in Calls

Init ==
  /\ now = 0
  /\ entry \in InitialEntries
  /\ expires = IF entry = NoEntry THEN 0 ELSE entry.until + Grace
  /\ pc = [r \in Requests |-> "new"]
  /\ holds = [r \in Requests |-> FALSE]
  /\ armAt = [r \in Requests |-> 0]
  /\ wait = [r \in Requests |-> NoRetryAfter]
  /\ read = [r \in Requests |-> NoEntry]
  /\ tries = [r \in Requests |-> 0]
  /\ losses = 0
  /\ call = "none"

\* check: MGET when the chain starts.  A cooling key is skipped, unless the
\* chain forces an attempt because every provider it could use is cooling.
Check(r) ==
  /\ pc[r] = "new"
  /\ \E next \in CASE decide(entry, now) = "open" -> {"attempting"}
                  [] decide(entry, now) = "probe" -> {"claiming"}
                  [] OTHER -> {"attempting", "done"} :
       pc' = [pc EXCEPT ![r] = next]
  /\ call' = "none"
  /\ UNCHANGED <<now, entry, expires, holds, task>>

Granted(r) ==
  /\ pc' = [pc EXCEPT ![r] = "attempting"]
  /\ holds' = [holds EXCEPT ![r] = TRUE]

Refused(r) ==
  /\ pc' = [pc EXCEPT ![r] = "done"]
  /\ UNCHANGED holds

\* The expiry CLAIM and RELEASE write the record back with: the PTTL they read, or
\* none when that is not positive, in the record's last instant or for want of one.
Kept == IF expires # Never /\ now < expires THEN expires ELSE Never

\* The slot is taken, by one script.
Take ==
  /\ entry' = taken(entry)
  /\ expires' = IF entry = NoEntry THEN expires ELSE Kept
  /\ call' = "claim"

\* The CLAIM script: check and write in one command.
Claim(r) ==
  /\ pc[r] = "claiming"
  /\ IF claimed(entry, now)
     THEN Take /\ Granted(r)
     ELSE Refused(r) /\ call' = "claim" /\ UNCHANGED <<entry, expires>>
  /\ UNCHANGED <<now, task>>

\* A claim whose command or reply is lost.  It rejects, and the chain goes ahead
\* as though granted; or the client sends it again and it finds itself refused.
ClaimLost(r) ==
  /\ pc[r] = "claiming"
  /\ \/ Granted(r) /\ call' = "none" /\ UNCHANGED <<entry, expires>>
     \/ /\ claimed(entry, now)
        /\ entry # NoEntry
        /\ Take
        /\ Refused(r)
  /\ UNCHANGED <<now, task>>

\* arm is called: the attempt settles its claim at once and the task starts. A
\* request refused on a stronger tier arms a block key it never read.
Arm(r) ==
  /\ pc[r] = "attempting" \/ (pc[r] = "new" /\ Scope = "blk")
  /\ pc' = [pc EXCEPT ![r] = "reading"]
  /\ holds' = [holds EXCEPT ![r] = FALSE]
  /\ armAt' = [armAt EXCEPT ![r] = now]
  /\ \E w \in RetryAfters \cup {NoRetryAfter} : wait' = [wait EXCEPT ![r] = w]
  /\ call' = "none"
  /\ UNCHANGED <<now, entry, expires, read, tries>>

\* The arm task's GET.
ArmRead(r) ==
  /\ pc[r] = "reading"
  /\ pc' = [pc EXCEPT ![r] = "swapping"]
  /\ read' = [read EXCEPT ![r] = entry]
  /\ call' = "none"
  /\ UNCHANGED <<now, entry, expires, holds, armAt, wait, tries>>

\* The entries the task may write over what it read.
ToWrite(r) ==
  IF wait[r] = NoRetryAfter THEN arm(read[r], armAt[r])
  ELSE {armFor(read[r], armAt[r], wait[r])}

Write_Absolute(r) ==
  /\ entry' \in ToWrite(r)
  /\ expires' = now + entry'.until + Grace
  /\ call' = "arm"

Write(r) ==
  /\ entry' \in ToWrite(r)
  /\ expires' = now + Greater(1, entry'.until - armAt[r] + Grace)
  /\ call' = "arm"

TryAgain(r) ==
  /\ tries' = [tries EXCEPT ![r] = @ + 1]
  /\ pc' = [pc EXCEPT ![r] = IF tries[r] + 1 < Attempts THEN "reading" ELSE "done"]

ArmSwap_Blind(r) ==
  /\ pc[r] = "swapping"
  /\ Write(r)
  /\ pc' = [pc EXCEPT ![r] = "done"]
  /\ UNCHANGED tries
  /\ UNCHANGED <<now, holds, armAt, wait, read>>

\* The arm task's CAS script: write if nobody else did, else try again, and give
\* up after Attempts.  Records compare by content.
ArmSwap(r) ==
  /\ pc[r] = "swapping"
  /\ IF entry = read[r]
     THEN /\ Write(r)
          /\ pc' = [pc EXCEPT ![r] = "done"]
          /\ UNCHANGED tries
     ELSE TryAgain(r) /\ call' = "none" /\ UNCHANGED <<entry, expires>>
  /\ UNCHANGED <<now, holds, armAt, wait, read>>

\* A lost arm: it rejects and is dropped; or it was applied, is sent again, and
\* reads its own write as another writer's.
ArmLost(r) ==
  /\ \/ /\ pc[r] \in {"reading", "swapping"}
        /\ pc' = [pc EXCEPT ![r] = "done"]
        /\ call' = "none"
        /\ UNCHANGED <<entry, expires, tries>>
     \/ /\ pc[r] = "swapping"
        /\ entry = read[r]
        /\ Write(r)
        /\ TryAgain(r)
  /\ UNCHANGED <<now, holds, armAt, wait, read>>

Settle(r) ==
  /\ pc[r] = "attempting"
  /\ pc' = [pc EXCEPT ![r] = "done"]
  /\ holds' = [holds EXCEPT ![r] = FALSE]
  /\ UNCHANGED <<now, task>>

\* clear: DEL.
Clear(r) ==
  /\ Settle(r)
  /\ entry' = NoEntry
  /\ call' = "clear"
  /\ UNCHANGED expires

Release_Never(r) ==
  /\ Settle(r)
  /\ call' = "none"
  /\ UNCHANGED <<entry, expires>>

\* The RELEASE script, when the outcome settled nothing under this key: a no-op
\* where no slot is taken.
Release(r) ==
  /\ Settle(r)
  /\ IF holds[r] /\ entry # NoEntry /\ entry.probeTaken
     THEN entry' = released(entry) /\ expires' = Kept
     ELSE UNCHANGED <<entry, expires>>
  /\ call' = IF holds[r] THEN "release" ELSE "none"

\* A clear or a release the store never sees.
SettleLost(r) ==
  /\ Settle(r)
  /\ call' = "none"
  /\ UNCHANGED <<entry, expires>>

\* Time passes; a record past its expiry is gone.
Tick ==
  /\ now < MaxNow
  /\ \A r \in Requests : pc[r] \in {"reading", "swapping"} => now < armAt[r] + ArmLag
  /\ now' = now + 1
  /\ IF entry # NoEntry /\ expires # Never /\ expires < now + 1
     THEN entry' = NoEntry
     ELSE UNCHANGED entry
  /\ call' = "none"
  /\ UNCHANGED <<expires, pc, holds, task, losses>>

\* Every request and every task is over: nothing is left to happen to the key.
Finished ==
  /\ \A r \in Requests : pc[r] = "done"
  /\ UNCHANGED vars

Step(r) ==
  /\ \/ Check(r)
     \/ Claim(r)
     \/ Arm(r)
     \/ ArmRead(r)
     \/ ArmSwap(r)
     \/ Clear(r)
     \/ Release(r)
  /\ UNCHANGED losses

Loss(r) ==
  /\ losses < MaxLosses
  /\ losses' = losses + 1
  /\ ClaimLost(r) \/ ArmLost(r) \/ SettleLost(r)

Next == (\E r \in Requests : Step(r) \/ Loss(r)) \/ Tick \/ Finished

Spec == Init /\ [][Next]_vars

-----------------------------------------------------------------------------
\* So long as nothing is lost, a probe slot marked taken belongs to a request that
\* is still under way or to an arm task still to write, so some step will free it
\* (valkey.ts, arm: the claim counts as settled before the write that settles it).
NoStrandedProbe ==
  losses = 0 /\ entry # NoEntry /\ entry.probeTaken =>
    \E r \in Requests :
      \/ pc[r] = "attempting" /\ holds[r]
      \/ pc[r] \in {"reading", "swapping"}

\* No arm overwrites another, or a clear: the one it writes counts one more than
\* the record it replaces, so the backoff exponent is exact (valkey.ts, CAS).
NoLostArm ==
  [][\A r \in Requests :
       pc[r] = "swapping" /\ pc'[r] # pc[r] /\ entry' # entry
         => entry'.consecutive = armsInARow(entry) + 1]_vars

\* Whatever is lost, no record outlives its cooldown by more than the grace and
\* an arm's lag, so a stranded slot shuts the provider out for that long at most;
\* but for a record that CLAIM or RELEASE wrote back in its very last instant, which
\* has no expiry left, against the comment that they preserve it (valkey.ts:438, 566).
OutageBounded ==
  entry # NoEntry /\ expires # Never => now <= entry.until + Grace + ArmLag

\* However the commands of every gateway interleave and whatever is lost, what
\* takes effect on the key is a sequence of the interface's calls, each doing
\* what it says and no more: no arm undoes another's count or writes over a
\* clear, no release touches a cooldown, and a record is forgotten only a whole
\* grace after its cooldown (valkey.ts, ValkeyCooldownStore).
Breaker == INSTANCE HalfOpen WITH Lag <- ArmLag, Longest <- maxCapForKey, Keep <- Grace
ImplementsBreaker == Breaker!Spec
=============================================================================
