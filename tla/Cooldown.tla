------------------------------ MODULE Cooldown ------------------------------
(***************************************************************************)
(* The pure half of a cooldown (packages/shared/src/cooldown.ts): what a   *)
(* stored entry says at an instant, and the entry each operation leaves.   *)
(* Times are whole ticks; a jittered draw is the set of the values it can  *)
(* take.                                                                   *)
(***************************************************************************)
EXTENDS Integers

CONSTANTS
  Base,        \* COOLDOWN.BASE_MS: ceiling of the first jittered draw
  Cap,         \* COOLDOWN.CAP_MS: ceiling of a jittered draw
  MaxCap,      \* COOLDOWN.MAX_CAP_MS: ceiling of a failed probe on a block key
  GrowAfter,   \* COOLDOWN.GROW_AFTER: arms in a row before the ceiling grows
  Scope,       \* the key's namespace: "blk", "acct" or "forced"
  NoEntry      \* the key is absent from the store

\* An entry as the store keeps it; reason and detail play no part in routing.
Entry == [until: Int, consecutive: Nat, probeTaken: BOOLEAN]

ASSUME CooldownAssumption ==
  /\ Base \in Nat \ {0}
  /\ Cap \in Nat \ {0}
  /\ MaxCap \in Nat
  /\ Cap <= MaxCap
  /\ GrowAfter \in Nat
  /\ Scope \in {"blk", "acct", "forced"}
  /\ NoEntry \notin Entry

Lesser(a, b) == IF a <= b THEN a ELSE b
Greater(a, b) == IF a >= b THEN a ELSE b

\* Only block keys may back off past Cap.
maxCapForKey == IF Scope = "blk" THEN MaxCap ELSE Cap

probeCeiling(consecutive) ==
  Lesser(MaxCap, Cap * 2 ^ Greater(0, consecutive - GrowAfter))

\* floor(rng * ceiling) for rng in [0, 1): every whole number below the ceiling.
cooldownDraws(consecutive) ==
  0 .. (Lesser(Cap, Base * 2 ^ Greater(0, consecutive)) - 1)

\* What a read of entry e at instant t tells the chain.
decide(e, t) ==
  IF e = NoEntry THEN "open"
  ELSE IF t < e.until \/ e.probeTaken THEN "cooling"
  ELSE "probe"

\* How many times in a row the key has armed; an absent entry counts none.
armsInARow(e) == IF e = NoEntry THEN 0 ELSE e.consecutive

wasProbe(e, t) == e # NoEntry /\ t >= e.until

Armed(e, until) ==
  [until |-> until, consecutive |-> armsInARow(e) + 1, probeTaken |-> FALSE]

\* The entries arm(e, t) may leave: the ceiling exactly after a failed probe,
\* a jittered draw otherwise.
arm(e, t) ==
  IF wasProbe(e, t)
  THEN {Armed(e, t + Lesser(maxCapForKey, probeCeiling(armsInARow(e) + 1)))}
  ELSE {Armed(e, t + d) : d \in cooldownDraws(armsInARow(e))}

\* The entry armFor leaves when the target said how long to wait.
armFor(e, t, retryAfter) ==
  Armed(e, t + Lesser(Cap, Greater(1, retryAfter)))

\* May a caller at instant t take the probe?  An absent entry grants it too,
\* and records nothing.
claimed(e, t) ==
  IF e = NoEntry THEN TRUE ELSE t >= e.until /\ ~e.probeTaken

released_Unwinds(e) ==
  IF e = NoEntry THEN NoEntry
  ELSE [e EXCEPT !.probeTaken = FALSE, !.consecutive = @ - 1]

\* The entry after a granted claim, and after a release.
taken(e) == IF e = NoEntry THEN NoEntry ELSE [e EXCEPT !.probeTaken = TRUE]
released(e) == IF e = NoEntry THEN NoEntry ELSE [e EXCEPT !.probeTaken = FALSE]
=============================================================================
