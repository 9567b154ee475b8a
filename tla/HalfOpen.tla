------------------------------ MODULE HalfOpen ------------------------------
(***************************************************************************)
(* What the CooldownStore interface promises about one key: a record with  *)
(* a cooldown, a count of refusals in a row and one probe slot, that each  *)
(* call changes in its own way only.  Requests, gateways, tasks and lost   *)
(* commands do not appear: a store implements this when everything they do *)
(* to the key amounts to a sequence of such calls.                         *)
(***************************************************************************)
EXTENDS Integers

CONSTANTS
  NoEntry,   \* the key is absent
  Lag,       \* how long after it was called an arm may take effect
  Longest,   \* the longest cooldown
  Keep       \* how long a record is remembered after its cooldown

VARIABLES
  now,
  entry,
  call       \* the call that took effect last; "none" when none just did

vars == <<now, entry, call>>

Init ==
  /\ entry = NoEntry \/ ~entry.probeTaken
  /\ call = "none"

Calling(c) == call' = c /\ now' = now

\* arm: a fresh cooldown, counting exactly one more than the record it replaces.
\* Whoever was probing the old one no longer holds anything.
Arm ==
  /\ Calling("arm")
  /\ entry' # NoEntry
  /\ ~entry'.probeTaken
  /\ entry'.consecutive = IF entry = NoEntry THEN 1 ELSE entry.consecutive + 1
  /\ now - Lag <= entry'.until
  /\ entry'.until <= now + Longest

\* claim: the single post-expiry probe, and nothing else about the record.
Claim ==
  /\ Calling("claim")
  /\ \/ /\ entry # NoEntry
        /\ entry.until <= now
        /\ ~entry.probeTaken
        /\ entry' = [entry EXCEPT !.probeTaken = TRUE]
     \/ entry' = entry

\* release: the slot handed back, "leaving the cooldown otherwise untouched".
Release ==
  /\ Calling("release")
  /\ \/ /\ entry # NoEntry
        /\ entry.probeTaken
        /\ entry' = [entry EXCEPT !.probeTaken = FALSE]
     \/ entry' = entry

\* clear: a provider that just worked is not cooled.
Clear == Calling("clear") /\ entry' = NoEntry

\* Between calls time passes, and a record is forgotten, its count with it, only
\* when its cooldown has been over for longer than Keep.
Pass ==
  /\ call' = "none"
  /\ now <= now'
  /\ \/ entry' = entry
     \/ entry # NoEntry /\ entry.until + Keep < now' /\ entry' = NoEntry

Next == Arm \/ Claim \/ Release \/ Clear \/ Pass

Spec == Init /\ [][Next]_vars
=============================================================================
