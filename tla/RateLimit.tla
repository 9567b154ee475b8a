----------------------------- MODULE RateLimit -----------------------------
(***************************************************************************)
(* Fixed windows of a rate limiter (apps/gateway/src/rate-limit.ts): one   *)
(* count per key, dropped whole when the window rolls over.                *)
(***************************************************************************)
EXTENDS Integers

CONSTANTS
  Counted,  \* the keys a limiter counts
  Window    \* windowMs

ASSUME WindowAssumption == Window \in Nat \ {0}

windowStart(now) == now - (now % Window)

\* InMemoryRateLimiter: #start and #counts
Counts == [start : Int, counts : [Counted -> Nat]]
NoCounts == [start |-> -1, counts |-> [k \in Counted |-> 0]]

\* The map a take at now counts in: a request of a window already behind
\* counts in the present one.
Rolled(mem, now) ==
  IF windowStart(now) > mem.start THEN [NoCounts EXCEPT !.start = windowStart(now)] ELSE mem

took(mem, key, now) == [Rolled(mem, now) EXCEPT !.counts[key] = @ + 1]

peeked(mem, key, now) == IF windowStart(now) = mem.start THEN mem.counts[key] ELSE 0
=============================================================================
