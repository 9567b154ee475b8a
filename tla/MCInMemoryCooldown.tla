------------------------- MODULE MCInMemoryCooldown -------------------------
(***************************************************************************)
(* Small instances of InMemoryCooldown for TLC.  A tick is Base; the key   *)
(* starts fresh, just refused, or refused often and about to expire.       *)
(***************************************************************************)
EXTENDS InMemoryCooldown

InitialEntriesDef ==
  {NoEntry,
   [until |-> 1, consecutive |-> 1, probeTaken |-> FALSE],
   [until |-> 0, consecutive |-> 2, probeTaken |-> FALSE]}
=============================================================================
