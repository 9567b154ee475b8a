-------------------------- MODULE MCValkeyCooldown --------------------------
(***************************************************************************)
(* Small instances of ValkeyCooldown for TLC.  A tick is Base; the key     *)
(* starts fresh, or refused twice and at the end of its cooldown.          *)
(***************************************************************************)
EXTENDS ValkeyCooldown, TLC

Symmetric == Permutations(Requests)
InitialEntriesDef ==
  {NoEntry, [until |-> 0, consecutive |-> 2, probeTaken |-> FALSE]}
=============================================================================
