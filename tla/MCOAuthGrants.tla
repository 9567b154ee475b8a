--------------------------- MODULE MCOAuthGrants ----------------------------
(***************************************************************************)
(* OAuthGrants for TLC: one or two grants, two requests at a time.         *)
(***************************************************************************)
EXTENDS OAuthGrants, TLC

Symmetry == Permutations(Requests)
=============================================================================
