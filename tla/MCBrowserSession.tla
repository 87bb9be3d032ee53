-------------------------- MODULE MCBrowserSession --------------------------
(* BrowserSession for TLC: the authorised calls of a tab are interchangeable, *)
(* and it makes no difference in which slot the API serves a request.         *)
EXTENDS BrowserSession, TLC

Symmetry == Permutations(Attempts) \cup Permutations(Slots)
=============================================================================
