--------------------------- MODULE MCKeystoneAuth ---------------------------
(* Two requests, the refresh loop and a switch over two scopes. *)
EXTENDS KeystoneAuth, TLC

Symmetry == Permutations(Request)
=============================================================================
