------------------------------- MODULE MCAuth -------------------------------
(* Two logins, alike, and requests with their tokens.                      *)
EXTENDS Auth, TLC

Alike == Permutations(Login)
=============================================================================
