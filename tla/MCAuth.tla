------------------------------- MODULE MCAuth -------------------------------
(* Auth on a small instance. *)
EXTENDS Auth, TLC

Symmetry == Permutations(Keys) \cup Permutations(Requests) \cup Permutations(Tokens)
            \cup Permutations(Users)
=============================================================================
