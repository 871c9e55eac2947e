------------------------------ MODULE MCAccount ------------------------------
(* Small instance of Account for TLC. *)
EXTENDS Account, TLC

\* The first password is told apart by Init.
AccountSymmetry == Permutations(Requests) \cup Permutations(Passwords \ {FirstPassword})

=============================================================================
