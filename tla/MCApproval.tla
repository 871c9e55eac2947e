----------------------------- MODULE MCApproval -----------------------------
(* Small instances of Approval for TLC. *)
EXTENDS Approval, TLC

ApprovalSymmetry == Permutations(Users \ Disabled) \cup Permutations(Payloads)

=============================================================================
