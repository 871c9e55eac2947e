-------------------------- MODULE MCGovernedConfig --------------------------
(* Small instance of GovernedConfig for TLC. *)
EXTENDS GovernedConfig

MCRequests == {"r1", "r2"}
MCPayloads == [action : {"APPROVE", "PUBLISH"}, approval : MCRequests \cup {"none"}]

=============================================================================
