-------------------------- MODULE MCMessageWorker --------------------------
(* Three copies: a publish of an event, which the bus may deliver again, a *)
(* second that reuses its identity with another body, and one that does    *)
(* not decode.                                                             *)
EXTENDS MessageWorker, TLC

MCCopies == {"first", "other", "garbled"}
MCEvents == {"e1", "e2"}
MCBodies == {"a", "b"}
MCEventOf == [c \in MCCopies |-> IF c = "garbled" THEN "e2" ELSE "e1"]
MCBodyOf == [c \in MCCopies |-> IF c = "other" THEN "b" ELSE "a"]
MCMalformed == {"garbled"}

=============================================================================
