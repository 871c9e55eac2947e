----------------------- MODULE TransactionalPublisher -----------------------
(***************************************************************************)
(* PublishTransaction (internal/platform/messaging/transaction.go): a half *)
(* message is sent to the broker, the local transaction runs, and the half *)
(* message is committed or rolled back.  The broker asks the checker about *)
(* a half message that stays unresolved.  The broker and the checker's     *)
(* body are not part of the repository: the broker keeps a half message    *)
(* until it is resolved and ignores what comes after.                      *)
(***************************************************************************)
EXTENDS Naturals, FiniteSets

CONSTANTS Events,        \* one publisher per event
          CheckerWaits,  \* does the checker answer UNKNOWN while it may still commit?
          ErrorIsFinal   \* does an error of the local transaction mean that it is undone?

\* What the proofs need of the constants.
PublisherAssumption == CheckerWaits \in BOOLEAN /\ ErrorIsFinal \in BOOLEAN

VARIABLES
  half,   \* half[e]: none, half, committed (visible to consumers) or dropped
  local,  \* local[e]: none, running, committed or undone
  ppc,    \* ppc[e]: the next step of PublishTransaction
  told    \* told[e]: what the caller was told: none, ok or error

tpVars == <<half, local, ppc, told>>

TpTypeOK ==
  /\ half \in [Events -> {"none", "half", "committed", "dropped"}]
  /\ local \in [Events -> {"none", "running", "committed", "undone"}]
  /\ ppc \in [Events -> {"send", "local", "commit", "rollback", "done"}]
  /\ told \in [Events -> {"none", "ok", "error"}]

TpInit ==
  /\ half = [e \in Events |-> "none"]
  /\ local = [e \in Events |-> "none"]
  /\ ppc = [e \in Events |-> "send"]
  /\ told = [e \in Events |-> "none"]

\* The broker resolves a half message at most once.
Resolve(e, outcome) ==
  half' = [half EXCEPT ![e] = IF @ = "half" THEN outcome ELSE @]

(* SendWithTransaction.  An error, or an empty list of receipts, ends the  *)
(* call although the broker may have kept the half message; in the second  *)
(* case it is rolled back.                                                 *)
SendHalf(e) ==
  /\ ppc[e] = "send"
  /\ \/ /\ half' = [half EXCEPT ![e] = "half"]
        /\ ppc' = [ppc EXCEPT ![e] = "local"]
        /\ local' = [local EXCEPT ![e] = "running"]
        /\ UNCHANGED told
     \/ /\ half' \in {half, [half EXCEPT ![e] = "half"], [half EXCEPT ![e] = "dropped"]}
        /\ ppc' = [ppc EXCEPT ![e] = "done"]
        /\ told' = [told EXCEPT ![e] = "error"]
        /\ UNCHANGED local

(* executeLocalTransaction returns nil, or an error or a panic, which may  *)
(* come although the database has committed.                               *)
LocalSucceeds(e) ==
  /\ ppc[e] = "local"
  /\ local' = [local EXCEPT ![e] = "committed"]
  /\ ppc' = [ppc EXCEPT ![e] = "commit"]
  /\ UNCHANGED <<half, told>>

LocalFails(e) ==
  /\ ppc[e] = "local"
  /\ \/ local' = [local EXCEPT ![e] = "undone"]
     \/ ~ErrorIsFinal /\ local' = [local EXCEPT ![e] = "committed"]
  /\ ppc' = [ppc EXCEPT ![e] = "rollback"]
  /\ UNCHANGED <<half, told>>

\* transaction.Commit or RollBack; the call may be lost, with or without effect.
Finish(e) ==
  /\ ppc[e] \in {"commit", "rollback"}
  /\ LET outcome == IF ppc[e] = "commit" THEN "committed" ELSE "dropped"
     IN  \/ /\ Resolve(e, outcome)
            /\ told' = [told EXCEPT ![e] = IF ppc[e] = "commit" THEN "ok" ELSE "error"]
         \/ (Resolve(e, outcome) \/ UNCHANGED half) /\ told' = [told EXCEPT ![e] = "error"]
  /\ ppc' = [ppc EXCEPT ![e] = "done"]
  /\ UNCHANGED local

\* The process dies; a running local transaction is undone or was committed.
PublisherDies(e) ==
  /\ ppc[e] # "done"
  /\ ppc' = [ppc EXCEPT ![e] = "done"]
  /\ IF local[e] = "running"
     THEN local' \in {[local EXCEPT ![e] = "undone"], [local EXCEPT ![e] = "committed"]}
     ELSE UNCHANGED local
  /\ UNCHANGED <<half, told>>

(* The SDK's checker: an envelope that does not decode, an error or a      *)
(* timeout is UNKNOWN; otherwise it says what the database shows.  What a  *)
(* running transaction has written is not visible yet.                     *)
CheckBack(e) ==
  /\ half[e] = "half"
  /\ \/ local[e] = "committed" /\ Resolve(e, "committed")
     \/ local[e] \in {"none", "undone"} /\ ppc[e] # "send" /\ Resolve(e, "dropped")
     \/ local[e] = "running" /\ ~CheckerWaits /\ Resolve(e, "dropped")
  /\ UNCHANGED <<local, ppc, told>>

TpNext ==
  \E e \in Events :
    SendHalf(e) \/ LocalSucceeds(e) \/ LocalFails(e) \/ Finish(e) \/ PublisherDies(e) \/ CheckBack(e)

TpSpec == TpInit /\ [][TpNext]_tpVars

-----------------------------------------------------------------------------
(* PROPERTIES *)

(* No consumer sees an event whose local transaction has not committed,    *)
(* whatever call is lost and whenever the broker checks back.              *)
VisibleWasCommitted ==
  \A e \in Events : half[e] = "committed" => local[e] = "committed"

(* An event of a committed transaction is not dropped, if an error of the  *)
(* local transaction means that it is undone and the checker does not take *)
(* a transaction that is still running for one that never was.             *)
CommittedNotDropped ==
  ErrorIsFinal /\ CheckerWaits =>
    \A e \in Events : local[e] = "committed" => half[e] \in {"half", "committed"}

\* A caller that is told of success has a committed transaction and a visible event.
OkIsComplete ==
  CheckerWaits =>
    \A e \in Events : told[e] = "ok" => local[e] = "committed" /\ half[e] = "committed"

=============================================================================
