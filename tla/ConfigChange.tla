---------------------------- MODULE ConfigChange ----------------------------
(***************************************************************************)
(* Governed configuration changes: the state machine of                    *)
(* internal/platform/configchange, the service that applies it and the     *)
(* repository that stores it.                                              *)
(*                                                                         *)
(* A call of Transition is a database transaction of two statements: ByID  *)
(* reads the change without a lock, Apply decides on that copy, and Update *)
(* writes state and approved_by under WHERE organization_id, id only.  Two *)
(* calls for one change may therefore decide on the same copy.             *)
(***************************************************************************)
EXTENDS Naturals, FiniteSets

CONSTANTS Changes,  \* identities of configuration changes
          Users,    \* the people who create, approve, publish, roll back
          Calls,    \* concurrent calls of Transition
          Nobody

\* What the proofs need of the constants.
ConfigAssumption == Nobody \notin Users

States == {"NONE", "PENDING_APPROVAL", "APPROVED", "PUBLISHED",
           "ROLLBACK_PENDING", "ROLLED_BACK", "REJECTED"}
Actions == {"APPROVE", "PUBLISH", "REQUEST_ROLLBACK", "ROLLBACK", "REJECT"}

Rows == [state : States, createdBy : Users \cup {Nobody}, approvedBy : Users \cup {Nobody}]

NoRow == [state |-> "NONE", createdBy |-> Nobody, approvedBy |-> Nobody]

VARIABLES
  row,        \* row[c]: the stored change
  call,       \* call[t]: what a transaction has decided and not yet written
  publisher,  \* publisher[c]: history, who last published c
  reverter    \* reverter[c]: history, who rolled c back

vars == <<row, call, publisher, reverter>>

IdleCall == [busy |-> FALSE]
BusyCalls == [busy : {TRUE}, change : Changes, action : Actions, actor : Users, next : Rows]

TypeOK ==
  /\ row \in [Changes -> Rows]
  /\ call \in [Calls -> BusyCalls \cup {IdleCall}]
  /\ publisher \in [Changes -> Users \cup {Nobody}]
  /\ reverter \in [Changes -> Users \cup {Nobody}]

Init ==
  /\ row = [c \in Changes |-> NoRow]
  /\ call = [t \in Calls |-> IdleCall]
  /\ publisher = [c \in Changes |-> Nobody]
  /\ reverter = [c \in Changes |-> Nobody]

-----------------------------------------------------------------------------
\* New: a change starts as PENDING_APPROVAL.
New(u) == [state |-> "PENDING_APPROVAL", createdBy |-> u, approvedBy |-> Nobody]

\* The repository's INSERT.
Create(c, u) ==
  /\ row[c] = NoRow
  /\ row' = [row EXCEPT ![c] = New(u)]
  /\ UNCHANGED <<call, publisher, reverter>>

\* Apply: the state an action starts from, and the state it leads to.
Source(action) ==
  CASE action \in {"APPROVE", "REJECT"} -> "PENDING_APPROVAL"
    [] action = "PUBLISH" -> "APPROVED"
    [] action = "REQUEST_ROLLBACK" -> "PUBLISHED"
    [] action = "ROLLBACK" -> "ROLLBACK_PENDING"

Target(action) ==
  CASE action = "APPROVE" -> "APPROVED"
    [] action = "PUBLISH" -> "PUBLISHED"
    [] action = "REQUEST_ROLLBACK" -> "ROLLBACK_PENDING"
    [] action = "ROLLBACK" -> "ROLLED_BACK"
    [] action = "REJECT" -> "REJECTED"

\* Apply: may the actor take the action on the copy that was read?
Permitted(change, action, actor) ==
  CASE action \in {"APPROVE", "REJECT", "ROLLBACK"} -> actor # change.createdBy
    [] action = "PUBLISH" -> actor = change.approvedBy
    [] action = "REQUEST_ROLLBACK" -> TRUE

\* Apply: the change it returns; only APPROVE records the approver.
Applied(change, action, actor) ==
  [change EXCEPT !.state = Target(action),
                 !.approvedBy = IF action = "APPROVE" THEN actor ELSE @]

\* Transition, first half: ByID and Apply.
Read(t, c, action, u) ==
  /\ ~call[t].busy
  /\ row[c].state = Source(action)
  /\ Permitted(row[c], action, u)
  /\ call' = [call EXCEPT ![t] = [busy |-> TRUE, change |-> c, action |-> action,
                                  actor |-> u, next |-> Applied(row[c], action, u)]]
  /\ UNCHANGED <<row, publisher, reverter>>

\* Transition, second half: Update overwrites the row; the transaction commits.
Write(t) ==
  /\ call[t].busy
  /\ LET c == call[t].change
         a == call[t].action
         u == call[t].actor
     IN  /\ row' = [row EXCEPT ![c].state = call[t].next.state,
                               ![c].approvedBy = call[t].next.approvedBy]
         /\ publisher' = [publisher EXCEPT ![c] = IF a = "PUBLISH" THEN u ELSE @]
         /\ reverter' = [reverter EXCEPT ![c] = IF a = "ROLLBACK" THEN u ELSE @]
  /\ call' = [call EXCEPT ![t] = IdleCall]

\* The transaction is rolled back: the audit record or the commit failed.
Rollback(t) ==
  /\ call[t].busy
  /\ call' = [call EXCEPT ![t] = IdleCall]
  /\ UNCHANGED <<row, publisher, reverter>>

Next ==
  \/ \E c \in Changes, u \in Users : Create(c, u)
  \/ \E t \in Calls :
       \/ \E c \in Changes, a \in Actions, u \in Users : Read(t, c, a, u)
       \/ Write(t)
       \/ Rollback(t)

Spec == Init /\ [][Next]_vars

-----------------------------------------------------------------------------
Reviewed == {"APPROVED", "PUBLISHED", "ROLLBACK_PENDING", "ROLLED_BACK"}

(* Nobody's own change gets past review: whatever copies concurrent calls  *)
(* decided on and in whatever order Update overwrote the row, a change     *)
(* that counts as reviewed names an approver who did not create it.        *)
MakerChecker ==
  \A c \in Changes : row[c].state \in Reviewed =>
    row[c].approvedBy \in Users \ {row[c].createdBy}

(* A published change was published by the approver the row records, and   *)
(* a rolled-back one was rolled back by someone other than its creator,    *)
(* even after another call has replaced approved_by in between.            *)
IndependentOperators ==
  \A c \in Changes :
    /\ row[c].state = "PUBLISHED" => publisher[c] = row[c].approvedBy
    /\ row[c].state = "ROLLED_BACK" => reverter[c] \notin {Nobody, row[c].createdBy}

(* The life of a change is the one Apply describes: every step of the      *)
(* stored state starts where Apply allows the action to start.             *)
LegalSteps ==
  {<<"NONE", "PENDING_APPROVAL">>, <<"PENDING_APPROVAL", "APPROVED">>,
   <<"PENDING_APPROVAL", "REJECTED">>, <<"APPROVED", "PUBLISHED">>,
   <<"PUBLISHED", "ROLLBACK_PENDING">>, <<"ROLLBACK_PENDING", "ROLLED_BACK">>}

FollowsLifecycle ==
  [][\A c \in Changes :
       row'[c].state # row[c].state => <<row[c].state, row'[c].state>> \in LegalSteps]_vars

=============================================================================
