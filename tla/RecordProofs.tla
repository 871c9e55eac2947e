---------------------------- MODULE RecordProofs ----------------------------
(***************************************************************************)
(* Records that several calls read, decide on and write back: the changes   *)
(* of the configuration, the releases, the idempotency keys and the objects *)
(* in quarantine.  In each, a call may write what it decided from a state   *)
(* that others have changed since, so each invariant speaks of the calls in *)
(* flight as well as of the stored record.                                 *)
(***************************************************************************)
EXTENDS ConfigChange, ReleaseControl, Idempotency, Quarantine, FiniteSetTheorems, TLAPS

-----------------------------------------------------------------------------
(***************************************************************************)
(* Segregation of duties in configuration changes, for every number of     *)
(* changes, people and concurrent calls.  Update writes whatever its call  *)
(* decided earlier, so the invariant has to say of every pending decision  *)
(* that it is sound by itself: it may be written over any row, because all *)
(* it relies on is the creator, which no call changes.                     *)
(***************************************************************************)

\* A change that exists has a creator.
CreatorInv ==
  \A c \in Changes : row[c].state # "NONE" => row[c].createdBy \in Users

\* A decision d, made and not yet written, about a change that maker created.
SoundDecision(d, maker) ==
  /\ maker \in Users
  /\ d.next.state = Target(d.action)
  /\ d.next.state \in Reviewed => d.next.approvedBy \in Users \ {maker}
  /\ d.action = "PUBLISH" => d.actor = d.next.approvedBy
  /\ d.action = "ROLLBACK" => d.actor # maker

DecisionInv ==
  \A t \in Calls : call[t].busy => SoundDecision(call[t], row[call[t].change].createdBy)

IInv == TypeOK /\ CreatorInv /\ DecisionInv /\ MakerChecker /\ IndependentOperators

-----------------------------------------------------------------------------
\* Every action of Apply leads from an existing change to another known state.
LEMMA StateFacts ==
  \A a \in Actions :
    /\ Source(a) \in States \ {"NONE"}
    /\ Target(a) \in States \ {"NONE"}
    /\ Target(a) = "PUBLISHED" => a = "PUBLISH"
    /\ Target(a) = "ROLLED_BACK" => a = "ROLLBACK"
    /\ Target(a) \in Reviewed /\ a # "APPROVE" => Source(a) \in Reviewed
BY DEF Actions, States, Source, Target, Reviewed

\* The copy that Apply returns keeps the creator and is a row of the table.
LEMMA AppliedFacts ==
  ASSUME NEW change \in Rows, NEW a \in Actions, NEW u \in Users
  PROVE  LET new == Applied(change, a, u)
         IN  /\ new \in Rows
             /\ new.state = Target(a)
             /\ new.approvedBy = IF a = "APPROVE" THEN u ELSE change.approvedBy
<1>1. Target(a) \in States
  BY StateFacts
<1> QED
  BY <1>1 DEF Rows, Applied

\* A call that is not idle carries a decision.
LEMMA BusyFacts ==
  ASSUME TypeOK, NEW t \in Calls, call[t].busy
  PROVE  /\ call[t] \in BusyCalls
         /\ call[t].change \in Changes /\ call[t].action \in Actions
         /\ call[t].actor \in Users /\ call[t].next \in Rows
<1>1. call[t] \in BusyCalls \cup {IdleCall}
  BY DEF TypeOK
<1>2. call[t] # IdleCall
  BY DEF IdleCall
<1> QED
  BY <1>1, <1>2 DEF BusyCalls

\* The invariant holds before any change is created.
LEMMA InitInv == Init => IInv
<1> SUFFICES ASSUME Init PROVE IInv
  OBVIOUS
<1>1. NoRow \in Rows
  BY DEF NoRow, Rows, States
<1>2. TypeOK
  BY <1>1 DEF Init, TypeOK
<1>3. CreatorInv /\ MakerChecker /\ IndependentOperators
  BY DEF Init, CreatorInv, MakerChecker, IndependentOperators, NoRow, Reviewed
<1>4. DecisionInv
  BY DEF Init, DecisionInv, IdleCall
<1> QED
  BY <1>2, <1>3, <1>4 DEF IInv

-----------------------------------------------------------------------------
\* Create starts a change that no pending decision is about.
LEMMA CreateStep ==
  ASSUME ConfigAssumption, IInv, NEW c \in Changes, NEW u \in Users, Create(c, u)
  PROVE  IInv'
<1> USE DEF IInv
<1>1. New(u) \in Rows /\ New(u).state = "PENDING_APPROVAL" /\ New(u).createdBy = u
  BY DEF New, Rows, States
<1>2. row' = [row EXCEPT ![c] = New(u)] /\ row \in [Changes -> Rows]
  BY DEF Create, TypeOK
<1>3. TypeOK'
  BY <1>1, <1>2 DEF TypeOK, Create
<1>4. CreatorInv' /\ MakerChecker'
  BY <1>1, <1>2 DEF CreatorInv, MakerChecker, Reviewed
<1>5. IndependentOperators'
  BY <1>1, <1>2 DEF IndependentOperators, Create
<1>6. DecisionInv'
  <2> SUFFICES ASSUME NEW t \in Calls, call[t].busy 
               PROVE  SoundDecision(call[t], row'[call[t].change].createdBy)
    BY DEF DecisionInv, Create
  <2>1. SoundDecision(call[t], row[call[t].change].createdBy) /\ call[t].change \in Changes
    BY BusyFacts DEF DecisionInv
  <2>2. row[c].createdBy = Nobody
    BY DEF Create, NoRow
  <2>3. call[t].change # c
    BY <2>1, <2>2 DEF SoundDecision, ConfigAssumption
  <2>4. row'[call[t].change] = row[call[t].change]
    BY <1>2, <2>1, <2>3
  <2> QED
    BY <2>1, <2>4
<1> QED
  BY <1>3, <1>4, <1>5, <1>6

\* Read decides on the row as it is: MakerChecker makes the decision sound.
LEMMA ReadStep ==
  ASSUME IInv, NEW t \in Calls, NEW c \in Changes, NEW a \in Actions, NEW u \in Users,
         Read(t, c, a, u)
  PROVE  IInv'
<1> USE DEF IInv
<1> DEFINE new == Applied(row[c], a, u)
           d == [busy |-> TRUE, change |-> c, action |-> a, actor |-> u, next |-> new]
<1>1. row[c] \in Rows /\ row[c].state = Source(a) /\ Permitted(row[c], a, u)
  BY DEF TypeOK, Read
<1>2. /\ new \in Rows /\ new.state = Target(a)
      /\ new.approvedBy = IF a = "APPROVE" THEN u ELSE row[c].approvedBy
  BY <1>1, AppliedFacts
<1>3. d \in BusyCalls
  BY <1>2 DEF BusyCalls
<1>4. call' = [call EXCEPT ![t] = d] /\ UNCHANGED <<row, publisher, reverter>>
  BY DEF Read
<1>5. TypeOK'
  BY <1>3, <1>4 DEF TypeOK
<1>6. (CreatorInv /\ MakerChecker /\ IndependentOperators)'
  BY <1>4 DEF CreatorInv, MakerChecker, IndependentOperators
<1>7. SoundDecision(d, row[c].createdBy)
  <2>1. row[c].createdBy \in Users
    BY <1>1, StateFacts DEF CreatorInv
  <2>2. a = "APPROVE" => u # row[c].createdBy
    BY <1>1 DEF Permitted
  <2>3. a # "APPROVE" /\ Target(a) \in Reviewed => row[c].approvedBy \in Users \ {row[c].createdBy}
    BY <1>1, StateFacts DEF MakerChecker
  <2>4. a = "PUBLISH" => u = row[c].approvedBy
    BY <1>1 DEF Permitted
  <2>5. a = "ROLLBACK" => u # row[c].createdBy
    BY <1>1 DEF Permitted
  <2> HIDE DEF new
  <2> QED
    BY <1>2, <2>1, <2>2, <2>3, <2>4, <2>5 DEF SoundDecision
<1>8. DecisionInv'
  <2> SUFFICES ASSUME NEW s \in Calls, call'[s].busy 
               PROVE  SoundDecision(call'[s], row'[call'[s].change].createdBy)
    BY DEF DecisionInv
  <2>1. d.change = c
    OBVIOUS
  <2> HIDE DEF d
  <2>2. call'[s] = d \/ (call'[s] = call[s] /\ call[s].busy)
    BY <1>4 DEF TypeOK
  <2> QED
    BY <2>1, <2>2, <1>4, <1>7 DEF DecisionInv
<1> QED
  BY <1>5, <1>6, <1>8

\* Write replaces the row by a sound decision and leaves the creator alone.
LEMMA WriteStep ==
  ASSUME ConfigAssumption, IInv, NEW t \in Calls, Write(t)
  PROVE  IInv'
<1> USE DEF IInv
<1> DEFINE d == call[t]
           c == d.change
<1>1. d \in BusyCalls /\ c \in Changes /\ d.action \in Actions /\ d.actor \in Users /\ d.next \in Rows
  BY BusyFacts DEF Write
<1>2. SoundDecision(d, row[c].createdBy)
  BY DEF DecisionInv, Write
<1>3. d.next.state \in States \ {"NONE"} /\ d.next.approvedBy \in Users \cup {Nobody}
  BY <1>1, <1>2, StateFacts DEF SoundDecision, Rows
<1>4. /\ row' = [row EXCEPT ![c].state = d.next.state, ![c].approvedBy = d.next.approvedBy]
      /\ publisher' = [publisher EXCEPT ![c] = IF d.action = "PUBLISH" THEN d.actor ELSE @]
      /\ reverter' = [reverter EXCEPT ![c] = IF d.action = "ROLLBACK" THEN d.actor ELSE @]
      /\ call' = [call EXCEPT ![t] = IdleCall]
  BY DEF Write
<1> HIDE DEF d, c
<1>5. /\ row \in [Changes -> Rows] /\ row[c] \in Rows
      /\ row'[c] = [row[c] EXCEPT !.state = d.next.state, !.approvedBy = d.next.approvedBy]
      /\ \A k \in Changes \ {c} : row'[k] = row[k]
      /\ DOMAIN row' = Changes
  BY <1>1, <1>4 DEF TypeOK
<1>6. /\ row'[c] \in Rows /\ row'[c].state = d.next.state
      /\ row'[c].approvedBy = d.next.approvedBy /\ row'[c].createdBy = row[c].createdBy
  BY <1>3, <1>5 DEF Rows
<1>7. \A k \in Changes : row'[k].createdBy = row[k].createdBy
  BY <1>5, <1>6
<1>8. TypeOK'
  <2>1. row' \in [Changes -> Rows]
    BY <1>1, <1>4, <1>5, <1>6
  <2>2. call' \in [Calls -> BusyCalls \cup {IdleCall}]
    BY <1>4 DEF TypeOK
  <2>3. publisher' \in [Changes -> Users \cup {Nobody}] /\ reverter' \in [Changes -> Users \cup {Nobody}]
    BY <1>1, <1>4 DEF TypeOK
  <2> QED
    BY <2>1, <2>2, <2>3 DEF TypeOK
<1>9. row[c].createdBy \in Users
  BY <1>2 DEF SoundDecision
<1>10. CreatorInv'
  BY <1>5, <1>7, <1>9 DEF CreatorInv
<1>11. MakerChecker'
  <2>1. d.next.state \in Reviewed => d.next.approvedBy \in Users \ {row[c].createdBy}
    BY <1>2 DEF SoundDecision
  <2> QED
    BY <1>5, <1>6, <2>1 DEF MakerChecker
<1>12. IndependentOperators'
  <2> SUFFICES ASSUME NEW k \in Changes
               PROVE  /\ row'[k].state = "PUBLISHED" => publisher'[k] = row'[k].approvedBy
                      /\ row'[k].state = "ROLLED_BACK" => reverter'[k] \notin {Nobody, row'[k].createdBy}
    BY DEF IndependentOperators
  <2>1. CASE k # c
    BY <2>1, <1>4, <1>5 DEF IndependentOperators, TypeOK
  <2>2. CASE k = c
    <3>1. d.next.state = Target(d.action)
      BY <1>2 DEF SoundDecision
    <3>2. d.next.state = "PUBLISHED" => d.action = "PUBLISH" /\ d.actor = d.next.approvedBy
      BY <1>1, <1>2, <3>1, StateFacts DEF SoundDecision
    <3>3. d.next.state = "ROLLED_BACK" => d.action = "ROLLBACK" /\ d.actor \notin {Nobody, row[c].createdBy}
      BY <1>1, <1>2, <3>1, StateFacts DEF SoundDecision, ConfigAssumption
    <3>4. /\ d.action = "PUBLISH" => publisher'[c] = d.actor
          /\ d.action = "ROLLBACK" => reverter'[c] = d.actor
      BY <1>1, <1>4 DEF TypeOK
    <3> QED
      BY <2>2, <3>2, <3>3, <3>4, <1>6
  <2> QED
    BY <2>1, <2>2
<1>13. DecisionInv'
  <2> SUFFICES ASSUME NEW s \in Calls, call'[s].busy 
               PROVE  SoundDecision(call'[s], row'[call'[s].change].createdBy)
    BY DEF DecisionInv
  <2>1. s # t /\ call'[s] = call[s]
    BY <1>4 DEF TypeOK, IdleCall
  <2>2. SoundDecision(call[s], row[call[s].change].createdBy) /\ call[s].change \in Changes
    BY <2>1, BusyFacts DEF DecisionInv
  <2>3. row'[call[s].change].createdBy = row[call[s].change].createdBy
    BY <2>2, <1>7
  <2> QED
    BY <2>1, <2>2, <2>3
<1> QED
  BY <1>8, <1>10, <1>11, <1>12, <1>13

\* Rolling a transaction back only forgets its decision.
LEMMA RollbackStep ==
  ASSUME IInv, NEW t \in Calls, Rollback(t)
  PROVE  IInv'
<1> USE DEF IInv
<1>1. call' = [call EXCEPT ![t] = IdleCall] /\ UNCHANGED <<row, publisher, reverter>>
  BY DEF Rollback
<1>2. TypeOK'
  BY <1>1 DEF TypeOK
<1>3. (CreatorInv /\ MakerChecker /\ IndependentOperators)'
  BY <1>1 DEF CreatorInv, MakerChecker, IndependentOperators
<1>4. DecisionInv'
  BY <1>1 DEF DecisionInv, TypeOK, IdleCall
<1> QED
  BY <1>2, <1>3, <1>4

-----------------------------------------------------------------------------
\* The inductive invariant holds of every reachable state.
THEOREM Invariance == ASSUME ConfigAssumption PROVE Spec => []IInv
<1>1. IInv /\ [Next]_vars => IInv'
  <2> SUFFICES ASSUME IInv, [Next]_vars PROVE IInv'
    OBVIOUS
  <2>1. CASE UNCHANGED vars
    BY <2>1 DEF vars, IInv, TypeOK, CreatorInv, DecisionInv, MakerChecker, IndependentOperators
  <2>2. CASE Next
    BY <2>2, CreateStep, ReadStep, WriteStep, RollbackStep DEF Next
  <2> QED
    BY <2>1, <2>2
<1> QED
  BY InitInv, <1>1, PTL DEF Spec

(* Types: every row and every pending decision of Transition is well       *)
(* formed, whatever calls overlap.                                         *)
THEOREM TypeCorrect == ASSUME ConfigAssumption PROVE Spec => []TypeOK
<1>1. IInv => TypeOK
  BY DEF IInv
<1> QED
  BY Invariance, <1>1, PTL

(* Maker-checker: although Update has no condition on the state that was   *)
(* read, no change counts as reviewed with its creator as approver.        *)
THEOREM SegregationOfDuties == ASSUME ConfigAssumption PROVE Spec => []MakerChecker
<1>1. IInv => MakerChecker
  BY DEF IInv
<1> QED
  BY Invariance, <1>1, PTL

(* Operators: whoever published is the recorded approver, and whoever      *)
(* rolled back is not the creator, in every state.                         *)
THEOREM Operators == ASSUME ConfigAssumption PROVE Spec => []IndependentOperators
<1>1. IInv => IndependentOperators
  BY DEF IInv
<1> QED
  BY Invariance, <1>1, PTL

-----------------------------------------------------------------------------
(***************************************************************************)
(* Quorum of releases and rollbacks, for every number of people, of        *)
(* required approvals and of overlapping calls.  A call may write a record *)
(* it has read long ago over a record that others have changed since, as   *)
(* long as the state is the same again, so the invariant describes every   *)
(* record that a call is about to write as well as the stored one.         *)
(***************************************************************************)

\* The votes that will be counted once call t has been written.
Votes(t) == approved \cup (IF rcCall[t].from = "PendingApproval" THEN {rcCall[t].actor} ELSE {})
RollbackVotes(t) == rolledback \cup (IF rcCall[t].from = "RollbackRequested" THEN {rcCall[t].actor} ELSE {})

\* A record with at most these votes, none of them the requester's, and enough of them.
Sound(rec, votes, rollbackVotes) ==
  /\ rec.approvers \subseteq votes \ {rec.requestedBy}
  /\ rec.rollbackApprovers \subseteq rollbackVotes \ {rec.requestedBy}
  /\ rec.state \in Admitted => Cardinality(rec.approvers) >= Required
  /\ rec.state \in RollbackAdmitted => Cardinality(rec.rollbackApprovers) >= Required

RecordInv ==
  /\ Sound(release, approved, rolledback)
  /\ release.state = "NONE" => release.approvers = {} /\ release.rollbackApprovers = {}

CallInv ==
  \A t \in RcCalls : rcCall[t].busy =>
    /\ release.state # "NONE"
    /\ rcCall[t].from \notin {"NONE", "Failed", "RolledBack"}
    /\ rcCall[t].next.state # "NONE"
    /\ rcCall[t].next.requestedBy = release.requestedBy
    /\ Sound(rcCall[t].next, Votes(t), RollbackVotes(t))
    /\ rcCall[t].from \in Admitted =>
         release.state \in Admitted /\ rcCall[t].next.state \in Admitted /\ rcCall[t].next.approvers = release.approvers

RcInv == RcTypeOK /\ RecordInv /\ CallInv

\* A busy call carries a record of its own.
LEMMA RcBusyFacts ==
  ASSUME RcTypeOK, NEW t \in RcCalls, rcCall[t].busy
  PROVE  rcCall[t] \in RcBusyCalls
  BY DEF RcTypeOK, RcIdle

LEMMA RcInitInv == ASSUME RcInit PROVE RcInv
  BY DEF RcInit, RcInv, RcTypeOK, RecordInv, CallInv, Sound, ReleaseRecords, ReleaseStates, RcIdle, Admitted, RollbackAdmitted

-----------------------------------------------------------------------------
\* What a call may prepare: a sound next record along a step of the life cycle.
Preparable(u, next) ==
  /\ next \in ReleaseRecords
  /\ release.state \notin {"NONE", "Failed", "RolledBack"}
  /\ next.state # "NONE"
  /\ next.requestedBy = release.requestedBy
  /\ Sound(next, approved \cup (IF release.state = "PendingApproval" THEN {u} ELSE {}),
                 rolledback \cup (IF release.state = "RollbackRequested" THEN {u} ELSE {}))
  /\ release.state \in Admitted => next.state \in Admitted /\ next.approvers = release.approvers

LEMMA PrepareInv ==
  ASSUME RcInv, NEW t \in RcCalls, NEW u \in People, NEW next, Prepare(t, u, next), Preparable(u, next)
  PROVE  RcInv'
<1> DEFINE b == [busy |-> TRUE, actor |-> u, from |-> release.state, next |-> next]
<1>1. /\ rcCall' = [rcCall EXCEPT ![t] = b]
      /\ UNCHANGED <<release, inWindow, approved, rolledback>>
  BY DEF Prepare
<1>2. b \in RcBusyCalls /\ b.busy /\ b.actor = u /\ b.from = release.state /\ b.next = next
  BY DEF RcInv, RcTypeOK, RcBusyCalls, Preparable, ReleaseRecords
<1>3. RcTypeOK'
  BY <1>1, <1>2 DEF RcInv, RcTypeOK
<1>4. RecordInv'
  BY <1>1 DEF RcInv, RecordInv, Sound
<1>5. CallInv'
  <2> SUFFICES ASSUME NEW s \in RcCalls, rcCall'[s].busy
               PROVE  /\ release.state # "NONE"
                      /\ rcCall'[s].from \notin {"NONE", "Failed", "RolledBack"}
                      /\ rcCall'[s].next.state # "NONE"
                      /\ rcCall'[s].next.requestedBy = release.requestedBy
                      /\ Sound(rcCall'[s].next, Votes(s)', RollbackVotes(s)')
                      /\ rcCall'[s].from \in Admitted =>
                           /\ release.state \in Admitted
                           /\ rcCall'[s].next.state \in Admitted
                           /\ rcCall'[s].next.approvers = release.approvers
    BY <1>1 DEF CallInv, Sound
  <2>1. CASE s = t
    <3>1. rcCall'[s] = b
      BY <1>1, <2>1 DEF RcInv, RcTypeOK
    <3>2. /\ Votes(s)' = approved \cup (IF release.state = "PendingApproval" THEN {u} ELSE {})
          /\ RollbackVotes(s)' = rolledback \cup (IF release.state = "RollbackRequested" THEN {u} ELSE {})
      BY <1>1, <1>2, <3>1 DEF Votes, RollbackVotes
    <3> HIDE DEF b
    <3> QED BY <1>2, <3>1, <3>2 DEF Preparable
  <2>2. CASE s # t
    <3>1. rcCall'[s] = rcCall[s]
      BY <1>1, <2>2 DEF RcInv, RcTypeOK
    <3>2. Votes(s)' = Votes(s) /\ RollbackVotes(s)' = RollbackVotes(s)
      BY <1>1, <3>1 DEF Votes, RollbackVotes
    <3> QED BY <3>1, <3>2 DEF RcInv, CallInv
  <2> QED BY <2>1, <2>2
<1> QED BY <1>3, <1>4, <1>5 DEF RcInv

\* The calls of the Controller prepare nothing else.
LEMMA ApproveInv == ASSUME RcInv, NEW t \in RcCalls, NEW u \in People, Approve(t, u) PROVE RcInv'
<1> DEFINE all == release.approvers \cup {u}
           next == [release EXCEPT !.approvers = all,
                                  !.state = IF Enough(all) THEN "Approved" ELSE "PendingApproval"]
<1>1. /\ Prepare(t, u, next)
      /\ release.state = "PendingApproval" /\ u # release.requestedBy
  BY DEF Approve, MayApprove
<1>2. next \in ReleaseRecords
  BY DEF RcInv, RcTypeOK, ReleaseRecords, ReleaseStates
<1>3. Preparable(u, next)
  BY <1>1, <1>2 DEF Preparable, Sound, RcInv, RecordInv, RcTypeOK, ReleaseRecords, Enough, Admitted, RollbackAdmitted
<1> QED BY <1>1, <1>3, PrepareInv

LEMMA ApproveRollbackInv == ASSUME RcInv, NEW t \in RcCalls, NEW u \in People, ApproveRollback(t, u) PROVE RcInv'
<1> DEFINE all == release.rollbackApprovers \cup {u}
           next == [release EXCEPT !.rollbackApprovers = all,
                                  !.state = IF Enough(all) THEN "RollbackApproved" ELSE "RollbackRequested"]
<1>1. /\ Prepare(t, u, next)
      /\ release.state = "RollbackRequested" /\ u # release.requestedBy
  BY DEF ApproveRollback, MayApprove
<1>2. next \in ReleaseRecords
  BY DEF RcInv, RcTypeOK, ReleaseRecords, ReleaseStates
<1>3. Preparable(u, next)
  BY <1>1, <1>2 DEF Preparable, Sound, RcInv, RecordInv, RcTypeOK, ReleaseRecords, Enough, Admitted, RollbackAdmitted
<1> QED BY <1>1, <1>3, PrepareInv

LEMMA OtherCallsInv ==
  ASSUME RcInv, NEW t \in RcCalls, NEW u \in People,
         Start(t, u) \/ RequestRollback(t, u) \/ \E step \in SimpleSteps : Advance(t, u, step)
  PROVE  RcInv'
<1>1. CASE Start(t, u)
  <2> DEFINE next == [release EXCEPT !.state = "Executing"]
  <2>1. Prepare(t, u, next) /\ release.state = "Approved" /\ next \in ReleaseRecords
    BY <1>1 DEF Start, RcInv, RcTypeOK, ReleaseRecords, ReleaseStates
  <2>2. Preparable(u, next)
    BY <2>1 DEF Preparable, Sound, RcInv, RecordInv, RcTypeOK, ReleaseRecords, Admitted, RollbackAdmitted
  <2> QED BY <2>1, <2>2, PrepareInv
<1>2. CASE RequestRollback(t, u)
  <2> DEFINE next == [release EXCEPT !.state = "RollbackRequested", !.rollbackApprovers = {}]
  <2>1. Prepare(t, u, next) /\ release.state = "Succeeded" /\ next \in ReleaseRecords
    BY <1>2 DEF RequestRollback, RcInv, RcTypeOK, ReleaseRecords, ReleaseStates
  <2>2. Preparable(u, next)
    BY <2>1 DEF Preparable, Sound, RcInv, RecordInv, RcTypeOK, ReleaseRecords, Admitted, RollbackAdmitted
  <2> QED BY <2>1, <2>2, PrepareInv
<1>3. ASSUME NEW step \in SimpleSteps, Advance(t, u, step) PROVE RcInv'
  <2> DEFINE next == [release EXCEPT !.state = step[2]]
  <2>1. Prepare(t, u, next) /\ release.state = step[1]
    BY <1>3 DEF Advance
  <2>2. /\ step[1] \in ReleaseStates \ {"NONE", "Failed", "RolledBack", "PendingApproval", "RollbackRequested"}
        /\ step[2] \in ReleaseStates \ {"NONE"}
        /\ step[1] \in Admitted <=> step[2] \in Admitted
        /\ step[1] \in RollbackAdmitted <=> step[2] \in RollbackAdmitted
    BY DEF SimpleSteps, ReleaseStates, Admitted, RollbackAdmitted
  <2>3. /\ next \in ReleaseRecords /\ next.state = step[2] /\ next.approvers = release.approvers
        /\ next.requestedBy = release.requestedBy /\ next.rollbackApprovers = release.rollbackApprovers
    BY <2>2 DEF RcInv, RcTypeOK, ReleaseRecords
  <2>4. Preparable(u, next)
    <3> HIDE DEF next
    <3> QED BY <2>1, <2>2, <2>3 DEF Preparable, Sound, RcInv, RecordInv
  <2> QED BY <2>1, <2>4, PrepareInv
<1> QED BY <1>1, <1>2, <1>3

-----------------------------------------------------------------------------
LEMMA TransitionInv == ASSUME RcInv, NEW t \in RcCalls, Transition(t) PROVE RcInv'
<1>1. /\ rcCall[t] \in RcBusyCalls /\ rcCall[t].busy
      /\ release.state = rcCall[t].from
      /\ release' = rcCall[t].next
      /\ approved' = Votes(t) /\ rolledback' = RollbackVotes(t)
      /\ rcCall' = [rcCall EXCEPT ![t] = RcIdle] /\ inWindow' = inWindow
  BY RcBusyFacts DEF RcInv, Transition, UnchangedSince, Votes, RollbackVotes
<1>2. RcTypeOK'
  BY <1>1 DEF RcInv, RcTypeOK, RcBusyCalls, Votes, RollbackVotes
<1>3. RecordInv'
  BY <1>1 DEF RcInv, RecordInv, CallInv, Sound
<1>4. CallInv'
  <2> SUFFICES ASSUME NEW s \in RcCalls, rcCall'[s].busy
               PROVE  /\ release'.state # "NONE"
                      /\ rcCall'[s].from \notin {"NONE", "Failed", "RolledBack"}
                      /\ rcCall'[s].next.state # "NONE"
                      /\ rcCall'[s].next.requestedBy = release'.requestedBy
                      /\ Sound(rcCall'[s].next, Votes(s)', RollbackVotes(s)')
                      /\ rcCall'[s].from \in Admitted =>
                           /\ release'.state \in Admitted
                           /\ rcCall'[s].next.state \in Admitted
                           /\ rcCall'[s].next.approvers = release'.approvers
    BY DEF CallInv, Sound
  <2>1. s # t /\ rcCall'[s] = rcCall[s] /\ rcCall[s].busy
    BY <1>1 DEF RcInv, RcTypeOK, RcIdle
  <2>2. Votes(s) \subseteq Votes(s)' /\ RollbackVotes(s) \subseteq RollbackVotes(s)'
    BY <1>1, <2>1 DEF Votes, RollbackVotes
  <2>3. Sound(rcCall'[s].next, Votes(s)', RollbackVotes(s)')
    BY <2>1, <2>2 DEF RcInv, CallInv, Sound
  <2> QED BY <1>1, <2>1, <2>3 DEF RcInv, CallInv
<1> QED BY <1>2, <1>3, <1>4 DEF RcInv

LEMMA RcStepInv == ASSUME RcInv, [RcNext]_rcVars PROVE RcInv'
<1>1. ASSUME NEW u \in People, CreateRelease(u) PROVE RcInv'
  <2>1. /\ release.state = "NONE" /\ UNCHANGED <<rcCall, inWindow, approved, rolledback>>
        /\ release' = [release EXCEPT !.state = "Draft", !.requestedBy = u]
    BY <1>1 DEF CreateRelease
  <2>2. \A t \in RcCalls : ~rcCall[t].busy
    BY <2>1 DEF RcInv, CallInv
  <2>3. release.approvers = {} /\ release.rollbackApprovers = {}
    BY <2>1 DEF RcInv, RecordInv
  <2> QED BY <2>1, <2>2, <2>3 DEF RcInv, RcTypeOK, RecordInv, CallInv, Sound, ReleaseRecords, ReleaseStates, Admitted, RollbackAdmitted
<1>2. ASSUME NEW t \in RcCalls, TransitionError(t) PROVE RcInv'
  <2>1. /\ rcCall' = [rcCall EXCEPT ![t] = RcIdle]
        /\ UNCHANGED <<release, inWindow, approved, rolledback>>
    BY <1>2 DEF TransitionError
  <2>2. \A s \in RcCalls : rcCall'[s].busy => rcCall'[s] = rcCall[s] /\ rcCall[s].busy
    BY <2>1 DEF RcInv, RcTypeOK, RcIdle
  <2> QED BY <2>1, <2>2 DEF RcInv, RcTypeOK, RecordInv, CallInv, Sound, Votes, RollbackVotes
<1>3. CASE Window \/ UNCHANGED rcVars
  <2>1. UNCHANGED <<release, rcCall, approved, rolledback>> /\ inWindow' \in BOOLEAN
    BY <1>3 DEF Window, rcVars, RcInv, RcTypeOK
  <2> QED BY <2>1 DEF RcInv, RcTypeOK, RecordInv, CallInv, Sound, Votes, RollbackVotes
<1> QED
  BY <1>1, <1>2, <1>3, ApproveInv, ApproveRollbackInv, OtherCallsInv, TransitionInv DEF RcNext

-----------------------------------------------------------------------------
(* Every stored record, and every record a call of the Controller is about *)
(* to write over it, carries only real approvals and enough of them.       *)
THEOREM ReleaseInvariance == RcSpec => []RcInv
  BY RcInitInv, RcStepInv, PTL DEF RcSpec

(* Approve: an admitted release has its quorum of people who approved it,  *)
(* none of them its requester, although approvals overwrite each other.    *)
THEOREM AdmissionQuorum == RcSpec => []AdmittedByQuorum
<1>1. RcInv => AdmittedByQuorum
  BY DEF RcInv, RecordInv, Sound, AdmittedByQuorum
<1> QED BY <1>1, ReleaseInvariance, PTL

(* ApproveRollback: the same of a rollback.                                *)
THEOREM RollbackQuorum == RcSpec => []RollbackByQuorum
<1>1. RcInv => RollbackByQuorum
  BY DEF RcInv, RecordInv, Sound, RollbackByQuorum
<1> QED BY <1>1, ReleaseInvariance, PTL

(* Transition: a call that has read the record earlier never takes an      *)
(* admitted release back into review, nor changes who admitted it, and     *)
(* never touches a finished one.                                           *)
THEOREM OutcomeFinal == RcSpec => NoReturnToReview
<1> DEFINE Final ==
      /\ release.state \in Admitted => release'.state \in Admitted /\ release'.approvers = release.approvers
      /\ release.state \in {"Failed", "RolledBack"} => release' = release
<1>1. ASSUME RcInv, [RcNext]_rcVars PROVE [Final]_rcVars
  <2>1. CASE release' = release
    BY <2>1
  <2>2. ASSUME NEW u \in People, CreateRelease(u) PROVE Final
    BY <2>2 DEF CreateRelease, Admitted
  <2>3. ASSUME NEW t \in RcCalls, Transition(t) PROVE Final
    BY <1>1, <2>3 DEF Transition, UnchangedSince, RcInv, CallInv
  <2>4. CASE RcNext
    <3>1. release' = release \/ (\E u \in People : CreateRelease(u)) \/ (\E t \in RcCalls : Transition(t))
      BY <2>4 DEF RcNext, Approve, ApproveRollback, Start, RequestRollback, Advance, Prepare, TransitionError, Window
    <3> QED BY <3>1, <2>1, <2>2, <2>3
  <2> QED BY <1>1, <2>4
<1> QED BY <1>1, ReleaseInvariance, PTL DEF RcSpec, NoReturnToReview

-----------------------------------------------------------------------------
(***************************************************************************)
(* Proofs about Idempotency, for any number of calls and requests.         *)
(***************************************************************************)

Starting(c) == idemPc[c] \in {"insert", "select", "delete"}

\* What Begin is about to delete has expired.
DeleteInv == \A c \in IdemCalls : idemPc[c] = "delete" => seen[c].id \in lapsed

\* A call that is still in Begin has no answer yet.
UnansweredInv == \A c \in IdemCalls : Starting(c) => result[c] = NoResult

\* The record of the key is that of the call that created it, and carries its request and response.
RowInv ==
  keyRow # NoKey =>
    /\ keyRow.hash = reqHash[keyRow.id]
    /\ result[keyRow.id].kind = "created"
    /\ keyRow.state = "COMPLETED" => keyRow.response = keyRow.id

(* The inductive invariant.                                                *)
IdemInv ==
  /\ IdemTypeOK
  /\ DeleteInv
  /\ UnansweredInv
  /\ RowInv
  /\ LiveReservationKept
  /\ ReplaysSameRequest

LEMMA RowFacts ==
  ASSUME IdempotencyAssumption, IdemTypeOK
  PROVE  /\ keyRow = NoKey <=> keyRow.id = NoCall
         /\ keyRow # NoKey => keyRow \in KeyRows /\ keyRow.id \in IdemCalls
         /\ NoKey.id = NoCall /\ NoKey.state = "NONE"
  BY DEF IdemTypeOK, KeyRows, NoKey, IdempotencyAssumption

LEMMA IdemInitInv == ASSUME IdempotencyAssumption, IdemInit PROVE IdemInv
  BY DEF IdemInit, IdemInv, IdemTypeOK, DeleteInv, UnansweredInv, RowInv, LiveReservationKept, Executing,
         ReplaysSameRequest, NoResult, Results, Starting

LEMMA IdemStepInv == ASSUME IdempotencyAssumption, IdemInv, [IdemNext]_idemVars PROVE IdemInv'
<1> USE DEF IdemInv
<1>0. /\ keyRow = NoKey <=> keyRow.id = NoCall
      /\ keyRow # NoKey => keyRow \in KeyRows /\ keyRow.id \in IdemCalls
      /\ NoKey.id = NoCall /\ NoKey.state = "NONE"
  BY RowFacts
<1>1. ASSUME NEW c \in IdemCalls, BeginInsert(c) PROVE IdemInv'
  <2> DEFINE r == [id |-> c, state |-> "PROCESSING", hash |-> reqHash[c], response |-> NoCall]
  <2>1. r \in KeyRows /\ keyRow' = r /\ r.id = c /\ r.state = "PROCESSING" /\ r.hash = reqHash[c] /\ r # NoKey
    BY <1>1, <1>0 DEF BeginInsert, KeyRows, IdemTypeOK, NoKey
  <2>2. IdemTypeOK'
    BY <1>1, <2>1 DEF BeginInsert, IdemTypeOK, IdemGoto, Results
  <2>3. DeleteInv' /\ UnansweredInv'
    BY <1>1 DEF BeginInsert, IdemTypeOK, IdemGoto, DeleteInv, UnansweredInv, Starting
  <2>4. RowInv'
    BY <1>1, <2>1 DEF BeginInsert, IdemTypeOK, RowInv
  <2>5. LiveReservationKept'
    <3>1. Executing \ lapsed = {}
      BY <1>1, <1>0 DEF BeginInsert, LiveReservationKept, IdempotencyAssumption, Executing
    <3>2. Executing' \ lapsed' \subseteq {c}
      BY <1>1, <3>1 DEF BeginInsert, Executing, IdemGoto, IdemTypeOK
    <3> QED BY <3>2, <2>1 DEF LiveReservationKept
  <2>6. ReplaysSameRequest'
    BY <1>1 DEF BeginInsert, IdemTypeOK, ReplaysSameRequest, UnansweredInv, Starting, NoResult
  <2> QED BY <2>2, <2>3, <2>4, <2>5, <2>6
<1>2. ASSUME NEW c \in IdemCalls, BeginInsertFails(c) \/ Execute(c) \/ Crash(c) PROVE IdemInv'
  <2>1. UNCHANGED <<keyRow, lapsed, reqHash, seen, result>>
    BY <1>2 DEF BeginInsertFails, Execute, Crash
  <2>2. /\ idemPc' \in [IdemCalls -> {"insert", "select", "delete", "execute", "complete", "forget", "done"}]
        /\ \A d \in IdemCalls : /\ Starting(d)' => Starting(d)
                                /\ idemPc'[d] = "delete" => idemPc[d] = "delete"
                                /\ d \in Executing' => d \in Executing
    BY <1>2 DEF BeginInsertFails, Execute, Crash, IdemGoto, IdemTypeOK, Starting, Executing
  <2> QED
    BY <2>1, <2>2 DEF IdemTypeOK, DeleteInv, UnansweredInv, RowInv, LiveReservationKept, ReplaysSameRequest,
                      Executing
<1>3. ASSUME NEW c \in IdemCalls, BeginSelect(c) PROVE IdemInv'
  <2>1. UNCHANGED <<keyRow, lapsed, reqHash>> /\ idemPc[c] = "select"
    BY <1>3 DEF BeginSelect
  <2>2. /\ idemPc' \in [IdemCalls -> {"insert", "select", "delete", "execute", "complete", "forget", "done"}]
        /\ \A d \in IdemCalls : d # c => idemPc'[d] = idemPc[d] /\ seen'[d] = seen[d] /\ result'[d] = result[d]
        /\ idemPc'[c] \in {"done", "delete"}
        /\ seen' \in [IdemCalls -> KeyRows \cup {NoKey}]
    BY <1>3, <1>0 DEF BeginSelect, IdemTypeOK, IdemGoto
  <2>3. /\ keyRow # NoKey => Answer(c) \in Results
        /\ keyRow # NoKey /\ Answer(c).kind = "replay" =>
             keyRow.hash = reqHash[c] /\ Answer(c).from = keyRow.id
        /\ Answer(c).kind # "created"
    BY <1>0 DEF Answer, Results, KeyRows, RowInv
  <2>4. result' \in [IdemCalls -> Results]
    BY <1>3, <2>3 DEF BeginSelect, IdemTypeOK
  <2>5. IdemTypeOK'
    BY <2>1, <2>2, <2>4 DEF IdemTypeOK
  <2>6. DeleteInv'
    <3>1. idemPc'[c] = "delete" => seen'[c].id \in lapsed
      BY <1>3 DEF BeginSelect, IdemGoto, IdemTypeOK
    <3> QED BY <3>1, <2>1, <2>2 DEF DeleteInv
  <2>7. UnansweredInv'
    <3>1. idemPc'[c] = "delete" => result'[c] = result[c]
      BY <1>3 DEF BeginSelect, IdemGoto, IdemTypeOK
    <3> QED BY <3>1, <2>1, <2>2 DEF UnansweredInv, Starting
  <2>8. result[c] = NoResult /\ NoResult.kind = "none"
    BY <2>1 DEF UnansweredInv, Starting, NoResult
  <2>9. RowInv'
    BY <2>1, <2>2, <2>8, <1>0 DEF RowInv
  <2>10. LiveReservationKept'
    BY <2>1, <2>2 DEF LiveReservationKept, Executing
  <2>11. ReplaysSameRequest'
    <3>1. ASSUME result'[c].kind = "replay"
          PROVE  keyRow # NoKey /\ result'[c] = Answer(c)
      BY <3>1, <1>3, <2>8 DEF BeginSelect, IdemTypeOK
    <3>2. ASSUME result'[c].kind = "replay"
          PROVE  /\ result'[c].from \in IdemCalls
                 /\ reqHash[result'[c].from] = reqHash[c]
                 /\ result[result'[c].from].kind = "created"
      BY <3>1, <3>2, <2>3, <1>0 DEF RowInv
    <3>3. \A d \in IdemCalls : result[d].kind = "created" => result'[d].kind = "created"
      BY <2>2, <2>8
    <3> QED BY <3>2, <3>3, <2>1, <2>2 DEF ReplaysSameRequest
  <2> QED BY <2>5, <2>6, <2>7, <2>9, <2>10, <2>11
<1>4. ASSUME NEW c \in IdemCalls, BeginDelete(c) PROVE IdemInv'
  <2>1. /\ keyRow' \in {keyRow, NoKey}
        /\ UNCHANGED <<lapsed, reqHash, seen, result>>
        /\ idemPc' = [idemPc EXCEPT ![c] = "insert"]
        /\ idemPc[c] = "delete"
    BY <1>4 DEF BeginDelete, IdemGoto
  <2>2. keyRow' # keyRow => keyRow.id \in lapsed
    BY <1>4, <2>1 DEF BeginDelete, SameRecord, DeleteInv
  <2> QED
    BY <2>1, <2>2, <1>0 DEF IdemTypeOK, DeleteInv, UnansweredInv, RowInv, LiveReservationKept, ReplaysSameRequest,
                       Executing, Starting
<1>5. ASSUME NEW c \in IdemCalls, Complete(c) \/ Forget(c) PROVE IdemInv'
  <2> DEFINE r == [keyRow EXCEPT !.state = "COMPLETED", !.response = c]
  <2>1. keyRow.id = c => r \in KeyRows /\ r.id = c /\ r.hash = keyRow.hash /\ r.response = c /\ r # NoKey
    BY <1>0 DEF KeyRows, NoKey, IdempotencyAssumption
  <2>2. /\ keyRow' = keyRow \/ (keyRow.id = c /\ keyRow' \in {r, NoKey})
        /\ UNCHANGED <<lapsed, reqHash, seen, result>>
        /\ idemPc' = [idemPc EXCEPT ![c] = "done"]
    BY <1>5 DEF Complete, Forget, IdemGoto, Owns
  <2>3. IdemTypeOK'
    BY <2>1, <2>2 DEF IdemTypeOK
  <2>4. DeleteInv' /\ UnansweredInv' /\ ReplaysSameRequest'
    BY <2>2 DEF IdemTypeOK, DeleteInv, UnansweredInv, Starting, ReplaysSameRequest
  <2>5. RowInv'
    BY <2>1, <2>2, <1>0 DEF RowInv, IdempotencyAssumption
  <2>6. LiveReservationKept'
    <3>1. Executing' \subseteq Executing \ {c}
      BY <2>2 DEF Executing, IdemTypeOK
    <3> QED BY <3>1, <2>2 DEF LiveReservationKept
  <2> QED BY <2>3, <2>4, <2>5, <2>6
<1>6. CASE PassKeyExpiry
  BY <1>6, <1>0 DEF PassKeyExpiry, IdemTypeOK, DeleteInv, UnansweredInv, RowInv, LiveReservationKept, ReplaysSameRequest,
     Executing, Starting
<1>7. CASE PurgeExpired
  BY <1>7, <1>0 DEF PurgeExpired, IdemTypeOK, DeleteInv, UnansweredInv, RowInv, LiveReservationKept, ReplaysSameRequest,
     Executing, Starting
<1>8. CASE UNCHANGED idemVars
  BY <1>8 DEF idemVars, IdemTypeOK, DeleteInv, UnansweredInv, RowInv, LiveReservationKept, ReplaysSameRequest,
     Executing, Starting
<1> QED BY <1>1, <1>2, <1>3, <1>4, <1>5, <1>6, <1>7, <1>8 DEF IdemNext, Begin

THEOREM KeyInvariance == ASSUME IdempotencyAssumption PROVE IdemSpec => []IdemInv
<1>1. IdemInit => IdemInv BY IdemInitInv
<1>2. IdemInv /\ [IdemNext]_idemVars => IdemInv' BY IdemStepInv
<1> QED BY <1>1, <1>2, PTL DEF IdemSpec

(* The reservation of a call that is executing stays in place until it     *)
(* expires, whatever the statements of other calls to Begin, Complete,     *)
(* Forget and PurgeExpired do in between.                                  *)
THEOREM ReservationsKept == ASSUME IdempotencyAssumption PROVE IdemSpec => []LiveReservationKept
BY KeyInvariance, PTL DEF IdemInv

(* Two calls execute under one key only if the reservation of one of them  *)
(* has run out.                                                            *)
THEOREM SingleExecution == ASSUME IdempotencyAssumption PROVE IdemSpec => []OneLiveExecution
<1>1. ASSUME LiveReservationKept PROVE OneLiveExecution
  <2>1. Executing \ lapsed \subseteq {keyRow.id}
    BY <1>1 DEF LiveReservationKept
  <2>2. IsFiniteSet({keyRow.id}) /\ Cardinality({keyRow.id}) = 1
    BY FS_Singleton
  <2>3. Cardinality(Executing \ lapsed) <= Cardinality({keyRow.id})
    BY <2>1, <2>2, FS_Subset
  <2> QED BY <2>2, <2>3 DEF OneLiveExecution
<1> QED BY <1>1, ReservationsKept, PTL

(* A replayed response is the response of a call that executed the very    *)
(* same request.                                                           *)
THEOREM FaithfulReplay == ASSUME IdempotencyAssumption PROVE IdemSpec => []ReplaysSameRequest
BY KeyInvariance, PTL DEF IdemInv

-----------------------------------------------------------------------------
(***************************************************************************)
(* Proofs about the quarantine (Quarantine) and the capability contracts    *)
(* (Storage).  QInv says what a call in flight may rely on: a call that     *)
(* promotes was told of clean evidence, a call that writes Promoted has     *)
(* stored a version and deleted the object, and only the call that took the *)
(* record out of Quarantined scans.                                        *)
(***************************************************************************)

(***************************************************************************)
(* A store that New built allows a governed write only under a contract     *)
(* file that was valid and whose digest matched its evidence: without a     *)
(* file every governed write is refused (storage.New, PutGoverned).         *)
(***************************************************************************)
THEOREM GovernedNeedsEvidence ==
  ASSUME NEW name, NEW file, NEW c \in ContractsOf(name, file), NEW o, GovernedWriteAllowed(c, o)
  PROVE  file # NoFile /\ Loadable(file) /\ c = file.contract
<1>1. c.level = "Target-tested"
  BY DEF GovernedWriteAllowed, Validate
<1>2. CASE file = NoFile
  <2>1. c = DefaultContract(ResolveProviderProfile(name))
    BY <1>2 DEF ContractsOf
  <2>2. c.level = "Not certified"
    BY <2>1 DEF DefaultContract
  <2> QED BY <1>1, <2>2
<1>3. CASE file # NoFile
  BY <1>3 DEF ContractsOf
<1> QED BY <1>2, <1>3

-----------------------------------------------------------------------------
Records == [status : Statuses \cup {"none"}, scan : {"none", "Clean", "Malicious"}, version : 0 .. 1]

QCalls ==
  [op : {"none", "expire", "scan", "promote", "cleanup"}, id : Ids \cup {"none"}, copy : Records,
   next : Records]

QTyped ==
  /\ stage \in [Ids -> {"new", "stored", "done"}]
  /\ record \in [Ids -> Records]
  /\ object \in [Ids -> Bytes \cup {"none"}]
  /\ puts \in [Ids -> Nat]
  /\ qExpired \in [Ids -> BOOLEAN]
  /\ qPc \in [Workers -> {"idle", "swap", "scan", "read", "put", "delete"}]
  /\ qCall \in [Workers -> QCalls]
  /\ \A w \in Workers : qPc[w] # "idle" => qCall[w].id \in Ids
  /\ cleared \in [Ids -> SUBSET Bytes] /\ governed \in [Ids -> SUBSET Bytes]
  /\ faults \in Nat

\* A record exists only once Submit is done, and a call is about a record.
Known ==
  /\ \A i \in Ids : record[i].status # "none" => stage[i] = "done"
  /\ \A i \in Ids : stage[i] # "done" => cleared[i] = {} /\ governed[i] = {}
  /\ \A w \in Workers : qPc[w] # "idle" => stage[qCall[w].id] = "done"

\* Clean evidence, and what it was about.
Evidence ==
  /\ \A i \in Ids : "damaged" \in cleared[i] => object[i] # "submitted"
  /\ \A i \in Ids : record[i].status = "Clean" => cleared[i] # {}
  /\ \A w \in Workers :
       /\ qPc[w] = "swap" /\ qCall[w].next.status = "Clean" => cleared[qCall[w].id] # {}
       /\ qPc[w] \in {"read", "put"} => cleared[qCall[w].id] # {}
       /\ qPc[w] = "put" => "submitted" \in cleared[qCall[w].id]

\* What a call may write of a promotion.
Promotion ==
  \A w \in Workers :
    /\ qPc[w] = "delete" => puts[qCall[w].id] > 0
    /\ qPc[w] = "swap" /\ qCall[w].next.status \in {"Promoted", "CleanupPending"} => puts[qCall[w].id] > 0
    /\ qPc[w] = "swap" /\ qCall[w].next.status = "Promoted" => object[qCall[w].id] = "none"

\* Who may take the record to Scanning.
Scanner ==
  /\ \A w \in Workers :
       /\ qPc[w] = "swap" => qCall[w].next.status \notin {"none", "Quarantined"}
       /\ qPc[w] = "swap" /\ qCall[w].next.status = "Scanning" => qCall[w].copy.status = "Quarantined"
       /\ Scans(w) => record[qCall[w].id].status \notin {"none", "Quarantined"}
       /\ qPc[w] \in {"read", "put", "delete"} => qCall[w].op \in {"promote", "cleanup"}

QInv ==
  /\ QTyped /\ Known /\ Evidence /\ Promotion /\ Scanner
  /\ PromotedWasCleared /\ RecordIsTrue /\ ScansAlone

LEMMA QuarantineInit == QInit => QInv
<1> SUFFICES ASSUME QInit PROVE QInv
  OBVIOUS
<1>1. NoRecord \in Records /\ QNoCall \in QCalls
  BY DEF NoRecord, Records, QNoCall, QCalls, Statuses
<1>2. QTyped
  BY <1>1 DEF QInit, QTyped, Bytes
<1>3. Known /\ Evidence /\ Promotion /\ Scanner
  BY DEF QInit, NoRecord, Known, Evidence, Promotion, Scanner, Scans
<1>4. PromotedWasCleared /\ RecordIsTrue /\ ScansAlone
  BY DEF QInit, NoRecord, PromotedWasCleared, RecordIsTrue, ScansAlone, Scans
<1> QED BY <1>2, <1>3, <1>4 DEF QInv

(***************************************************************************)
(* Submit, the deadline and decay.                                         *)
(***************************************************************************)
LEMMA QuarantineSubmit ==
  ASSUME QInv, NEW i \in Ids,
         SubmitPut(i) \/ SubmitCreate(i) \/ SubmitError(i) \/ QPassExpiry(i) \/ Rot(i)
  PROVE  QInv'
<1> USE DEF QInv
<1>1. QTyped'
  <2>1. [NoRecord EXCEPT !.status = "Quarantined"] \in Records
    BY DEF NoRecord, Records, Statuses
  <2>2. faults' \in Nat
    BY DEF QTyped, SubmitPut, SubmitCreate, SubmitError, QPassExpiry, Rot, Fault
  <2>7. qExpired' = qExpired \/ qExpired' = [qExpired EXCEPT ![i] = TRUE]
    BY DEF SubmitPut, SubmitCreate, SubmitError, QPassExpiry, Rot
  <2>8. qExpired' \in [Ids -> BOOLEAN]
    BY <2>7, Zenon DEF QTyped
  <2>3. stage' \in [Ids -> {"new", "stored", "done"}]
    BY DEF QTyped, SubmitPut, SubmitCreate, SubmitError, QPassExpiry, Rot
  <2>4. record' \in [Ids -> Records]
    BY <2>1 DEF QTyped, SubmitPut, SubmitCreate, SubmitError, QPassExpiry, Rot
  <2>5. object' \in [Ids -> Bytes \cup {"none"}]
    BY DEF QTyped, SubmitPut, SubmitCreate, SubmitError, QPassExpiry, Rot, Bytes
  <2>6. UNCHANGED <<puts, qPc, qCall, cleared, governed>>
    BY DEF SubmitPut, SubmitCreate, SubmitError, QPassExpiry, Rot
  <2> QED BY <2>2, <2>3, <2>4, <2>5, <2>6, <2>8 DEF QTyped
<1>2. UNCHANGED <<puts, qPc, qCall, cleared, governed>>
  BY DEF SubmitPut, SubmitCreate, SubmitError, QPassExpiry, Rot
<1>3. /\ stage[i] = "new" /\ stage'[i] = "stored" /\ object'[i] = "submitted" /\ record' = record
      \/ /\ stage[i] = "stored" /\ stage'[i] = "done" /\ object'[i] \in {object[i], "none"}
         /\ record' = record \/ record'[i].status = "Quarantined"
      \/ /\ stage' = stage /\ record' = record /\ object' = object
      \/ /\ stage' = stage /\ record' = record /\ object[i] = "submitted" /\ object'[i] = "damaged"
  BY DEF QTyped, SubmitPut, SubmitCreate, SubmitError, QPassExpiry, Rot, NoRecord
<1>4. \A j \in Ids \ {i} : stage'[j] = stage[j] /\ record'[j] = record[j] /\ object'[j] = object[j]
  BY DEF QTyped, SubmitPut, SubmitCreate, SubmitError, QPassExpiry, Rot
<1>5. \A w \in Workers : qPc[w] # "idle" => qCall[w].id \in Ids /\ stage[qCall[w].id] = "done"
  BY DEF QTyped, Known
<1>6. Known'
  BY <1>2, <1>3, <1>4, <1>5 DEF Known
<1>7. Evidence'
  BY <1>2, <1>3, <1>4, <1>5 DEF Evidence, Known
<1>8. Promotion'
  BY <1>2, <1>3, <1>4, <1>5 DEF Promotion
<1>9. Scanner' /\ ScansAlone'
  BY <1>2, <1>3, <1>4, <1>5 DEF Scanner, ScansAlone, Scans
<1>10. PromotedWasCleared' /\ RecordIsTrue'
  BY <1>2, <1>3, <1>4 DEF PromotedWasCleared, RecordIsTrue, Known
<1> QED BY <1>1, <1>6, <1>7, <1>8, <1>9, <1>10

(***************************************************************************)
(* The start of a call: it holds a copy of the record it read.              *)
(***************************************************************************)
LEMMA QuarantineBegin ==
  ASSUME QInv, NEW w \in Workers, NEW i \in Ids,
         ReadExpired(w, i) \/ BeginScan(w, i) \/ BeginPromote(w, i) \/ BeginCleanup(w, i)
  PROVE  QInv'
<1> USE DEF QInv
<1>1. PICK op \in {"expire", "scan", "promote", "cleanup"}, step \in {"swap", "read", "delete"},
           status \in Statuses :
        /\ QBegin(w, i, op, step, status)
        /\ record[i].status # "none"
        /\ status \notin {"none", "Quarantined"}
        /\ step = "swap" => status \in {"Expired", "Scanning"}
        /\ status = "Scanning" => record[i].status = "Quarantined"
        /\ step = "read" => record[i].status = "Clean"
        /\ step = "delete" => record[i].status = "CleanupPending"
        /\ op = "scan" => record[i].status = "Quarantined"
        /\ step # "swap" => op \in {"promote", "cleanup"}
  <2>1. CASE ReadExpired(w, i)
    BY <2>1 DEF ReadExpired, Statuses
  <2>2. CASE BeginScan(w, i)
    BY <2>2 DEF BeginScan, Statuses
  <2>3. CASE BeginPromote(w, i)
    BY <2>3 DEF BeginPromote, Statuses
  <2>4. CASE BeginCleanup(w, i)
    BY <2>4 DEF BeginCleanup, Statuses
  <2> QED BY <2>1, <2>2, <2>3, <2>4
<1>2. /\ UNCHANGED <<stage, record, object, puts, qExpired, faults, cleared, governed>>
      /\ qPc' = [qPc EXCEPT ![w] = step]
      /\ qCall' = [qCall EXCEPT ![w] = [op |-> op, id |-> i, copy |-> record[i],
                                      next |-> [record[i] EXCEPT !.status = status]]]
  BY <1>1 DEF QBegin
<1>3. record[i] \in Records /\ [record[i] EXCEPT !.status = status] \in Records
  BY DEF QTyped, Records
<1>4. [record[i] EXCEPT !.status = status].status = status
  BY <1>3 DEF Records
<1>5. QTyped'
  BY <1>2, <1>3 DEF QTyped, QCalls
<1>6. /\ qPc'[w] = step /\ qCall'[w].op = op /\ qCall'[w].id = i /\ qCall'[w].copy = record[i]
      /\ qCall'[w].next.status = status
  BY <1>2, <1>4 DEF QTyped
<1>7. \A v \in Workers \ {w} : qPc'[v] = qPc[v] /\ qCall'[v] = qCall[v]
  BY <1>2 DEF QTyped
<1>8. stage[i] = "done"
  BY <1>1 DEF Known
<1>9. Known'
  BY <1>2, <1>6, <1>7, <1>8 DEF Known
<1>10. Evidence'
  <2>1. /\ qPc'[w] \in {"swap", "read", "delete"}
        /\ qPc'[w] = "swap" => qCall'[w].next.status # "Clean"
        /\ qPc'[w] = "read" => cleared[i] # {}
    BY <1>1, <1>6 DEF Evidence
  <2> QED BY <1>2, <1>6, <1>7, <2>1 DEF Evidence
<1>11. Promotion'
  BY <1>1, <1>2, <1>6, <1>7 DEF Promotion, RecordIsTrue
<1>12. ~Scans(w)'
  BY <1>1, <1>6 DEF Scans
<1>13. Scanner' /\ ScansAlone'
  BY <1>1, <1>2, <1>6, <1>7, <1>12 DEF Scanner, ScansAlone, Scans
<1>14. PromotedWasCleared' /\ RecordIsTrue'
  BY <1>2 DEF PromotedWasCleared, RecordIsTrue
<1> QED BY <1>5, <1>9, <1>10, <1>11, <1>13, <1>14

(***************************************************************************)
(* The compare-and-swap.                                                   *)
(***************************************************************************)
LEMMA QuarantineSwap ==
  ASSUME QInv, NEW w \in Workers, Swap(w)
  PROVE  QInv'
<1> USE DEF QInv
<1> DEFINE i == qCall[w].id
           to == qCall[w].next
<1>1. i \in Ids /\ to \in Records /\ qCall[w] \in QCalls /\ qPc[w] = "swap" /\ stage[i] = "done"
  BY DEF Swap, QTyped, QCalls, Known
<1>2. UNCHANGED <<stage, object, puts, qExpired, faults, cleared, governed>>
  BY DEF Swap
<1>3. QNoCall \in QCalls
  BY DEF NoRecord, Records, QNoCall, QCalls, Statuses
<1>4. \/ /\ record[i].status = qCall[w].copy.status /\ to.status = "Scanning"
         /\ record' = [record EXCEPT ![i] = to]
         /\ qPc' = [qPc EXCEPT ![w] = "scan"] /\ qCall' = [qCall EXCEPT ![w].copy = to]
      \/ /\ record' = [record EXCEPT ![i] = to] /\ to.status # "Scanning"
         /\ qPc' = [qPc EXCEPT ![w] = "idle"] /\ qCall' = [qCall EXCEPT ![w] = QNoCall]
      \/ /\ record' = record
         /\ qPc' = [qPc EXCEPT ![w] = "idle"] /\ qCall' = [qCall EXCEPT ![w] = QNoCall]
  BY DEF Swap, Return
<1>5. QTyped'
  <2>1. record' \in [Ids -> Records]
    BY <1>1, <1>4 DEF QTyped
  <2>2. [qCall[w] EXCEPT !.copy = to] \in QCalls /\ [qCall[w] EXCEPT !.copy = to].id = i
    BY <1>1 DEF QCalls
  <2>3. qCall' \in [Workers -> QCalls]
    BY <1>3, <1>4, <2>2 DEF QTyped
  <2>4. qPc' \in [Workers -> {"idle", "swap", "scan", "read", "put", "delete"}]
    BY <1>4 DEF QTyped
  <2>5. \A v \in Workers : qPc'[v] # "idle" => qCall'[v].id \in Ids
    BY <1>1, <1>4, <2>2 DEF QTyped
  <2> QED BY <1>2, <2>1, <2>3, <2>4, <2>5 DEF QTyped
<1>6. \A v \in Workers \ {w} : qPc'[v] = qPc[v] /\ qCall'[v] = qCall[v]
  BY <1>4 DEF QTyped
<1>7. \/ qPc'[w] = "idle"
      \/ /\ qPc'[w] = "scan" /\ qCall'[w].id = i /\ to.status = "Scanning" /\ record'[i] = to
         /\ record[i].status = qCall[w].copy.status
  BY <1>1, <1>4 DEF QTyped, QCalls
<1>8. \A j \in Ids : record'[j] = record[j] \/ (j = i /\ record'[j] = to)
  BY <1>1, <1>4 DEF QTyped
<1>9. to.status \notin {"none", "Quarantined"}
  BY <1>1 DEF Scanner
<1>10. Known'
  BY <1>1, <1>2, <1>6, <1>7, <1>8, <1>9 DEF Known
<1>11. Evidence'
  BY <1>1, <1>2, <1>6, <1>7, <1>8 DEF Evidence
<1>12. Promotion'
  BY <1>1, <1>2, <1>6, <1>7 DEF Promotion
<1>13. qPc'[w] = "scan" => \A v \in Workers \ {w} : Scans(v) => qCall[v].id # i
  BY <1>1, <1>7 DEF Scanner
<1>14. \A v \in Workers \ {w} : Scans(v)' = Scans(v)
  BY <1>6 DEF Scans
<1>15. Scans(w)' => qPc'[w] = "scan"
  BY <1>7 DEF Scans
<1>16. ScansAlone'
  BY <1>6, <1>7, <1>13, <1>14, <1>15 DEF ScansAlone
<1>17. Scanner'
  <2>1. \A v \in Workers : Scans(v)' => record'[qCall'[v].id].status \notin {"none", "Quarantined"}
    <3> SUFFICES ASSUME NEW v \in Workers, Scans(v)'
                 PROVE  record'[qCall'[v].id].status \notin {"none", "Quarantined"}
      OBVIOUS
    <3>1. CASE v = w
      BY <3>1, <1>7, <1>9, <1>15
    <3>2. CASE v # w
      <4>1. Scans(v) /\ qPc[v] # "idle" /\ qCall'[v] = qCall[v] /\ qCall[v].id \in Ids
        BY <3>2, <1>6, <1>14 DEF Scans, QTyped
      <4> QED BY <4>1, <1>8, <1>9 DEF Scanner
    <3> QED BY <3>1, <3>2
  <2> QED BY <2>1, <1>6, <1>7 DEF Scanner
<1>18. PromotedWasCleared' /\ RecordIsTrue'
  BY <1>1, <1>2, <1>8 DEF PromotedWasCleared, RecordIsTrue, Promotion
<1> QED BY <1>5, <1>10, <1>11, <1>12, <1>16, <1>17, <1>18

(***************************************************************************)
(* The types a step of a call keeps: it goes on with a next record, or ends. *)
(***************************************************************************)
LEMMA GotoKeepsTypes ==
  ASSUME QTyped, NEW w \in Workers, qPc[w] # "idle", NEW step \in {"swap", "put", "delete"},
         NEW to \in Records, QGoto(w, step, to)
  PROVE  /\ qPc' \in [Workers -> {"idle", "swap", "scan", "read", "put", "delete"}]
         /\ qCall' \in [Workers -> QCalls]
         /\ \A v \in Workers : qPc'[v] # "idle" => qCall'[v].id \in Ids
         /\ \A v \in Workers \ {w} : qPc'[v] = qPc[v] /\ qCall'[v] = qCall[v]
         /\ qPc'[w] = step /\ qCall'[w].next = to
         /\ qCall'[w].op = qCall[w].op /\ qCall'[w].id = qCall[w].id /\ qCall'[w].copy = qCall[w].copy
<1>1. qCall[w] \in QCalls /\ qCall[w].id \in Ids
  BY DEF QTyped
<1>2. [qCall[w] EXCEPT !.next = to] \in QCalls
  BY <1>1 DEF QCalls
<1>3. /\ [qCall[w] EXCEPT !.next = to].next = to
      /\ [qCall[w] EXCEPT !.next = to].op = qCall[w].op
      /\ [qCall[w] EXCEPT !.next = to].id = qCall[w].id
      /\ [qCall[w] EXCEPT !.next = to].copy = qCall[w].copy
  BY <1>1 DEF QCalls
<1>4. qCall' = [qCall EXCEPT ![w] = [qCall[w] EXCEPT !.next = to]]
  BY DEF QGoto
<1> QED BY <1>1, <1>2, <1>3, <1>4 DEF QTyped, QGoto

LEMMA ReturnKeepsTypes ==
  ASSUME QTyped, NEW w \in Workers, Return(w)
  PROVE  /\ qPc' \in [Workers -> {"idle", "swap", "scan", "read", "put", "delete"}]
         /\ qCall' \in [Workers -> QCalls]
         /\ \A v \in Workers : qPc'[v] # "idle" => qCall'[v].id \in Ids
         /\ \A v \in Workers \ {w} : qPc'[v] = qPc[v] /\ qCall'[v] = qCall[v]
         /\ qPc'[w] = "idle"
<1>1. QNoCall \in QCalls
  BY DEF NoRecord, Records, QNoCall, QCalls, Statuses
<1> QED BY <1>1 DEF QTyped, Return

LEMMA QuarantineScan ==
  ASSUME QInv, NEW w \in Workers, Scan(w)
  PROVE  QInv'
<1> USE DEF QInv
<1> DEFINE i == qCall[w].id
           copy == qCall[w].copy
<1>1. i \in Ids /\ copy \in Records /\ qPc[w] = "scan" /\ stage[i] = "done" /\ object[i] \in Bytes \cup {"none"}
  BY DEF Scan, QTyped, QCalls, Known
<1>2. UNCHANGED <<stage, record, object, puts, qExpired, governed>>
  BY DEF Scan
<1>3. PICK to \in Records :
        /\ QGoto(w, "swap", to) /\ to.status \in {"Clean", "Rejected", "ScanFailed"}
        /\ \/ cleared' = cleared /\ to.status # "Clean"
           \/ object[i] # "none" /\ cleared' = [cleared EXCEPT ![i] = @ \cup {object[i]}]
        /\ faults' = faults \/ Fault
  <2>1. /\ [copy EXCEPT !.status = "Clean", !.scan = "Clean"] \in Records
        /\ [copy EXCEPT !.status = "Clean", !.scan = "Clean"].status = "Clean"
        /\ [copy EXCEPT !.status = "Rejected", !.scan = "Malicious"] \in Records
        /\ [copy EXCEPT !.status = "Rejected", !.scan = "Malicious"].status = "Rejected"
        /\ [copy EXCEPT !.status = "ScanFailed"] \in Records
        /\ [copy EXCEPT !.status = "ScanFailed"].status = "ScanFailed"
    BY <1>1 DEF Records, Statuses
  <2> QED BY <2>1 DEF Scan
<1>4. /\ qPc' \in [Workers -> {"idle", "swap", "scan", "read", "put", "delete"}]
      /\ qCall' \in [Workers -> QCalls]
      /\ \A v \in Workers : qPc'[v] # "idle" => qCall'[v].id \in Ids
      /\ \A v \in Workers \ {w} : qPc'[v] = qPc[v] /\ qCall'[v] = qCall[v]
      /\ qPc'[w] = "swap" /\ qCall'[w].next = to
      /\ qCall'[w].op = qCall[w].op /\ qCall'[w].id = i /\ qCall'[w].copy = copy
  BY <1>1, <1>3, GotoKeepsTypes
<1>5. cleared' \in [Ids -> SUBSET Bytes] /\ faults' \in Nat
  BY <1>1, <1>3 DEF QTyped, Fault
<1>6. QTyped'
  BY <1>2, <1>4, <1>5 DEF QTyped
<1>7. /\ \A j \in Ids : cleared[j] \subseteq cleared'[j]
      /\ \A j \in Ids : j # i => cleared'[j] = cleared[j]
      /\ cleared'[i] = cleared[i] \/ (object[i] # "none" /\ cleared'[i] = cleared[i] \cup {object[i]})
      /\ to.status = "Clean" => cleared'[i] # {}
  BY <1>1, <1>3 DEF QTyped
<1>8. Known'
  BY <1>1, <1>2, <1>4, <1>7 DEF Known
<1>9. Evidence'
  <2>1. \A j \in Ids : "damaged" \in cleared'[j] => object[j] # "submitted"
    BY <1>7 DEF Evidence
  <2>2. \A j \in Ids : record[j].status = "Clean" => cleared'[j] # {}
    BY <1>7 DEF Evidence
  <2>3. \A v \in Workers :
          /\ qPc'[v] = "swap" /\ qCall'[v].next.status = "Clean" => cleared'[qCall'[v].id] # {}
          /\ qPc'[v] \in {"read", "put"} => cleared'[qCall'[v].id] # {}
          /\ qPc'[v] = "put" => "submitted" \in cleared'[qCall'[v].id]
    BY <1>4, <1>7 DEF Evidence
  <2> QED BY <1>2, <2>1, <2>2, <2>3 DEF Evidence
<1>10. Promotion'
  BY <1>1, <1>2, <1>3, <1>4 DEF Promotion
<1>11. \A v \in Workers : Scans(v)' => Scans(v) /\ qCall'[v].id = qCall[v].id
  BY <1>1, <1>4 DEF Scans
<1>12. Scanner' /\ ScansAlone'
  BY <1>2, <1>3, <1>4, <1>11 DEF Scanner, ScansAlone
<1>13. PromotedWasCleared' /\ RecordIsTrue'
  BY <1>2, <1>7 DEF PromotedWasCleared, RecordIsTrue
<1> QED BY <1>6, <1>8, <1>9, <1>10, <1>12, <1>13

(***************************************************************************)
(* Promote and Cleanup after the read, and the death of a worker.           *)
(***************************************************************************)
LEMMA QuarantinePromote ==
  ASSUME QInv, NEW w \in Workers, ReadObject(w) \/ PutGoverned(w)
  PROVE  QInv'
<1> USE DEF QInv
<1> DEFINE i == qCall[w].id
           copy == qCall[w].copy
<1>1. i \in Ids /\ copy \in Records /\ qPc[w] \in {"read", "put"} /\ stage[i] = "done"
  BY DEF ReadObject, PutGoverned, QTyped, QCalls, Known
<1>2. UNCHANGED <<stage, record, object, qExpired, cleared>>
  BY DEF ReadObject, PutGoverned
<1>3. \/ Return(w) /\ UNCHANGED <<puts, governed>>
      \/ \E to \in Records :
           \/ QGoto(w, "swap", to) /\ to.status \in {"Rejected", "PromotionFailed"} /\ UNCHANGED <<puts, governed>>
           \/ /\ QGoto(w, "put", to) /\ qPc[w] = "read" /\ object[i] = "submitted" /\ UNCHANGED <<puts, governed>>
           \/ QGoto(w, "swap", to) /\ to.status = "PromotionFailed" /\ Stored(i) /\ qPc[w] = "put"
           \/ QGoto(w, "delete", to) /\ Stored(i) /\ qPc[w] = "put"
  <2>1. /\ [copy EXCEPT !.status = "Rejected"] \in Records
        /\ [copy EXCEPT !.status = "Rejected"].status = "Rejected"
        /\ [copy EXCEPT !.version = 1] \in Records
        /\ [copy EXCEPT !.status = "PromotionFailed"] \in Records
        /\ [copy EXCEPT !.status = "PromotionFailed"].status = "PromotionFailed"
    BY <1>1 DEF Records, Statuses
  <2>2. CASE ReadObject(w)
    BY <1>1, <2>1, <2>2 DEF ReadObject
  <2>3. CASE PutGoverned(w)
    BY <1>1, <2>1, <2>3 DEF PutGoverned
  <2> QED BY <2>2, <2>3
<1>4. /\ qPc' \in [Workers -> {"idle", "swap", "scan", "read", "put", "delete"}]
      /\ qCall' \in [Workers -> QCalls]
      /\ \A v \in Workers : qPc'[v] # "idle" => qCall'[v].id \in Ids
      /\ \A v \in Workers \ {w} : qPc'[v] = qPc[v] /\ qCall'[v] = qCall[v]
  BY <1>1, <1>3, GotoKeepsTypes, ReturnKeepsTypes
<1>5. faults' \in Nat /\ puts' \in [Ids -> Nat] /\ governed' \in [Ids -> SUBSET Bytes]
  <2>1. faults' \in Nat
    BY DEF ReadObject, PutGoverned, QTyped, Fault
  <2>2. puts' \in [Ids -> Nat] /\ governed' \in [Ids -> SUBSET Bytes]
    BY <1>3 DEF Stored, QTyped, Bytes
  <2> QED BY <2>1, <2>2
<1>6. QTyped'
  BY <1>2, <1>4, <1>5 DEF QTyped
<1>7. \/ qPc'[w] = "idle" /\ UNCHANGED <<puts, governed>>
      \/ /\ qCall'[w].id = i /\ qCall'[w].op = qCall[w].op /\ qCall'[w].copy = copy
         /\ \/ /\ qPc'[w] = "swap" /\ qCall'[w].next.status \in {"Rejected", "PromotionFailed"}
               /\ UNCHANGED <<puts, governed>> \/ (Stored(i) /\ qPc[w] = "put")
            \/ qPc'[w] = "put" /\ qPc[w] = "read" /\ object[i] = "submitted" /\ UNCHANGED <<puts, governed>>
            \/ qPc'[w] = "delete" /\ Stored(i) /\ qPc[w] = "put"
  BY <1>1, <1>3, GotoKeepsTypes, ReturnKeepsTypes
<1>8. /\ \A j \in Ids : puts'[j] >= puts[j]
      /\ Stored(i) => puts'[i] > 0 /\ governed'[i] = governed[i] \cup {"submitted"}
      /\ \A j \in Ids : governed'[j] = governed[j] \/ (j = i /\ qPc[w] = "put" /\ Stored(i))
  BY <1>1, <1>7 DEF Stored, QTyped
<1>9. Known'
  BY <1>1, <1>2, <1>4, <1>7, <1>8 DEF Known
<1>10. cleared[i] \in SUBSET Bytes /\ cleared[i] # {}
  BY <1>1 DEF QTyped, Evidence
<1>11. object[i] = "submitted" => "submitted" \in cleared[i]
  BY <1>1, <1>10 DEF Evidence, Bytes
<1>12. Evidence'
  BY <1>2, <1>4, <1>7, <1>10, <1>11 DEF Evidence
<1>13. Promotion'
  <2>1. \A j \in Ids : puts[j] > 0 => puts'[j] > 0
    BY <1>5, <1>8 DEF QTyped
  <2> QED BY <1>1, <1>2, <1>4, <1>6, <1>7, <1>8, <2>1 DEF Promotion, QTyped
<1>14. \A v \in Workers : Scans(v)' => Scans(v) /\ qCall'[v] = qCall[v]
  <2>1. ~Scans(w)' \/ (qPc'[w] = "swap" /\ qCall[w].op = "scan" /\ copy.status = "Scanning")
    BY <1>7 DEF Scans
  <2>2. ~(qCall[w].op = "scan" /\ copy.status = "Scanning")
    BY <1>1 DEF Scanner
  <2> QED BY <1>4, <2>1, <2>2 DEF Scans
<1>15. Scanner' /\ ScansAlone'
  BY <1>2, <1>4, <1>7, <1>14 DEF Scanner, ScansAlone
<1>16. PromotedWasCleared'
  BY <1>1, <1>2, <1>8 DEF PromotedWasCleared, Evidence
<1>17. RecordIsTrue'
  BY <1>2, <1>5, <1>8 DEF RecordIsTrue, QTyped
<1> QED BY <1>6, <1>9, <1>12, <1>13, <1>15, <1>16, <1>17

LEMMA QuarantineDelete ==
  ASSUME QInv, NEW w \in Workers, DeleteObject(w) \/ Die(w)
  PROVE  QInv'
<1> USE DEF QInv
<1> DEFINE i == qCall[w].id
           next == qCall[w].next
<1>1. i \in Ids /\ next \in Records /\ qPc[w] # "idle" /\ stage[i] = "done"
  BY DEF DeleteObject, Die, QTyped, QCalls, Known
<1>2. UNCHANGED <<stage, record, puts, qExpired, cleared, governed>>
  BY DEF DeleteObject, Die
<1>3. object' = object \/ object' = [object EXCEPT ![i] = "none"]
  BY DEF DeleteObject, Die
<1>4. \/ Return(w)
      \/ /\ qPc[w] = "delete"
         /\ \E to \in Records :
              /\ QGoto(w, "swap", to) /\ to.status \in {"Promoted", "CleanupPending"}
              /\ to.status = "Promoted" => object' = [object EXCEPT ![i] = "none"]
  <2>1. /\ [next EXCEPT !.status = "Promoted"] \in Records
        /\ [next EXCEPT !.status = "Promoted"].status = "Promoted"
        /\ [next EXCEPT !.status = "CleanupPending"] \in Records
        /\ [next EXCEPT !.status = "CleanupPending"].status = "CleanupPending"
    BY <1>1 DEF Records, Statuses
  <2> QED BY <2>1 DEF DeleteObject, Die
<1>5. /\ qPc' \in [Workers -> {"idle", "swap", "scan", "read", "put", "delete"}]
      /\ qCall' \in [Workers -> QCalls]
      /\ \A v \in Workers : qPc'[v] # "idle" => qCall'[v].id \in Ids
      /\ \A v \in Workers \ {w} : qPc'[v] = qPc[v] /\ qCall'[v] = qCall[v]
  BY <1>1, <1>4, GotoKeepsTypes, ReturnKeepsTypes
<1>6. \/ qPc'[w] = "idle"
      \/ /\ qPc'[w] = "swap" /\ qPc[w] = "delete" /\ qCall'[w].id = i /\ qCall'[w].op = qCall[w].op
         /\ qCall'[w].next.status \in {"Promoted", "CleanupPending"}
         /\ qCall'[w].next.status = "Promoted" => object' = [object EXCEPT ![i] = "none"]
  BY <1>1, <1>4, GotoKeepsTypes, ReturnKeepsTypes
<1>7. faults' \in Nat /\ object' \in [Ids -> Bytes \cup {"none"}]
  <2>1. faults' \in Nat
    BY DEF DeleteObject, Die, Fault, QTyped
  <2> QED BY <1>3, <2>1 DEF QTyped
<1>8. QTyped'
  BY <1>2, <1>5, <1>7 DEF QTyped
<1>9. \A j \in Ids : object'[j] = object[j] \/ object'[j] = "none"
  BY <1>3 DEF QTyped
<1>10. Known'
  BY <1>1, <1>2, <1>5, <1>6 DEF Known
<1>11. Evidence'
  BY <1>2, <1>5, <1>6, <1>9 DEF Evidence
<1>12. Promotion'
  <2> SUFFICES ASSUME NEW v \in Workers PROVE
        /\ qPc'[v] = "delete" => puts[qCall'[v].id] > 0
        /\ qPc'[v] = "swap" /\ qCall'[v].next.status \in {"Promoted", "CleanupPending"} => puts[qCall'[v].id] > 0
        /\ qPc'[v] = "swap" /\ qCall'[v].next.status = "Promoted" => object'[qCall'[v].id] = "none"
    BY <1>2 DEF Promotion
  <2>1. CASE v = w
    BY <2>1, <1>1, <1>6 DEF Promotion, QTyped
  <2>2. CASE v # w
    BY <2>2, <1>5, <1>9 DEF Promotion
  <2> QED BY <2>1, <2>2
<1>13. \A v \in Workers : Scans(v)' => Scans(v) /\ qCall'[v] = qCall[v]
  <2>1. ~Scans(w)'
    BY <1>6 DEF Scans, Scanner
  <2> QED BY <1>5, <2>1 DEF Scans
<1>14. Scanner' /\ ScansAlone'
  BY <1>2, <1>5, <1>6, <1>13 DEF Scanner, ScansAlone
<1>15. PromotedWasCleared' /\ RecordIsTrue'
  BY <1>2, <1>9 DEF PromotedWasCleared, RecordIsTrue
<1> QED BY <1>8, <1>10, <1>11, <1>12, <1>14, <1>15

LEMMA QuarantineInvariant == QSpec => []QInv
<1>1. QInv /\ UNCHANGED qVars => QInv'
  <2> SUFFICES ASSUME QInv, UNCHANGED qVars PROVE QInv'
    OBVIOUS
  <2>1. QTyped' /\ Known' /\ Evidence' /\ Promotion' /\ Scanner'
    BY DEF QInv, qVars, QTyped, Known, Evidence, Promotion, Scanner, Scans
  <2>2. PromotedWasCleared' /\ RecordIsTrue' /\ ScansAlone'
    BY DEF QInv, qVars, PromotedWasCleared, RecordIsTrue, ScansAlone, Scans
  <2> QED BY <2>1, <2>2 DEF QInv
<1>2. QInv /\ QNext => QInv'
  BY QuarantineSubmit, QuarantineBegin, QuarantineSwap, QuarantineScan, QuarantinePromote, QuarantineDelete
     DEF QNext
<1> QED BY <1>1, <1>2, QuarantineInit, PTL DEF QSpec

(***************************************************************************)
(* TypeOK for any number of uploads, workers and faults.                    *)
(***************************************************************************)
THEOREM QuarantineTypeCorrect == QSpec => []QTypeOK
<1>1. QInv => QTypeOK
  BY DEF QInv, QTyped, QTypeOK, Records
<1> QED BY <1>1, QuarantineInvariant, PTL

(***************************************************************************)
(* PromotedWasCleared: whatever interleaving of Scan, Promote and Cleanup,  *)
(* only scanned and undamaged bytes reach the governed store.               *)
(***************************************************************************)
THEOREM OnlyClearedBytesArePromoted == QSpec => []PromotedWasCleared
<1>1. QInv => PromotedWasCleared
  BY DEF QInv
<1> QED BY <1>1, QuarantineInvariant, PTL

(***************************************************************************)
(* RecordIsTrue and ScansAlone for any number of concurrent calls.          *)
(***************************************************************************)
THEOREM QuarantineRecordIsTrue == QSpec => [](RecordIsTrue /\ ScansAlone)
<1>1. QInv => RecordIsTrue /\ ScansAlone
  BY DEF QInv
<1> QED BY <1>1, QuarantineInvariant, PTL

(***************************************************************************)
(* A store without target-tested evidence is given nothing: PutGoverned     *)
(* refuses before it calls the provider, whatever the uploads ask for.      *)
(***************************************************************************)
THEOREM UncertifiedStoreGetsNothing ==
  ASSUME Contract.level # "Target-tested"
  PROVE  QSpec => [](\A i \in Ids : governed[i] = {})
<1> DEFINE Empty == \A i \in Ids : governed[i] = {}
<1>1. QInit => Empty
  BY DEF QInit
<1>2. Empty /\ [QNext]_qVars => Empty'
  <2> SUFFICES ASSUME Empty, [QNext]_qVars PROVE governed' = governed
    BY Zenon
  <2>1. \A w \in Workers : PutGoverned(w) => governed' = governed
    BY DEF PutGoverned, GovernedWriteAllowed, Validate
  <2>2. \A i \in Ids :
          SubmitPut(i) \/ SubmitCreate(i) \/ SubmitError(i) \/ QPassExpiry(i) \/ Rot(i) => governed' = governed
    BY DEF SubmitPut, SubmitCreate, SubmitError, QPassExpiry, Rot
  <2>3. \A w \in Workers, i \in Ids :
          ReadExpired(w, i) \/ BeginScan(w, i) \/ BeginPromote(w, i) \/ BeginCleanup(w, i) => governed' = governed
    BY DEF ReadExpired, BeginScan, BeginPromote, BeginCleanup, QBegin
  <2>4. \A w \in Workers :
          Swap(w) \/ Scan(w) \/ ReadObject(w) \/ DeleteObject(w) \/ Die(w) => governed' = governed
    BY DEF Swap, Scan, ReadObject, DeleteObject, Die
  <2> QED BY <2>1, <2>2, <2>3, <2>4 DEF QNext, qVars
<1> QED BY <1>1, <1>2, PTL DEF QSpec

=============================================================================
