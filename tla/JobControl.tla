----------------------------- MODULE JobControl -----------------------------
(***************************************************************************)
(* Controlled jobs (internal/platform/jobcontrol): Apply computes the next *)
(* state of a run, ApplyWithAudit records the transition before it returns *)
(* the new run.  The caller, which is not part of the repository, stores   *)
(* what is returned; it may fail to, after the record was made.            *)
(***************************************************************************)
EXTENDS Naturals, FiniteSets

CONSTANTS JobMaxAttempts,       \* Definition.MaxAttempts, 1 to 100
          BaseDelay, MaxDelay,  \* RetryBaseDelay and RetryMaxDelay
          RequiresApproval, RequiresCompensation,
          JobHorizon            \* bound: the last instant of the clock

\* ValidateDefinition.
JobAssumption ==
  /\ JobMaxAttempts \in Nat \ {0}
  /\ BaseDelay \in Nat \ {0} /\ MaxDelay \in Nat /\ BaseDelay <= MaxDelay
  /\ RequiresApproval \in BOOLEAN /\ RequiresCompensation \in BOOLEAN
  /\ JobHorizon \in Nat

JobStates ==
  {"PENDING", "RUNNING", "SUCCEEDED", "FAILED", "DEAD_LETTER", "COMPENSATION_PENDING",
   "COMPENSATING", "COMPENSATED", "ROLLBACK_PENDING", "ROLLING_BACK", "ROLLED_BACK", "CANCELLED"}

\* requiresApproval: the actions that need an approval in every job.
ApprovedActions ==
  {"REQUEST_COMPENSATION", "START_COMPENSATION", "REQUEST_ROLLBACK", "START_ROLLBACK",
   "COMPLETE_ROLLBACK", "CANCEL"}

\* The actions that only move from given states to a given state.
Simple ==
  {[action |-> "SUCCEED", from |-> {"RUNNING"}, to |-> "SUCCEEDED"],
   [action |-> "REQUEST_COMPENSATION",
    from |-> IF RequiresCompensation THEN {"FAILED", "DEAD_LETTER"} ELSE {},
    to |-> "COMPENSATION_PENDING"],
   [action |-> "START_COMPENSATION", from |-> {"COMPENSATION_PENDING"}, to |-> "COMPENSATING"],
   [action |-> "COMPLETE_COMPENSATION", from |-> {"COMPENSATING"}, to |-> "COMPENSATED"],
   [action |-> "REQUEST_ROLLBACK", from |-> {"SUCCEEDED"}, to |-> "ROLLBACK_PENDING"],
   [action |-> "START_ROLLBACK", from |-> {"ROLLBACK_PENDING"}, to |-> "ROLLING_BACK"],
   [action |-> "COMPLETE_ROLLBACK", from |-> {"ROLLING_BACK"}, to |-> "ROLLED_BACK"],
   [action |-> "CANCEL", from |-> {"PENDING", "FAILED", "DEAD_LETTER"}, to |-> "CANCELLED"]}

VARIABLES
  run,      \* the stored run: state, attempt and next attempt
  trail,    \* the recorded transitions: action, state before and after, approved
  starts,   \* history: how often the stored run has entered RUNNING
  jnow      \* the clock

jobVars == <<run, trail, starts, jnow>>

Runs == [state : JobStates, attempt : 0..JobMaxAttempts, next : 0..(JobHorizon + MaxDelay)]
Entries == [before : JobStates, after : JobStates, approved : BOOLEAN]

JobTypeOK ==
  /\ run \in Runs
  /\ trail \in SUBSET Entries
  /\ starts \in 0..JobMaxAttempts
  /\ jnow \in 0..JobHorizon

JobInit ==
  /\ run = [state |-> "PENDING", attempt |-> 0, next |-> 0]
  /\ trail = {}
  /\ starts = 0
  /\ jnow = 0

\* One round of the loop of retryDelay, from the delay reached so far.
DoubleDelay(delay) == IF delay >= MaxDelay \div 2 THEN MaxDelay ELSE 2 * delay

(* retryDelay: BaseDelay, doubled once per further attempt until MaxDelay. *)
retryDelay[attempt \in Nat] ==
  IF attempt <= 1 THEN BaseDelay ELSE DoubleDelay(retryDelay[attempt - 1])

\* The run that Apply returns for the actions that do more than move.
Started == [run EXCEPT !.state = "RUNNING", !.attempt = 1]
Retried == [run EXCEPT !.state = "RUNNING", !.attempt = @ + 1, !.next = 0]
FailedRun(delay) ==
  IF run.attempt >= JobMaxAttempts
  THEN [run EXCEPT !.state = "DEAD_LETTER", !.next = 0]
  ELSE [run EXCEPT !.state = "FAILED", !.next = jnow + delay]

(* ApplyWithAudit and the caller: the auditor may refuse (nothing changes, *)
(* not even the trail), and the caller may lose the run that was returned. *)
Transition(next, approved) ==
  /\ trail' = trail \cup
       {[before |-> run.state, after |-> next.state, approved |-> approved]}
  /\ \/ run' = next /\ starts' = IF next.state = "RUNNING" THEN starts + 1 ELSE starts
     \/ UNCHANGED <<run, starts>>
  /\ UNCHANGED jnow

Start(approved) ==
  /\ run.state = "PENDING"
  /\ RequiresApproval => approved
  /\ Transition(Started, approved)

\* The delay of the k-th attempt; a definition keeps it within the two bounds.
Fail(approved, delay) ==
  /\ run.state = "RUNNING"
  /\ delay = retryDelay[run.attempt]
  /\ Transition(FailedRun(delay), approved)

Retry(approved) ==
  /\ run.state = "FAILED" /\ run.attempt < JobMaxAttempts
  /\ jnow >= run.next
  /\ Transition(Retried, approved)

Move(s, approved) ==
  /\ run.state \in s.from
  /\ s.action \in ApprovedActions => approved
  /\ Transition([run EXCEPT !.state = s.to], approved)

JobTick == jnow < JobHorizon /\ jnow' = jnow + 1 /\ UNCHANGED <<run, trail, starts>>

JobNext ==
  \/ \E approved \in BOOLEAN :
       \/ Start(approved) \/ Retry(approved)
       \/ \E delay \in BaseDelay..MaxDelay : Fail(approved, delay)
       \/ \E s \in Simple : Move(s, approved)
  \/ JobTick

JobSpec == JobInit /\ [][JobNext]_jobVars

-----------------------------------------------------------------------------
(* PROPERTIES *)

(* A job is started at most MaxAttempts times, DEAD_LETTER means that all  *)
(* of them were used, and FAILED that one is left, whatever records were   *)
(* made of transitions that the caller then lost.                          *)
AttemptsBounded ==
  /\ starts = run.attempt /\ starts <= JobMaxAttempts
  /\ run.state = "DEAD_LETTER" => starts = JobMaxAttempts
  /\ run.state = "FAILED" => starts < JobMaxAttempts

(* Whatever state a stored run is in, the trail has a transition into it,  *)
(* and an approved one for the states of compensation, rollback and        *)
(* cancellation that only an approved action enters.                       *)
TrailExplains ==
  run.state # "PENDING" =>
    \E e \in trail :
      /\ e.after = run.state
      /\ run.state \in {"COMPENSATION_PENDING", "COMPENSATING", "ROLLBACK_PENDING",
                        "ROLLING_BACK", "ROLLED_BACK", "CANCELLED"} => e.approved

(* A run that was compensated, rolled back or cancelled never runs again.  *)
NeverRunsAgain ==
  [][run.state \in {"COMPENSATED", "ROLLED_BACK", "CANCELLED"} => run' = run]_jobVars

=============================================================================
