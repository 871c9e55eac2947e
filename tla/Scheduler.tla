----------------------------- MODULE Scheduler ------------------------------
(***************************************************************************)
(* Periodic jobs on several instances: the loop of                         *)
(* internal/platform/scheduler over the lock of internal/platform/lock,    *)
(* which is one key of the cache (SetNX with a time to live and            *)
(* CompareAndDelete; Redis across instances).                              *)
(*                                                                         *)
(* ttl is the time left of the stored key: at 0 the key is gone for every  *)
(* operation of the cache.  Acquire draws a random token each time, which  *)
(* only has to differ from the tokens that somebody still holds.           *)
(***************************************************************************)
EXTENDS Naturals, FiniteSets

CONSTANTS Instances,    \* the worker processes that run the same job
          LockTtl,      \* the time to live of the lock, in ticks
          MaxJobFaults  \* bound: lost answers and crashes in a behaviour

ASSUME SchedulerAssumption ==
  /\ LockTtl \in Nat \ {0}
  /\ MaxJobFaults \in Nat
  /\ IsFiniteSet(Instances)

VARIABLES
  holder,     \* the token stored under the key (0: never written)
  ttl,        \* the time left until the stored key expires
  doing,      \* doing[i]: what instance i is doing
  lockToken,  \* lockToken[i]: the token of i's lock
  left,       \* left[i]: history, what i has left of the lease it took
  jobFaults

jobVars == <<holder, ttl, doing, lockToken, left, jobFaults>>

Tokens == 0..(Cardinality(Instances) + 1)

\* A token that nobody holds and that is not stored.
NewToken ==
  CHOOSE t \in Tokens \ {0} :
    t \notin {lockToken[i] : i \in Instances} \cup (IF ttl > 0 THEN {holder} ELSE {})

JobTypeOK ==
  /\ holder \in Tokens
  /\ ttl \in 0..LockTtl
  /\ doing \in [Instances -> {"waiting", "running", "releasing"}]
  /\ lockToken \in [Instances -> Tokens]
  /\ left \in [Instances -> 0..LockTtl]
  /\ jobFaults \in 0..MaxJobFaults

JobInit ==
  /\ holder = 0
  /\ ttl = 0
  /\ doing = [i \in Instances |-> "waiting"]
  /\ lockToken = [i \in Instances |-> 0]
  /\ left = [i \in Instances |-> 0]
  /\ jobFaults = 0

\* Mutant: SetNX overwrites the key.
FreeAlways == TRUE

\* Mutant: a key that was written once never expires.
FreeOnce == holder = 0

\* SetNX finds no key, or one that has expired.
Free == ttl = 0

\* Mutant: a busy key is taken over and its time to live extended.
SetNXExtends(t) ==
  /\ holder' = t
  /\ ttl' = ttl + LockTtl

\* The key as SetNX leaves it when it stores token t.
SetNX(t) ==
  /\ Free
  /\ holder' = t
  /\ ttl' = LockTtl

\* Mutant: the key is deleted without comparing its value.
MatchesAny(t) == ttl > 0

\* CompareAndDelete finds its own token under a key that has not expired.
Matches(t) == ttl > 0 /\ holder = t

CompareAndDelete(t) ==
  /\ ttl' = IF Matches(t) THEN 0 ELSE ttl
  /\ UNCHANGED holder

-----------------------------------------------------------------------------
(* The ticker fires and Acquire succeeds: the job starts.  An instance for *)
(* which Acquire fails (ErrBusy) waits for the next tick of its ticker.    *)
Acquire(i) ==
  /\ doing[i] = "waiting"
  /\ SetNX(NewToken)
  /\ lockToken' = [lockToken EXCEPT ![i] = NewToken]
  /\ left' = [left EXCEPT ![i] = LockTtl]
  /\ doing' = [doing EXCEPT ![i] = "running"]
  /\ UNCHANGED jobFaults

\* SetNX took effect but its answer is lost: nobody knows the token.
AcquireUnknown(i) ==
  /\ doing[i] = "waiting" /\ jobFaults < MaxJobFaults
  /\ jobFaults' = jobFaults + 1
  /\ SetNX(NewToken)
  /\ UNCHANGED <<doing, lockToken, left>>

\* The job returns, with or without an error.
FinishJob(i) ==
  /\ doing[i] = "running"
  /\ doing' = [doing EXCEPT ![i] = "releasing"]
  /\ UNCHANGED <<holder, ttl, lockToken, left, jobFaults>>

\* The instance waits for its ticker again.
Wait(i) ==
  /\ doing' = [doing EXCEPT ![i] = "waiting"]
  /\ lockToken' = [lockToken EXCEPT ![i] = 0]
  /\ left' = [left EXCEPT ![i] = 0]

ReleaseLock(i) ==
  /\ doing[i] = "releasing"
  /\ CompareAndDelete(lockToken[i])
  /\ Wait(i)
  /\ UNCHANGED jobFaults

\* The process dies and is restarted, or release returns an error.
JobCrash(i) ==
  /\ doing[i] # "waiting" /\ jobFaults < MaxJobFaults
  /\ jobFaults' = jobFaults + 1
  /\ Wait(i)
  /\ UNCHANGED <<holder, ttl>>

OneLess(n) == IF n = 0 THEN 0 ELSE n - 1

\* Time passes, also while a job is running: nothing ends it with its lease.
JobTick ==
  /\ ttl' = OneLess(ttl)
  /\ left' = [i \in Instances |-> OneLess(left[i])]
  /\ UNCHANGED <<holder, doing, lockToken, jobFaults>>

JobStep(i) == Acquire(i) \/ FinishJob(i) \/ ReleaseLock(i)

JobNext ==
  \/ \E i \in Instances : JobStep(i) \/ AcquireUnknown(i) \/ JobCrash(i)
  \/ JobTick

JobSpec == JobInit /\ [][JobNext]_jobVars

\* Every ticker goes on firing, every job returns, time passes.
JobFairSpec == JobSpec /\ WF_jobVars(JobTick) /\ \A i \in Instances : WF_jobVars(JobStep(i))

-----------------------------------------------------------------------------
Running == {i \in Instances : doing[i] = "running"}

(* RunDistributed executes the job on at most one instance among those     *)
(* whose lease has not run out, in spite of lost answers, dead owners and  *)
(* late releases: two executions overlap only if one has outlived its      *)
(* lease, which no step of the job checks.                                 *)
AtMostOne == Cardinality({i \in Running : left[i] > 0}) <= 1

(* A late release, of an execution that outlived its lease, never removes  *)
(* the lock that another instance has taken meanwhile.                     *)
OnlyOwnerReleases ==
  [][\A i \in Instances :
       doing[i] = "running" /\ doing'[i] = "running" /\ ttl > 0 /\ holder = lockToken[i]
         => ttl' > 0 \/ ttl = 1]_jobVars

(* A lock whose owner died, or never learnt that it has it, blocks the job *)
(* for the rest of its lease only: the job is executed again and again.    *)
JobKeepsRunning == []<>(Running # {})

=============================================================================
