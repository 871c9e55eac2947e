---------------------------- MODULE ReliableMsg ----------------------------
(***************************************************************************)
(* The local reliable-message table (internal/platform/reliablemsg): rows  *)
(* are inserted in the business transaction and published to the message   *)
(* bus by several worker processes, each running PublishBatch in a loop    *)
(* (cmd/worker).  One database statement is one step; between any two of   *)
(* them another worker may run, time may pass, or the process may die.     *)
(*                                                                         *)
(* The column next_attempt_at is modelled by wait[m], the time that is     *)
(* left until it is due: "next_attempt_at <= now" is wait[m] = 0.  Rows    *)
(* are numbered in the order of created_at.                                *)
(***************************************************************************)
EXTENDS Naturals, FiniteSets

CONSTANTS Workers,      \* the worker processes
          NumMessages,  \* bound: how many messages are ever enqueued
          MaxAttempts,  \* 12 in the code: failed attempts before DEAD
          BackoffCap,   \* 8 in the code: the largest exponent of the backoff
          Lease,        \* processingLease, in ticks of the clock
          BatchLimit,   \* the limit of one PublishBatch
          MaxFaults,    \* bound: crashes and database errors in a behaviour
          AllowOverrun  \* may a worker be slower than the lease it took?

Messages == 1..NumMessages

Min2(a, b) == IF a < b THEN a ELSE b

RetryDelay(n) == 2 ^ Min2(n, BackoffCap)

ASSUME ConstantsAssumption ==
  /\ NumMessages \in Nat
  /\ MaxAttempts \in Nat \ {0}
  /\ Lease \in Nat \ {0, 1}
  /\ BatchLimit \in Nat \ {0}
  /\ MaxFaults \in Nat
  /\ AllowOverrun \in BOOLEAN

\* The backoff 2^n is a positive number of seconds for every n that retry uses.
ASSUME RetryDelayAssumption ==
  \A n \in 1..MaxAttempts : RetryDelay(n) \in Nat \ {0}

Statuses == {"NONE", "PENDING", "PROCESSING", "PUBLISHED", "DEAD"}

\* What the query of one batch returns for a row: the key and a copy of attempts.
Items == [id : Messages, attempts : 0..(MaxAttempts - 1)]

VARIABLES
  status,    \* status[m]: the row's status; NONE before the row exists
  attempts,  \* attempts[m]: the row's failed attempts
  wait,      \* wait[m]: time until next_attempt_at
  pc,        \* pc[w]: the next statement of worker w
  batch,     \* batch[w]: the items of the batch that w has not reached
  cur,       \* cur[w]: the item that w is working on
  lease,     \* lease[w]: history, what is left of the lease of w's claim
  accepted,  \* the messages the bus has accepted at least once
  failures,  \* failures[m]: history, failed publishes (saturates at MaxAttempts)
  faults     \* how many faults have happened

rowVars == <<status, attempts, wait>>
workerVars == <<pc, batch, cur, lease>>
busVars == <<accepted, failures>>
vars == <<rowVars, workerVars, busVars, faults>>

NoItem == [id |-> 0, attempts |-> 0]

\* The program counters at which a worker holds the claim it took on cur[w].
Claimed == {"publish", "mark", "retry"}

TypeOK ==
  /\ status \in [Messages -> Statuses]
  /\ attempts \in [Messages -> 0..MaxAttempts]
  /\ wait \in [Messages -> Nat]
  /\ pc \in [Workers -> {"idle", "query", "loop"} \cup Claimed]
  /\ batch \in [Workers -> SUBSET Items]
  /\ cur \in [Workers -> Items \cup {NoItem}]
  /\ lease \in [Workers -> 0..Lease]
  /\ accepted \in SUBSET Messages
  /\ failures \in [Messages -> 0..MaxAttempts]
  /\ faults \in 0..MaxFaults

Init ==
  /\ status = [m \in Messages |-> "NONE"]
  /\ attempts = [m \in Messages |-> 0]
  /\ wait = [m \in Messages |-> 0]
  /\ pc = [w \in Workers |-> "idle"]
  /\ batch = [w \in Workers |-> {}]
  /\ cur = [w \in Workers |-> NoItem]
  /\ lease = [w \in Workers |-> 0]
  /\ accepted = {}
  /\ failures = [m \in Messages |-> 0]
  /\ faults = 0

-----------------------------------------------------------------------------
(* The business transaction that calls EnqueueTx commits.                  *)
Enqueue(m) ==
  /\ status[m] = "NONE"
  /\ \A k \in Messages : k < m => status[k] # "NONE"
  /\ status' = [status EXCEPT ![m] = "PENDING"]
  /\ attempts' = [attempts EXCEPT ![m] = 0]
  /\ wait' = [wait EXCEPT ![m] = 0]
  /\ UNCHANGED <<workerVars, busVars, faults>>

\* Mutant: no claim is ever recovered.
ExpiredNever == {}

\* The claims whose lease has run out.
Expired == {m \in Messages : status[m] = "PROCESSING" /\ wait[m] = 0}

(* PublishBatch starts: recoverExpiredClaims is one UPDATE.                *)
RecoverExpiredClaims(w) ==
  /\ pc[w] = "idle"
  /\ status' = [m \in Messages |-> IF m \in Expired THEN "PENDING" ELSE status[m]]
  /\ pc' = [pc EXCEPT ![w] = "query"]
  /\ UNCHANGED <<attempts, wait, batch, cur, lease, busVars, faults>>

\* Mutant: pending forgets the condition on status.
DueWhateverStatus == {m \in Messages : status[m] # "NONE" /\ wait[m] = 0}

\* The rows the query of pending selects.
Due == {m \in Messages : status[m] = "PENDING" /\ wait[m] = 0}

(* SELECT ... WHERE status='PENDING' AND next_attempt_at<=now               *)
(* ORDER BY created_at LIMIT limit, read into memory.                      *)
Pending(w) ==
  /\ pc[w] = "query"
  /\ LET oldest == {m \in Due : Cardinality({k \in Due : k < m}) < BatchLimit}
     IN  batch' = [batch EXCEPT ![w] =
                     {[id |-> m, attempts |-> attempts[m]] : m \in oldest}]
  /\ pc' = [pc EXCEPT ![w] = "loop"]
  /\ UNCHANGED <<rowVars, cur, lease, busVars, faults>>

\* The loop is over: PublishBatch returns and the worker waits for its ticker.
EndBatch(w) ==
  /\ pc[w] = "loop"
  /\ batch[w] = {}
  /\ pc' = [pc EXCEPT ![w] = "idle"]
  /\ UNCHANGED <<rowVars, batch, cur, lease, busVars, faults>>

\* Mutant: the UPDATE has no condition on the status.
ClaimAnyItem(w, e) ==
  /\ pc[w] = "loop"
  /\ batch' = [batch EXCEPT ![w] = @ \ {e}]
  /\ status' = [status EXCEPT ![e.id] = "PROCESSING"]
  /\ wait' = [wait EXCEPT ![e.id] = Lease]
  /\ lease' = [lease EXCEPT ![w] = Lease]
  /\ cur' = [cur EXCEPT ![w] = e]
  /\ pc' = [pc EXCEPT ![w] = "publish"]
  /\ UNCHANGED <<attempts, busVars, faults>>

(* claim: UPDATE ... SET status='PROCESSING', next_attempt_at=now+lease     *)
(* WHERE id=? AND status='PENDING'; a row already taken is skipped.  The   *)
(* loop takes the items in the order of created_at.                        *)
ClaimItem(w, e) ==
  /\ pc[w] = "loop"
  /\ \A f \in batch[w] : e.id <= f.id
  /\ batch' = [batch EXCEPT ![w] = @ \ {e}]
  /\ \/ /\ status[e.id] = "PENDING"
        /\ status' = [status EXCEPT ![e.id] = "PROCESSING"]
        /\ wait' = [wait EXCEPT ![e.id] = Lease]
        /\ lease' = [lease EXCEPT ![w] = Lease]
        /\ cur' = [cur EXCEPT ![w] = e]
        /\ pc' = [pc EXCEPT ![w] = "publish"]
     \/ /\ status[e.id] # "PENDING"
        /\ UNCHANGED <<status, wait, lease, cur, pc>>
  /\ UNCHANGED <<attempts, busVars, faults>>

Claim(w) == \E e \in batch[w] : ClaimItem(w, e)

\* bus.Publish returns no error: the bus has accepted the message.
PublishOk(w) ==
  /\ pc[w] = "publish"
  /\ accepted' = accepted \cup {cur[w].id}
  /\ pc' = [pc EXCEPT ![w] = "mark"]
  /\ UNCHANGED <<rowVars, batch, cur, lease, failures, faults>>

\* Mutant: an error of bus.Publish is taken for success.
PublishErrorIgnored(w) ==
  /\ pc[w] = "publish"
  /\ pc' = [pc EXCEPT ![w] = "mark"]
  /\ UNCHANGED <<rowVars, batch, cur, lease, busVars, faults>>

(* The stored message does not decode, or bus.Publish returns an error.    *)
(* The bus may have accepted the message all the same (a lost answer).     *)
PublishError(w) ==
  /\ pc[w] = "publish"
  /\ \/ accepted' = accepted
     \/ accepted' = accepted \cup {cur[w].id}
  /\ failures' = [failures EXCEPT ![cur[w].id] = Min2(@ + 1, MaxAttempts)]
  /\ pc' = [pc EXCEPT ![w] = "retry"]
  /\ UNCHANGED <<rowVars, batch, cur, lease, faults>>

\* The worker is done with cur[w] and goes on with its loop.
Release(w) ==
  /\ pc' = [pc EXCEPT ![w] = "loop"]
  /\ cur' = [cur EXCEPT ![w] = NoItem]
  /\ lease' = [lease EXCEPT ![w] = 0]

\* published: UPDATE ... SET status='PUBLISHED' WHERE id=?, whatever the row is.
Published(w) ==
  /\ pc[w] = "mark"
  /\ status' = [status EXCEPT ![cur[w].id] = "PUBLISHED"]
  /\ Release(w)
  /\ UNCHANGED <<attempts, wait, batch, busVars, faults>>

\* Mutant: the budget is one attempt short.
StatusAfterEarly(n) == IF n + 1 >= MaxAttempts THEN "DEAD" ELSE "PENDING"

\* The status of a row after its n-th failed attempt.
StatusAfter(n) == IF n >= MaxAttempts THEN "DEAD" ELSE "PENDING"

(* retry: attempts is the copy read with the batch plus one; the UPDATE    *)
(* has no condition on the row either.                                     *)
Retry(w) ==
  /\ pc[w] = "retry"
  /\ LET m == cur[w].id
         n == cur[w].attempts + 1
     IN  /\ status' = [status EXCEPT ![m] = StatusAfter(n)]
         /\ attempts' = [attempts EXCEPT ![m] = n]
         /\ wait' = [wait EXCEPT ![m] = RetryDelay(n)]
  /\ Release(w)
  /\ UNCHANGED <<batch, busVars, faults>>

(* PublishBatch returns early on a database error, or the process dies and *)
(* is restarted: what it had in memory is lost.  A statement that took     *)
(* effect although it reported an error is that statement followed by this.*)
Abort(w) ==
  /\ pc[w] # "idle"
  /\ faults < MaxFaults
  /\ faults' = faults + 1
  /\ pc' = [pc EXCEPT ![w] = "idle"]
  /\ batch' = [batch EXCEPT ![w] = {}]
  /\ cur' = [cur EXCEPT ![w] = NoItem]
  /\ lease' = [lease EXCEPT ![w] = 0]
  /\ UNCHANGED <<rowVars, busVars>>

Decrement(n) == IF n = 0 THEN 0 ELSE n - 1

(* Time passes.  Unless AllowOverrun, no lease runs out while the worker   *)
(* that took it is still publishing.                                       *)
Tick ==
  /\ AllowOverrun \/ \A w \in Workers : pc[w] \in Claimed => lease[w] > 1
  /\ wait' = [m \in Messages |-> Decrement(wait[m])]
  /\ lease' = [w \in Workers |-> Decrement(lease[w])]
  /\ UNCHANGED <<status, attempts, pc, batch, cur, busVars, faults>>

\* The statements of PublishBatch, and the ways it goes on.
Step(w) ==
  \/ RecoverExpiredClaims(w)
  \/ Pending(w)
  \/ EndBatch(w)
  \/ Claim(w)
  \/ PublishOk(w)
  \/ PublishError(w)
  \/ Published(w)
  \/ Retry(w)

Next ==
  \/ \E m \in Messages : Enqueue(m)
  \/ \E w \in Workers : Step(w) \/ Abort(w)
  \/ Tick

Spec == Init /\ [][Next]_vars

(* The worker's ticker calls PublishBatch every second and the calls it    *)
(* makes return; time goes on.  Whether a publish succeeds is not assumed. *)
Fairness == WF_vars(Tick) /\ \A w \in Workers : WF_vars(Step(w))

FairSpec == Spec /\ Fairness

-----------------------------------------------------------------------------
(* PROPERTIES *)

Settled == {"PUBLISHED", "DEAD"}

(* At-least-once: a row is marked PUBLISHED only if the bus has accepted   *)
(* its message, whatever the interleaving of claims, late answers, lease   *)
(* recoveries and crashes of the workers that share the table.             *)
PublishedWasAccepted ==
  \A m \in Messages : status[m] = "PUBLISHED" => m \in accepted

(* retry gives a message up (DEAD) only after MaxAttempts publishes of it  *)
(* have really failed, although it counts from a copy of attempts that     *)
(* other workers may have made stale.                                      *)
DeadAfterBudget ==
  \A m \in Messages : status[m] = "DEAD" => failures[m] >= MaxAttempts

(* While no worker outlives its lease, the conditional UPDATE of claim     *)
(* lets at most one worker publish a message at a time.                    *)
ExclusiveClaim ==
  ~AllowOverrun =>
    \A v, w \in Workers :
      v # w /\ pc[v] \in Claimed /\ pc[w] \in Claimed => cur[v].id # cur[w].id

(* While no worker outlives its lease, no late published or retry, which   *)
(* test neither the status nor the owner of the row, takes a row out of    *)
(* PUBLISHED or DEAD again.                                                *)
SettledIsFinal ==
  [][~AllowOverrun =>
       \A m \in Messages : status[m] \in Settled => status'[m] = status[m]]_vars

(* Every enqueued message ends PUBLISHED or DEAD and stays so: neither a   *)
(* crash after a claim, nor a late writer, nor a lost increment of         *)
(* attempts keeps a message in the table forever.                          *)
EventuallySettled ==
  \A m \in Messages : status[m] # "NONE" ~> [](status[m] \in Settled)

(* The table implements Outbox while no worker outlives its lease.         *)
OutboxState(s) ==
  CASE s = "NONE" -> "none"
    [] s \in {"PENDING", "PROCESSING"} -> "open"
    [] s = "PUBLISHED" -> "sent"
    [] s = "DEAD" -> "dead"

O == INSTANCE Outbox WITH
       Message <- Messages,
       state <- [m \in Messages |-> OutboxState(status[m])],
       delivered <- accepted

(* Every behaviour of the table and its workers is a behaviour of Outbox:  *)
(* no message is handed to the bus or changed once it is closed, and it is *)
(* closed as sent only after the bus has accepted it.                      *)
ImplementsOutbox == O!Spec

=============================================================================
