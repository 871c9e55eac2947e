--------------------------- MODULE MessageWorker ---------------------------
(***************************************************************************)
(* The consumer side of the message bus (internal/platform/messageworker): *)
(* the runners of one consumer group receive deliveries, apply each one in *)
(* a database transaction that also records the event in consumed_messages *)
(* and acknowledge it afterwards.                                          *)
(*                                                                         *)
(* A copy is what the bus holds for one successful publish: the outbox may *)
(* publish an event more than once, so several copies may carry one event  *)
(* identity, and a copy may reuse an identity with another body.  The bus  *)
(* itself (RocketMQ) is external: it hides a received copy for a while and *)
(* shows it again unless it is acknowledged, up to a delivery limit.       *)
(***************************************************************************)
EXTENDS Naturals, FiniteSets

CONSTANTS Runners,        \* the worker processes of the consumer group
          Copies,         \* the copies the bus may come to hold
          Events,         \* event identities
          Bodies,         \* the values of messageHash
          EventOf,        \* EventOf[c]: the event identity of copy c
          BodyOf,         \* BodyOf[c]: the hash of the body of copy c
          Malformed,      \* copies that do not decode or have no handler
          MaxDelivery,    \* the delivery limit of the bus
          NoBody, NoCopy

ASSUME CopiesAssumption ==
  /\ EventOf \in [Copies -> Events]
  /\ BodyOf \in [Copies -> Bodies]
  /\ Malformed \subseteq Copies
  /\ NoBody \notin Bodies
  /\ NoCopy \notin Copies
  /\ MaxDelivery \in Nat \ {0}

VARIABLES
  bus,       \* bus[c]: where copy c is
  attempt,   \* attempt[c]: how often the bus has delivered c
  consumed,  \* consumed[e]: the body_hash committed for e, or NoBody
  effects,   \* effects[e]: how many handler transactions for e have committed
  at,        \* at[r]: the next step of runner r
  held,      \* held[r]: the delivery r is processing
  token      \* token[r]: the delivery attempt that r's ack token stands for

copyVars == <<bus, attempt>>
dbVars == <<consumed, effects>>
runnerVars == <<at, held, token>>
consumerVars == <<copyVars, dbVars, runnerVars>>

\* The steps of process inside WithTx: nothing of them is committed yet.
InTx == {"seen", "handle", "mark", "commit"}

ConsumerTypeOK ==
  /\ bus \in [Copies -> {"none", "visible", "hidden", "acked", "dlq"}]
  /\ attempt \in [Copies -> 0..MaxDelivery]
  /\ consumed \in [Events -> Bodies \cup {NoBody}]
  /\ effects \in [Events -> Nat]
  /\ at \in [Runners -> {"receive", "ack", "retry"} \cup InTx]
  /\ held \in [Runners -> Copies \cup {NoCopy}]
  /\ token \in [Runners -> 0..MaxDelivery]

ConsumerInit ==
  /\ bus = [c \in Copies |-> "none"]
  /\ attempt = [c \in Copies |-> 0]
  /\ consumed = [e \in Events |-> NoBody]
  /\ effects = [e \in Events |-> 0]
  /\ at = [r \in Runners |-> "receive"]
  /\ held = [r \in Runners |-> NoCopy]
  /\ token = [r \in Runners |-> 0]

\* The event identity of the delivery that r holds.
Ev(r) == EventOf[held[r]]

\* Mutant: the row records the delivery and not the hash of its body.
HashOfDelivery(r) == held[r]

\* messageHash of the delivery that r holds.
Hash(r) == BodyOf[held[r]]

Goto(r, label) == at' = [at EXCEPT ![r] = label]

-----------------------------------------------------------------------------
\* A publisher hands copy c to the bus.
Publish(c) ==
  /\ bus[c] = "none"
  /\ bus' = [bus EXCEPT ![c] = "visible"]
  /\ UNCHANGED <<attempt, dbVars, runnerVars>>

(* Receive: the bus gives the copy to one runner and hides it.  A delivery *)
(* that does not decode, or whose type has no handler, is retried at once. *)
Receive(r, c) ==
  /\ at[r] = "receive"
  /\ bus[c] = "visible"
  /\ bus' = [bus EXCEPT ![c] = "hidden"]
  /\ attempt' = [attempt EXCEPT ![c] = @ + 1]
  /\ held' = [held EXCEPT ![r] = c]
  /\ token' = [token EXCEPT ![r] = attempt[c] + 1]
  /\ Goto(r, IF c \in Malformed THEN "retry" ELSE "seen")
  /\ UNCHANGED <<dbVars>>

(* The invisible duration of a hidden copy ends, on time, because of       *)
(* Retry, or while a slow runner still works on it.                        *)
Reappear(c) ==
  /\ bus[c] = "hidden"
  /\ bus' = [bus EXCEPT ![c] = IF attempt[c] < MaxDelivery THEN "visible" ELSE "dlq"]
  /\ UNCHANGED <<attempt, dbVars, runnerVars>>

\* Mutant: Seen does not compare the hash.
SeenByIdentity(r) ==
  /\ at[r] = "seen"
  /\ Goto(r, IF consumed[Ev(r)] = NoBody THEN "handle" ELSE "ack")
  /\ UNCHANGED <<copyVars, dbVars, held, token>>

(* Seen reads the committed row: it is a duplicate, an identity conflict   *)
(* or a new event.  A duplicate commits the empty transaction.             *)
Seen(r) ==
  /\ at[r] = "seen"
  /\ Goto(r, CASE consumed[Ev(r)] = NoBody -> "handle"
               [] consumed[Ev(r)] = Hash(r) -> "ack"
               [] OTHER -> "retry")
  /\ UNCHANGED <<copyVars, dbVars, held, token>>

\* The handler runs inside the transaction.
Handle(r) ==
  /\ at[r] = "handle"
  /\ Goto(r, "mark")
  /\ UNCHANGED <<copyVars, dbVars, held, token>>

\* Mutant: Mark is an upsert.
MarkUpsert(r) ==
  /\ at[r] = "mark"
  /\ Goto(r, "commit")
  /\ UNCHANGED <<copyVars, dbVars, held, token>>

(* Mark inserts the row whose primary key is the group and the event: it   *)
(* waits for another transaction that has inserted the same key and fails  *)
(* if that one has committed.                                              *)
Mark(r) ==
  /\ at[r] = "mark"
  /\ \A q \in Runners \ {r} : ~(at[q] = "commit" /\ Ev(q) = Ev(r))
  /\ Goto(r, IF consumed[Ev(r)] = NoBody THEN "commit" ELSE "retry")
  /\ UNCHANGED <<copyVars, dbVars, held, token>>

\* Commit makes the row and the handler's writes visible together.
CommitTo(r, label) ==
  /\ at[r] = "commit"
  /\ consumed' = [consumed EXCEPT ![Ev(r)] = Hash(r)]
  /\ effects' = [effects EXCEPT ![Ev(r)] = @ + 1]
  /\ Goto(r, label)
  /\ UNCHANGED <<copyVars, held, token>>

Commit(r) == CommitTo(r, "ack")

\* The commit takes effect but its answer is lost: process sees an error.
CommitUnknown(r) == CommitTo(r, "retry")

\* A statement or the handler fails: WithTx rolls back, process calls Retry.
Fail(r) ==
  /\ at[r] \in InTx
  /\ Goto(r, "retry")
  /\ UNCHANGED <<copyVars, dbVars, held, token>>

\* The runner is done with its delivery, whatever became of it.
Drop(r) ==
  /\ Goto(r, "receive")
  /\ held' = [held EXCEPT ![r] = NoCopy]
  /\ token' = [token EXCEPT ![r] = 0]

(* Ack: the bus takes it only for the delivery it was issued for; for a    *)
(* later one, or when the call fails, process returns the error.           *)
Ack(r) ==
  /\ at[r] = "ack"
  /\ bus[held[r]] = "hidden" /\ attempt[held[r]] = token[r]
  /\ bus' = [bus EXCEPT ![held[r]] = "acked"]
  /\ Drop(r)
  /\ UNCHANGED <<attempt, dbVars>>

AckError(r) ==
  /\ at[r] = "ack"
  /\ Drop(r)
  /\ UNCHANGED <<copyVars, dbVars>>

\* Mutant: a delivery that has to be retried ends the runner.
RetryStopsRunner(r) ==
  /\ at[r] = "retry"
  /\ Goto(r, "stopped")
  /\ UNCHANGED <<copyVars, dbVars, held, token>>

(* consumer.Retry changes the invisible duration, or fails: in both cases  *)
(* the copy stays hidden until Reappear.                                   *)
RetryDelivery(r) ==
  /\ at[r] = "retry"
  /\ Drop(r)
  /\ UNCHANGED <<copyVars, dbVars>>

\* The process dies: the open transaction is rolled back.
Crash(r) ==
  /\ at[r] # "receive"
  /\ Drop(r)
  /\ UNCHANGED <<copyVars, dbVars>>

Process(r) ==
  \/ Seen(r)
  \/ Handle(r)
  \/ Mark(r)
  \/ Commit(r)
  \/ Ack(r)
  \/ AckError(r)
  \/ RetryDelivery(r)

ConsumerNext ==
  \/ \E c \in Copies : Publish(c) \/ Reappear(c)
  \/ \E r \in Runners :
       \/ \E c \in Copies : Receive(r, c)
       \/ Process(r)
       \/ CommitUnknown(r) \/ Fail(r) \/ Crash(r)

ConsumerSpec == ConsumerInit /\ [][ConsumerNext]_consumerVars

(* Run keeps receiving and process returns; the bus shows a hidden copy    *)
(* again.  Nothing is assumed of the outcome of a handler, commit or ack.  *)
ConsumerFairness ==
  /\ \A c \in Copies : WF_consumerVars(Reappear(c))
  /\ \A r \in Runners :
       /\ WF_consumerVars(Process(r))
       /\ WF_consumerVars(\E c \in Copies : Receive(r, c))

ConsumerFairSpec == ConsumerSpec /\ ConsumerFairness

-----------------------------------------------------------------------------
(* The handler's database effects are committed at most once per event,    *)
(* although runners race between Seen and Mark, commits report errors,     *)
(* acks get lost and the publisher repeats itself.                         *)
ExactlyOnceEffect == \A e \in Events : effects[e] <= 1

(* No delivery is acknowledged, and so forgotten by the bus, before its    *)
(* own content has been applied: an event that reuses an identity with     *)
(* another body is never swallowed as a duplicate.                         *)
AckedWasApplied ==
  \A c \in Copies : bus[c] = "acked" =>
    /\ consumed[EventOf[c]] = BodyOf[c]
    /\ effects[EventOf[c]] = 1

(* Every copy the bus holds is acknowledged or ends in the dead-letter     *)
(* queue: none is received and forgotten by a runner that fails or dies.   *)
EveryCopySettles ==
  \A c \in Copies : bus[c] # "none" ~> bus[c] \in {"acked", "dlq"}

=============================================================================
