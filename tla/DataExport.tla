----------------------------- MODULE DataExport -----------------------------
(***************************************************************************)
(* Governed exports: the one-time download tickets of                      *)
(* internal/platform/security/datapolicy, their rows (repository           *)
(* download_artifact.go), the API handlers that download and revoke, and   *)
(* the cleanup job of cmd/worker.                                          *)
(*                                                                         *)
(* A ticket is a database row and an object in the object store, which     *)
(* share no transaction.  DownloadDataExport runs Open inside the          *)
(* transaction of its audit record: it locks the row, deletes the object   *)
(* and only then commits.  Every other write is a transaction of its own.  *)
(* due[a] says that the clock has reached expires_at.                      *)
(***************************************************************************)
EXTENDS Naturals, Sequences, SequencesExt

CONSTANTS Artifacts,       \* export tickets
          Callers,         \* concurrent calls of the API handlers
          Workers,         \* concurrent executions of the cleanup job
          Broken,          \* tickets whose object can never be deleted
          BatchLimit,      \* the limit of CleanupPending
          MaxFaults,       \* bound: failed calls and crashes in a behaviour
          NoArtifact

ASSUME ExportAssumption ==
  /\ Broken \subseteq Artifacts
  /\ BatchLimit \in Nat \ {0}
  /\ MaxFaults \in Nat
  /\ NoArtifact \notin Artifacts
  /\ Callers \cap Workers = {}

Procs == Callers \cup Workers

Final == {"Downloaded", "Revoked", "Expired"}
Statuses == {"NONE", "Ready", "CleanupPending"} \cup Final

VARIABLES
  status,      \* status[a]: the committed status; NONE before the row exists
  downloaded,  \* downloaded[a]: downloaded_at is set
  revoked,     \* revoked[a]: revoked_at is set
  object,      \* the tickets whose object is in the store
  due,         \* due[a]: expires_at <= now
  order,       \* the CleanupPending rows by updated_at
  pc,          \* pc[p]: the next step of process p
  art,         \* art[p]: the ticket p is working on
  copy,        \* copy[p]: the status p has read, or is about to commit
  back,        \* back[p]: where p goes on after cleanupArtifact
  todo,        \* todo[w]: what is left of the list worker w has read
  received,    \* received[a]: history, how many calls returned the bytes
  outcome,     \* outcome[a]: history, why the ticket was closed
  abandoned,   \* history, closed tickets whose cleanup ended with its process
  faults

rowVars == <<status, downloaded, revoked, order, outcome>>
procVars == <<pc, art, copy, back, todo>>
faultVars == <<abandoned, faults>>
vars == <<rowVars, object, due, procVars, received, faultVars>>

Init ==
  /\ status = [a \in Artifacts |-> "NONE"]
  /\ downloaded = [a \in Artifacts |-> FALSE]
  /\ revoked = [a \in Artifacts |-> FALSE]
  /\ object = {}
  /\ due = [a \in Artifacts |-> FALSE]
  /\ order = <<>>
  /\ pc = [p \in Procs |-> "idle"]
  /\ art = [p \in Procs |-> NoArtifact]
  /\ copy = [p \in Procs |-> "NONE"]
  /\ back = [p \in Procs |-> "idle"]
  /\ todo = [w \in Workers |-> {}]
  /\ received = [a \in Artifacts |-> 0]
  /\ outcome = [a \in Artifacts |-> "NONE"]
  /\ abandoned = {}
  /\ faults = 0

TypeOK ==
  /\ status \in [Artifacts -> Statuses]
  /\ downloaded \in [Artifacts -> BOOLEAN]
  /\ revoked \in [Artifacts -> BOOLEAN]
  /\ object \subseteq Artifacts
  /\ due \in [Artifacts -> BOOLEAN]
  /\ order \in Seq(Artifacts) /\ IsInjective(order)
  /\ pc \in [Procs -> {"idle", "create", "discard", "fetch", "claim", "consume", "audit",
                       "get", "remove", "mark", "complete", "expiring", "cleaning"}]
  /\ art \in [Procs -> Artifacts \cup {NoArtifact}]
  /\ copy \in [Procs -> Statuses]
  /\ back \in [Procs -> {"idle", "expiring", "cleaning"}]
  /\ todo \in [Workers -> SUBSET Artifacts]
  /\ received \in [Artifacts -> Nat]
  /\ outcome \in [Artifacts -> {"NONE"} \cup Final]
  /\ abandoned \subseteq Artifacts
  /\ faults \in 0..MaxFaults

-----------------------------------------------------------------------------
Goto(p, label) == pc' = [pc EXCEPT ![p] = label]

\* The row is locked FOR UPDATE by a download that has not committed.
Locked(a) == \E c \in Callers : art[c] = a /\ pc[c] \in {"consume", "audit"}

\* One of the bounded number of failures.
Fault == faults < MaxFaults /\ faults' = faults + 1 /\ UNCHANGED abandoned

\* objects.Delete returns no error, also if there is no such object (S3).
DeleteOk(a) ==
  /\ a \notin Broken
  /\ object' = object \ {a}
  /\ UNCHANGED faultVars

(* objects.Delete returns an error: because it always does, or once in a   *)
(* while, when it may have taken effect.                                   *)
DeleteError(a) ==
  \/ /\ a \in Broken
     /\ UNCHANGED <<object, faultVars>>
  \/ /\ Fault
     /\ object' = object \/ (a \notin Broken /\ object' = object \ {a})

(* The process is done with its ticket: a call returns, the job goes on    *)
(* with the list it is working through.                                    *)
Done(p, next) ==
  /\ pc' = [pc EXCEPT ![p] = next]
  /\ art' = [art EXCEPT ![p] = NoArtifact]
  /\ copy' = [copy EXCEPT ![p] = "NONE"]

-----------------------------------------------------------------------------
(* Publish: the object is stored before the row is created.                *)
PublishPut(c, a) ==
  /\ pc[c] = "idle" /\ status[a] = "NONE" /\ a \notin object
  /\ \A p \in Procs : art[p] # a
  /\ object' = object \cup {a}
  /\ art' = [art EXCEPT ![c] = a]
  /\ Goto(c, "create")
  /\ UNCHANGED <<rowVars, due, back, copy, todo, received, faultVars>>

PublishCreate(c) ==
  /\ pc[c] = "create"
  /\ status' = [status EXCEPT ![art[c]] = "Ready"]
  /\ Done(c, "idle")
  /\ UNCHANGED <<downloaded, revoked, order, outcome, object, due, back, todo, received, faultVars>>

\* registry.Create fails: the object is deleted again, if that works.
PublishCreateError(c) ==
  /\ pc[c] = "create"
  /\ Fault
  /\ Goto(c, "discard")
  /\ UNCHANGED <<rowVars, object, due, back, art, copy, todo, received>>

PublishDiscard(c) ==
  /\ pc[c] = "discard"
  /\ DeleteOk(art[c]) \/ DeleteError(art[c])
  /\ Done(c, "idle")
  /\ UNCHANGED <<rowVars, due, back, todo, received>>

-----------------------------------------------------------------------------
(* Open: the checks on the row it reads first, without a lock.             *)
Open(c, a) ==
  /\ pc[c] = "idle"
  /\ status[a] = "Ready" /\ ~due[a]
  /\ art' = [art EXCEPT ![c] = a]
  /\ Goto(c, "fetch")
  /\ UNCHANGED <<rowVars, object, due, back, copy, todo, received, faultVars>>

\* objects.Get: the bytes are in memory, or the call fails.
Fetch(c) ==
  /\ pc[c] = "fetch"
  /\ \/ art[c] \in object /\ Goto(c, "claim") /\ UNCHANGED <<art, copy>>
     \/ art[c] \notin object /\ Done(c, "idle")
  /\ UNCHANGED <<rowVars, object, due, back, todo, received, faultVars>>

\* Mutant: the ticket is not checked again under the lock.
ClaimableUnchecked(a) == status[a] # "NONE"

\* validateClaimable on the row that has just been locked.
Claimable(a) == status[a] = "Ready" /\ ~due[a]

(* ClaimDownload waits for the row lock and checks again; if it refuses,   *)
(* the transaction, and with it the UPDATE to Expired, is rolled back.     *)
ClaimDownload(c) ==
  /\ pc[c] = "claim" /\ ~Locked(art[c])
  /\ \/ Claimable(art[c]) /\ Goto(c, "consume") /\ UNCHANGED <<art, copy>>
     \/ ~Claimable(art[c]) /\ Done(c, "idle")
  /\ UNCHANGED <<rowVars, object, due, back, todo, received, faultVars>>

\* Open deletes the object of the claimed ticket, or marks it for cleanup.
Consume(c) ==
  /\ pc[c] = "consume"
  /\ \/ DeleteOk(art[c]) /\ copy' = [copy EXCEPT ![c] = "Downloaded"]
     \/ DeleteError(art[c]) /\ copy' = [copy EXCEPT ![c] = "CleanupPending"]
  /\ Goto(c, "audit")
  /\ UNCHANGED <<rowVars, due, back, art, todo, received>>

\* The effect of the download's commit on the row.
CommitDownload(c) ==
  /\ pc[c] = "audit"
  /\ status' = [status EXCEPT ![art[c]] = copy[c]]
  /\ downloaded' = [downloaded EXCEPT ![art[c]] = TRUE]
  /\ outcome' = [outcome EXCEPT ![art[c]] = "Downloaded"]
  /\ order' = IF copy[c] = "CleanupPending" THEN Append(order, art[c]) ELSE order
  /\ Done(c, "idle")
  /\ UNCHANGED <<revoked, object, due, back, todo>>

\* The audit record is written, the commit succeeds, the call answers.
Deliver(c) ==
  /\ CommitDownload(c)
  /\ received' = [received EXCEPT ![art[c]] = @ + 1]
  /\ UNCHANGED faultVars

\* The commit takes effect but reports an error: the caller gets no bytes.
DeliverUnknown(c) ==
  /\ CommitDownload(c)
  /\ Fault
  /\ UNCHANGED received

(* audit.Write or the commit fails, or an earlier statement of the         *)
(* download does: the row is as before, the deleted object is not.         *)
RollbackDownload(c) ==
  /\ pc[c] \in {"fetch", "claim", "consume", "audit"}
  /\ Fault
  /\ Done(c, "idle")
  /\ UNCHANGED <<rowVars, object, due, back, todo, received>>

-----------------------------------------------------------------------------
\* Mutant: any ticket that is not revoked yet can be revoked.
RevocableTwice(a) == status[a] \notin {"NONE", "Revoked"}

Revocable(a) == status[a] = "Ready"

\* RevokeDataExport: the state first, in a transaction with the audit record.
Revoke(c, a) ==
  /\ pc[c] = "idle" /\ ~Locked(a)
  /\ Revocable(a)
  /\ status' = [status EXCEPT ![a] = "Revoked"]
  /\ revoked' = [revoked EXCEPT ![a] = TRUE]
  /\ outcome' = [outcome EXCEPT ![a] = IF @ = "NONE" THEN "Revoked" ELSE @]
  /\ art' = [art EXCEPT ![c] = a]
  /\ Goto(c, "get")
  /\ UNCHANGED <<downloaded, order, object, due, back, copy, todo, received, faultVars>>

(* Cleanup reads the row again, without a lock.                            *)
CleanupGet(p) ==
  /\ pc[p] = "get"
  /\ \/ /\ status[art[p]] \in {"CleanupPending", "Revoked", "Expired"}
        /\ copy' = [copy EXCEPT ![p] = status[art[p]]]
        /\ Goto(p, "remove")
        /\ UNCHANGED art
     \/ /\ status[art[p]] \notin {"CleanupPending", "Revoked", "Expired"}
        /\ Done(p, back[p])
  /\ UNCHANGED <<rowVars, object, due, back, todo, received, faultVars>>

(* cleanupArtifact deletes the object; a record that was read as           *)
(* CleanupPending is then completed, a failure is marked.                  *)
RemoveObject(p) ==
  /\ pc[p] = "remove"
  /\ \/ DeleteOk(art[p]) /\ copy[p] = "CleanupPending"
        /\ Goto(p, "complete") /\ UNCHANGED <<art, copy>>
     \/ DeleteOk(art[p]) /\ copy[p] # "CleanupPending" /\ Done(p, back[p])
     \/ DeleteError(art[p]) /\ Goto(p, "mark") /\ UNCHANGED <<art, copy>>
  /\ UNCHANGED <<rowVars, due, back, todo, received>>

\* Mutant: the UPDATE has no condition on the status.
MarkableAlways(a) == TRUE

Markable(a) == status[a] \in Final

\* MarkCleanupPending: one conditional UPDATE.
MarkCleanupPending(p) ==
  /\ pc[p] = "mark" /\ ~Locked(art[p])
  /\ \/ /\ Markable(art[p])
        /\ status' = [status EXCEPT ![art[p]] = "CleanupPending"]
        /\ order' = Append(order, art[p])
     \/ ~Markable(art[p]) /\ UNCHANGED <<status, order>>
  /\ Done(p, back[p])
  /\ UNCHANGED <<downloaded, revoked, outcome, object, due, back, todo, received, faultVars>>

\* Mutant: a record with neither timestamp becomes available again.
OutcomeReopens(a) ==
  IF revoked[a] THEN "Revoked" ELSE IF downloaded[a] THEN "Downloaded" ELSE "Ready"

\* CompleteCleanup: the status that the timestamps of the row stand for.
OutcomeOf(a) ==
  IF revoked[a] THEN "Revoked" ELSE IF downloaded[a] THEN "Downloaded" ELSE "Expired"

\* The place of ticket a among the CleanupPending rows.
Position(a) == CHOOSE i \in DOMAIN order : order[i] = a

CompleteCleanup(p) ==
  /\ pc[p] = "complete" /\ ~Locked(art[p])
  /\ \/ /\ status[art[p]] = "CleanupPending"
        /\ status' = [status EXCEPT ![art[p]] = OutcomeOf(art[p])]
        /\ order' = RemoveAt(order, Position(art[p]))
     \/ status[art[p]] # "CleanupPending" /\ UNCHANGED <<status, order>>
  /\ Done(p, back[p])
  /\ UNCHANGED <<downloaded, revoked, outcome, object, due, back, todo, received, faultVars>>

-----------------------------------------------------------------------------
\* The tickets that are due.
ExpiredReady == {a \in Artifacts : status[a] = "Ready" /\ due[a]}

(* The job: ExpirePending over at most BatchLimit of the tickets that are  *)
(* due (which of them expired first is left open), then CleanupPending     *)
(* over the oldest BatchLimit records.                                     *)
ListExpiredReady(w) ==
  /\ pc[w] = "idle"
  /\ \E page \in SUBSET ExpiredReady :
       /\ Cardinality(page) <= BatchLimit
       /\ Cardinality(page) = BatchLimit \/ page = ExpiredReady
       /\ todo' = [todo EXCEPT ![w] = page]
  /\ Goto(w, "expiring")
  /\ UNCHANGED <<rowVars, object, due, back, art, copy, received, faultVars>>

\* ExpireState on the next ticket of the list; one that was closed is skipped.
Expire(w, a) ==
  /\ pc[w] = "expiring" /\ a \in todo[w] /\ ~Locked(a)
  /\ todo' = [todo EXCEPT ![w] = @ \ {a}]
  /\ \/ /\ status[a] = "Ready"
        /\ status' = [status EXCEPT ![a] = "Expired"]
        /\ outcome' = [outcome EXCEPT ![a] = "Expired"]
        /\ art' = [art EXCEPT ![w] = a]
        /\ copy' = [copy EXCEPT ![w] = "Expired"]
        /\ Goto(w, "remove")
     \/ status[a] # "Ready" /\ UNCHANGED <<status, outcome, art, copy, pc>>
  /\ back' = [back EXCEPT ![w] = "expiring"]
  /\ UNCHANGED <<downloaded, revoked, order, object, due, received, faultVars>>

\* Mutant: the first record that cannot be cleaned up ends the job.
CleanupBatchStops == {order[i] : i \in {j \in DOMAIN order : j <= 1}}

\* ListCleanupPending: ORDER BY updated_at, LIMIT.
CleanupBatch == {order[i] : i \in {j \in DOMAIN order : j <= BatchLimit}}

ListCleanupPending(w) ==
  /\ pc[w] = "expiring" /\ todo[w] = {}
  /\ todo' = [todo EXCEPT ![w] = CleanupBatch]
  /\ Goto(w, "cleaning")
  /\ UNCHANGED <<rowVars, object, due, back, art, copy, received, faultVars>>

Cleanup(w, a) ==
  /\ pc[w] = "cleaning" /\ a \in todo[w]
  /\ todo' = [todo EXCEPT ![w] = @ \ {a}]
  /\ art' = [art EXCEPT ![w] = a]
  /\ back' = [back EXCEPT ![w] = "cleaning"]
  /\ Goto(w, "get")
  /\ UNCHANGED <<rowVars, object, due, copy, received, faultVars>>

EndJob(w) ==
  /\ pc[w] = "cleaning" /\ todo[w] = {}
  /\ Goto(w, "idle")
  /\ UNCHANGED <<rowVars, object, due, back, art, copy, todo, received, faultVars>>

-----------------------------------------------------------------------------
\* The process dies, or a statement outside the download transaction fails.
Crash(p) ==
  /\ pc[p] # "idle"
  /\ faults < MaxFaults /\ faults' = faults + 1
  /\ abandoned' = IF pc[p] \in {"get", "remove", "mark"} THEN abandoned \cup {art[p]} ELSE abandoned
  /\ Done(p, "idle")
  /\ todo' = [w \in Workers |-> IF w = p THEN {} ELSE todo[w]]
  /\ UNCHANGED <<rowVars, object, due, back, received>>

PassExpiry(a) ==
  /\ status[a] # "NONE" /\ ~due[a]
  /\ due' = [due EXCEPT ![a] = TRUE]
  /\ UNCHANGED <<rowVars, object, procVars, received, faultVars>>

\* The steps a process takes once it has begun.
Continue(p) ==
  \/ p \in Callers /\ \/ PublishCreate(p) \/ PublishDiscard(p)
                      \/ Fetch(p) \/ ClaimDownload(p) \/ Consume(p) \/ Deliver(p)
  \/ CleanupGet(p) \/ RemoveObject(p) \/ MarkCleanupPending(p) \/ CompleteCleanup(p)
  \/ p \in Workers /\ \/ ListExpiredReady(p) \/ ListCleanupPending(p) \/ EndJob(p)
                      \/ \E a \in Artifacts : Expire(p, a) \/ Cleanup(p, a)

Next ==
  \/ \E p \in Procs : Continue(p) \/ Crash(p)
  \/ \E c \in Callers :
       \/ \E a \in Artifacts : PublishPut(c, a) \/ Open(c, a) \/ Revoke(c, a)
       \/ PublishCreateError(c) \/ DeliverUnknown(c) \/ RollbackDownload(c)
  \/ \E a \in Artifacts : PassExpiry(a)

Spec == Init /\ [][Next]_vars

(* The scheduler starts the job every minute, calls that have begun go on, *)
(* and every deadline passes.  Nobody has to publish, download or revoke.  *)
Fairness ==
  /\ \A p \in Procs : WF_vars(Continue(p))
  /\ \A a \in Artifacts : WF_vars(PassExpiry(a))

FairSpec == Spec /\ Fairness

-----------------------------------------------------------------------------
(* The bytes of a ticket are handed out at most once, and only if it was   *)
(* closed as downloaded: a call that read the row or even the object       *)
(* before a revocation, an expiry or another download never returns them.  *)
OneDownload ==
  \A a \in Artifacts : received[a] > 0 => received[a] = 1 /\ outcome[a] = "Downloaded"

(* Why a ticket was closed survives the detour over CleanupPending and any *)
(* number of overlapping cleanups.                                         *)
OutcomeKept ==
  \A a \in Artifacts : status[a] \in Final => status[a] = outcome[a]

(* A closed ticket is never Ready again, whoever cleans it up or fails to. *)
ClosedStaysClosed ==
  [][\A a \in Artifacts : outcome[a] # "NONE" => status'[a] # "Ready"]_vars

(* The object of a closed ticket is deleted in the end, although deletions *)
(* fail now and then and some records can never be cleaned up (fewer than  *)
(* the limit of a batch), unless the process that closed it dies before it *)
(* has deleted the object or marked the record.                            *)
ObjectsDeletedUnlessCrash ==
  \A a \in Artifacts \ Broken : outcome[a] # "NONE" ~> a \notin object \/ a \in abandoned

(* No record stays CleanupPending: the job completes it in the end.        *)
CleanupCompletes ==
  \A a \in Artifacts \ Broken : status[a] = "CleanupPending" ~> status[a] \in Final

=============================================================================
