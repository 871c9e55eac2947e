------------------------------- MODULE Audit -------------------------------
(***************************************************************************)
(* The audit log: a hash chain per scope in audit_logs, its head, and the   *)
(* anchor that stands for what has been archived and deleted.  API handlers *)
(* write (audited over Writer.Write), workers purge (PurgeExpired), and     *)
(* VerifyIntegrity is called by the API and by every purge.                 *)
(*                                                                         *)
(* Write locks the head of its scope until the commit, so a transaction     *)
(* that records an event is one step.  Verification and purge take no lock: *)
(* each of their statements is a step of its own.  A verification through   *)
(* the API changes nothing; what it would answer is Verified, and its two   *)
(* statements are those a purge executes.                                   *)
(*                                                                         *)
(* A hash is modelled by what is hashed.  A time stamp has a part that the  *)
(* column keeps (microseconds) and a finer part, frac, that only the clock  *)
(* of the writer has.                                                      *)
(***************************************************************************)
EXTENDS Integers, FiniteSets

CONSTANTS
    Scopes,     \* organizations, and "global" for events without one
    Requests,   \* API calls that are audited
    Purgers,    \* workers
    Archiving,  \* workers whose Writer has a WORM archive (NewWriterWithArchive)
    Skews,      \* how far the clock of a replica may be ahead
    Fractions,  \* what the clock shows below one microsecond
    Retention,  \* AuditRetentionDays
    MaxTime,    \* bound on time
    MaxFaults   \* bound on failed calls, crashes and rows changed from outside

(***************************************************************************)
(* Every purge needs a positive retention: PurgeExpired returns at once     *)
(* otherwise.  It refuses without an archive; Archiving may be empty, as in *)
(* cmd/worker, which builds its Writer with NewWriter.                      *)
(***************************************************************************)
ASSUME AuditAssumption ==
    /\ Archiving \subseteq Purgers
    /\ Skews \subseteq Nat /\ Skews # {} /\ Fractions # {} /\ 0 \in Fractions
    /\ Retention \in Nat \ {0}
    /\ MaxTime \in Nat /\ MaxFaults \in Nat

VARIABLES
    now,        \* the clock the replicas approximate, in days
    heads,      \* audit_chain_heads
    logs,       \* audit_logs: a set of events
    anchors,    \* audit_chain_anchors; a scope without one has Root
    objects,    \* batches in the WORM store
    receipts,   \* batches with a row in audit_archive_receipts
    outcome,    \* progress of each audited request
    pc,         \* next statement of each purge or verification
    batch,      \* the expired events a purge has read
    todo,       \* scopes still to be verified
    rows,       \* the rows a verification has read
    faults,
    effects,    \* history: requests whose business change is committed
    unsure,     \* history: requests whose commit succeeded and reported an error
    written,    \* history: every event ever committed
    lost,       \* history: events changed or removed from outside
    overtaken   \* history: a purge deleted what another had deleted before it

chainVars == <<heads, logs, anchors>>
workVars  == <<pc, batch, todo, rows>>
histVars  == <<effects, unsure, written, lost, overtaken>>
vars == <<now, chainVars, objects, receipts, outcome, workVars, faults, histVars>>

Root == [seq |-> 0, hash |-> <<>>]

\* Mutant: the digest leaves out the content of the event.
HashNoBody(e) == <<e.id, e.at, e.frac, e.seq, e.prev>>

(***************************************************************************)
(* auditEventHash covers every field of the event and the previous hash.    *)
(***************************************************************************)
Hash(e) == <<e.id, e.at, e.frac, e.body, e.seq, e.prev>>

(***************************************************************************)
(* What a row gives back: the column has no room for the finer part of      *)
(* occurred_at.                                                            *)
(***************************************************************************)
Stored(e) == [e EXCEPT !.frac = 0]

RowsOf(scope) == {e \in logs : e.scope = scope}

(***************************************************************************)
(* The loop of VerifyIntegrity over the rows in the order of sequence_no:   *)
(* from the anchor on, every row has the next number (so none is repeated,  *)
(* missing or below the anchor), names the hash of its predecessor and has  *)
(* the hash of its own fields.                                              *)
(***************************************************************************)
Follows(e, rs, anchor) ==
    \/ e.seq = anchor.seq + 1 /\ e.prev = anchor.hash
    \/ \E d \in rs : d.seq > anchor.seq /\ e.seq = d.seq + 1 /\ e.prev = d.hash

Verified(rs, anchor) ==
    \A e \in rs :
        /\ e.hash = Hash(e)
        /\ Follows(e, rs, anchor)
        /\ \A d \in rs : d.seq = e.seq => d = e

TypeOK ==
    /\ now \in 0 .. MaxTime
    /\ \A s \in Scopes : heads[s].seq \in Nat /\ anchors[s].seq \in Nat
    /\ logs \subseteq written \cup lost
    /\ receipts \subseteq objects
    /\ outcome \in [Requests -> {"new", "failed", "done"}]
    /\ pc \in [Purgers -> {"idle", "rows", "anchor", "archive", "verify", "delete"}]
    /\ todo \in [Purgers -> SUBSET Scopes]
    /\ faults \in 0 .. MaxFaults
    /\ effects \subseteq Requests /\ unsure \subseteq effects
    /\ overtaken \in BOOLEAN

Init ==
    /\ now = 0 /\ faults = 0
    /\ heads = [s \in Scopes |-> Root] /\ anchors = [s \in Scopes |-> Root]
    /\ logs = {} /\ objects = {} /\ receipts = {}
    /\ outcome = [r \in Requests |-> "new"]
    /\ pc = [p \in Purgers |-> "idle"] /\ batch = [p \in Purgers |-> {}]
    /\ todo = [p \in Purgers |-> {}] /\ rows = [p \in Purgers |-> {}]
    /\ effects = {} /\ unsure = {} /\ written = {} /\ lost = {} /\ overtaken = FALSE

Fault == faults < MaxFaults /\ faults' = faults + 1

-----------------------------------------------------------------------------
(***************************************************************************)
(* Write: with the head locked, take the time, extend the chain, insert the *)
(* row and move the head.                                                  *)
(***************************************************************************)
Write(scope, r, result) ==
    \E skew \in Skews, frac \in Fractions :
       LET fields == [id |-> <<r, result>>, scope |-> scope, at |-> now + skew, frac |-> frac,
                      body |-> result, seq |-> heads[scope].seq + 1, prev |-> heads[scope].hash,
                      hash |-> <<>>]
           event  == [fields EXCEPT !.hash = Hash(fields)]
       IN  /\ logs' = logs \cup {Stored(event)}
           /\ written' = written \cup {Stored(event)}
           /\ heads' = [heads EXCEPT ![scope] = [seq |-> event.seq, hash |-> event.hash]]

(***************************************************************************)
(* audited: the business operation and its SUCCESS event in one             *)
(* transaction.  When anything in it fails it is rolled back, and when the  *)
(* commit reports an error it may nevertheless have taken effect.           *)
(***************************************************************************)
AuditedOk(r, scope) ==
    /\ outcome[r] = "new"
    /\ Write(scope, r, "SUCCESS")
    /\ effects' = effects \cup {r}
    /\ \/ /\ outcome' = [outcome EXCEPT ![r] = "done"]
          /\ UNCHANGED <<unsure, faults>>
       \/ /\ Fault
          /\ outcome' = [outcome EXCEPT ![r] = "failed"]
          /\ unsure' = unsure \cup {r}
    /\ UNCHANGED <<now, anchors, objects, receipts, workVars, lost, overtaken>>

\* Mutant: the business operation does not join the transaction.
AuditedErrorOutside(r) ==
    /\ outcome[r] = "new"
    /\ outcome' = [outcome EXCEPT ![r] = "failed"]
    /\ effects' = effects \cup {r}
    /\ UNCHANGED <<now, chainVars, objects, receipts, workVars, faults, unsure, written, lost, overtaken>>

AuditedError(r) ==
    /\ outcome[r] = "new"
    /\ outcome' = [outcome EXCEPT ![r] = "failed"]
    /\ UNCHANGED <<now, chainVars, objects, receipts, workVars, faults, histVars>>

(***************************************************************************)
(* The FAILURE event, in a transaction of its own; it may fail too.         *)
(***************************************************************************)
FailureAudit(r, scope) ==
    /\ outcome[r] = "failed"
    /\ outcome' = [outcome EXCEPT ![r] = "done"]
    /\ \/ Write(scope, r, "FAILURE") /\ UNCHANGED faults
       \/ Fault /\ UNCHANGED <<heads, logs, written>>
    /\ UNCHANGED <<now, anchors, objects, receipts, workVars, effects, unsure, lost, overtaken>>

-----------------------------------------------------------------------------
(***************************************************************************)
(* PurgeExpired refuses without an archive.  It reads the expired events of *)
(* all scopes, then verifies the scopes they belong to.                     *)
(***************************************************************************)
Expired == {e \in logs : e.at < now - Retention}

ExpiredEvents(p) ==
    /\ p \in Archiving
    /\ pc[p] = "idle" /\ Expired # {}
    /\ batch' = [batch EXCEPT ![p] = Expired]
    /\ todo' = [todo EXCEPT ![p] = {e.scope : e \in Expired}]
    /\ pc' = [pc EXCEPT ![p] = "rows"]
    /\ UNCHANGED <<now, chainVars, objects, receipts, outcome, rows, faults, histVars>>

(***************************************************************************)
(* VerifyIntegrity: the query of the rows and the query of the anchor are   *)
(* two statements outside any transaction.                                 *)
(***************************************************************************)
Current(p) == CHOOSE s \in todo[p] : TRUE

ReadRows(p) ==
    /\ pc[p] = "rows"
    /\ rows' = [rows EXCEPT ![p] = RowsOf(Current(p))]
    /\ pc' = [pc EXCEPT ![p] = "anchor"]
    /\ UNCHANGED <<now, chainVars, objects, receipts, outcome, batch, todo, faults, histVars>>

Return(p) ==
    /\ pc' = [pc EXCEPT ![p] = "idle"]
    /\ batch' = [batch EXCEPT ![p] = {}]
    /\ todo' = [todo EXCEPT ![p] = {}]
    /\ rows' = [rows EXCEPT ![p] = {}]

\* Mutant: a verification that fails is logged, and the purge goes on.
VerifyIntegrityLogged(p) ==
    /\ pc[p] = "anchor"
    /\ todo' = [todo EXCEPT ![p] = @ \ {Current(p)}]
    /\ rows' = [rows EXCEPT ![p] = {}]
    /\ pc' = [pc EXCEPT ![p] = IF todo'[p] = {} THEN "archive" ELSE "rows"]
    /\ UNCHANGED <<now, chainVars, objects, receipts, outcome, batch, faults, histVars>>

VerifyIntegrity(p) ==
    /\ pc[p] = "anchor"
    /\ LET ok   == Verified(rows[p], anchors[Current(p)])
           rest == todo[p] \ {Current(p)}
       IN  \/ ~ok /\ Return(p)
           \/ /\ ok
              /\ todo' = [todo EXCEPT ![p] = rest]
              /\ rows' = [rows EXCEPT ![p] = {}]
              /\ pc' = [pc EXCEPT ![p] = IF rest = {} THEN "archive" ELSE "rows"]
              /\ UNCHANGED batch
    /\ UNCHANGED <<now, chainVars, objects, receipts, outcome, faults, histVars>>

-----------------------------------------------------------------------------
\* Mutant: the error of a failed store is dropped, and no proof is asked for.
ArchiveErrorIgnored(p) ==
    /\ pc[p] = "archive"
    /\ pc' = [pc EXCEPT ![p] = "delete"]
    /\ UNCHANGED <<now, chainVars, objects, receipts, outcome, batch, todo, rows, faults, histVars>>

(***************************************************************************)
(* Archive stores the batch under a new key with a compliance lock and      *)
(* answers with a receipt for exactly this batch; Verify asks the store for *)
(* the proof.  A call that fails may have stored the object.                *)
(***************************************************************************)
Archive(p) ==
    /\ pc[p] = "archive"
    /\ objects' = objects \cup {batch[p]}
    /\ pc' = [pc EXCEPT ![p] = "verify"]
    /\ UNCHANGED <<now, chainVars, receipts, outcome, batch, todo, rows, faults, histVars>>

VerifyImmutable(p) ==
    /\ pc[p] = "verify" /\ batch[p] \in objects
    /\ pc' = [pc EXCEPT ![p] = "delete"]
    /\ UNCHANGED <<now, chainVars, objects, receipts, outcome, batch, todo, rows, faults, histVars>>

\* Mutant: the anchor is the first event of the batch.
FirstOf(events, scope) ==
    CHOOSE e \in events : e.scope = scope /\ \A d \in events : d.scope = scope => e.seq <= d.seq

(***************************************************************************)
(* anchors: the last event of the batch in each scope.                      *)
(***************************************************************************)
LastOf(events, scope) ==
    CHOOSE e \in events : e.scope = scope /\ \A d \in events : d.scope = scope => d.seq <= e.seq

AnchorsAfter(events) ==
    [s \in Scopes |-> IF \E e \in events : e.scope = s
                      THEN [seq |-> LastOf(events, s).seq, hash |-> LastOf(events, s).hash]
                      ELSE anchors[s]]

\* Mutant: the deletion selects by age again instead of by id.
DeleteArchivedByAge(p) ==
    /\ pc[p] = "delete"
    /\ receipts' = receipts \cup {batch[p]}
    /\ anchors' = AnchorsAfter(batch[p])
    /\ logs' = logs \ Expired
    /\ overtaken' = (overtaken \/ \E d \in batch[p] : d \notin logs \cup lost)
    /\ Return(p)
    /\ UNCHANGED <<now, heads, objects, outcome, faults, effects, unsure, written, lost>>

(***************************************************************************)
(* deleteArchived: receipt, anchors and deletion by id in one transaction.  *)
(* It asks neither whether the rows are still there nor where the anchor is.*)
(***************************************************************************)
DeleteArchived(p) ==
    /\ pc[p] = "delete"
    /\ receipts' = receipts \cup {batch[p]}
    /\ anchors' = AnchorsAfter(batch[p])
    /\ logs' = {e \in logs : \A d \in batch[p] : d.id # e.id}
    /\ overtaken' = (overtaken \/ \E d \in batch[p] : d \notin logs \cup lost)
    /\ Return(p)
    /\ UNCHANGED <<now, heads, objects, outcome, faults, effects, unsure, written, lost>>

(***************************************************************************)
(* A statement or a call to the store fails, or the process dies: the purge *)
(* gives up.  An archive call that failed may have stored the batch.        *)
(***************************************************************************)
GiveUp(p) ==
    /\ pc[p] # "idle" /\ Fault /\ Return(p)
    /\ \/ UNCHANGED objects
       \/ pc[p] = "archive" /\ objects' = objects \cup {batch[p]}
    /\ UNCHANGED <<now, chainVars, receipts, outcome, histVars>>

-----------------------------------------------------------------------------
Tick ==
    /\ now < MaxTime
    /\ now' = now + 1
    /\ UNCHANGED <<chainVars, objects, receipts, outcome, workVars, faults, histVars>>

(***************************************************************************)
(* A row is removed or changed by something other than this program.        *)
(***************************************************************************)
Damage(e) ==
    /\ e \in logs \ lost /\ Fault
    /\ \/ logs' = logs \ {e} /\ lost' = lost \cup {e}
       \/ LET changed == [e EXCEPT !.body = "changed"]
          IN  logs' = (logs \ {e}) \cup {changed} /\ lost' = lost \cup {e, changed}
    /\ UNCHANGED <<now, heads, anchors, objects, receipts, outcome, workVars,
                   effects, unsure, written, overtaken>>

Purge(p) ==
    ExpiredEvents(p) \/ ReadRows(p) \/ VerifyIntegrity(p) \/ Archive(p) \/ VerifyImmutable(p) \/ DeleteArchived(p)

Next ==
    \/ \E r \in Requests, s \in Scopes : AuditedOk(r, s) \/ FailureAudit(r, s)
    \/ \E r \in Requests : AuditedError(r)
    \/ \E p \in Purgers : Purge(p) \/ GiveUp(p)
    \/ \E e \in logs : Damage(e)
    \/ Tick

Spec == Init /\ [][Next]_vars

-----------------------------------------------------------------------------
(***************************************************************************)
(* No event leaves the table without a stored receipt of a batch in the     *)
(* WORM store that contains it, however purges overlap, fail or die         *)
(* (deleteArchived follows Archive and Verify of the same batch).           *)
(***************************************************************************)
NothingLost ==
    \A e \in written \ lost : e \in logs \/ \E b \in receipts : e \in b /\ b \in objects

(***************************************************************************)
(* The clocks of the writers never ran backwards along a chain.             *)
(***************************************************************************)
ClocksInOrder ==
    \A d, e \in written : d.scope = e.scope /\ d.seq < e.seq => d.at <= e.at

(***************************************************************************)
(* What the program alone has done always verifies: writing, failing,       *)
(* purging and dying leave a chain that continues the anchor.  Two purges   *)
(* that overlap may move the anchor back (overtaken), and clocks that       *)
(* disagree may expire an event before its predecessor; both break it.      *)
(***************************************************************************)
Undisturbed == lost = {} /\ ~overtaken /\ ClocksInOrder

ChainVerifies ==
    Undisturbed => \A s \in Scopes : Verified(RowsOf(s), anchors[s])

(***************************************************************************)
(* What ChainVerifies leaves to be said of the code, which hashes a time    *)
(* finer than its column: the retained chain of a scope verifies exactly    *)
(* when every row of it was written at a time that the column can hold      *)
(* (the third part of what was hashed).  One row that was not makes every   *)
(* verification of its scope fail, and nothing else does: the order of the  *)
(* writers, purges that moved the anchor, failures and crashes do not.      *)
(***************************************************************************)
WholeMicrosecond(e) == e.hash[3] = 0

ChainVerifiesExactly ==
    Undisturbed => \A s \in Scopes :
        Verified(RowsOf(s), anchors[s]) <=> \A e \in RowsOf(s) : WholeMicrosecond(e)

(***************************************************************************)
(* A retained row that was changed, or removed although a later one is      *)
(* still there, makes VerifyIntegrity fail.                                 *)
(***************************************************************************)
DamageDetected ==
    \A e \in lost :
        (\/ e \in logs
         \/ e.seq > anchors[e.scope].seq /\ (\A d \in logs : d.id # e.id)
            /\ \E d \in RowsOf(e.scope) : d.seq > e.seq)
        => ~Verified(RowsOf(e.scope), anchors[e.scope])

(***************************************************************************)
(* The record agrees with what happened: a business change is committed iff *)
(* its SUCCESS event is, and a FAILURE event stands for no change, unless   *)
(* the commit reported an error although it took effect (audited).          *)
(***************************************************************************)
OutcomeRecorded ==
    \A r \in Requests :
        /\ r \in effects <=> \E e \in written : e.id = <<r, "SUCCESS">>
        /\ (\E e \in written : e.id = <<r, "FAILURE">>) => r \notin effects \/ r \in unsure

(***************************************************************************)
(* What somebody changed in the table does not become evidence: an event in *)
(* the WORM store is as it was written, or the original of it is in a batch *)
(* with a receipt.  The events are read before the verification (audit.go   *)
(* 205 and 225), and the rows may be purged by another worker in between;   *)
(* it is then the other's batch that has the original.  A row is changed    *)
(* from outside once.                                                      *)
(***************************************************************************)
Genuine(id) == \E b \in receipts : \E d \in b : d.id = id /\ d \in written

ArchiveGenuine == \A b \in objects : \A e \in b : e \in written \/ Genuine(e.id)
=============================================================================
