---------------------------- MODULE AuditProofs ----------------------------
(***************************************************************************)
(* Proofs about the audit log (Audit).  The first inductive invariant,      *)
(* RecordInv, is about events: an id is written once, what the table, a     *)
(* purge or the damage from outside holds goes back to a written event, and *)
(* a batch is in the store before its rows are deleted.  The second,        *)
(* ChainInv, is about the chain: what is retained is exactly what follows   *)
(* the anchor.  DamageInv and EvidenceInv follow what was changed from      *)
(* outside, in the table and in the batches of the purges.                  *)
(***************************************************************************)
EXTENDS Audit, WellFoundedInduction, TLAPS

(***************************************************************************)
(* Every non-empty set of naturals has a least element.                     *)
(***************************************************************************)
LEMMA LeastNatural ==
  ASSUME NEW T, T \subseteq Nat, T # {}
  PROVE  \E n \in T : \A m \in T : n <= m
<1> DEFINE R == OpToRel(<, Nat)
<1>1. IsWellFoundedOn(R, Nat)
  BY NatLessThanWellFounded
<1>2. \A x, y \in Nat : y < x => <<y, x>> \in R
  BY DEF OpToRel
<1> HIDE DEF R
<1>3. PICK x \in T : \A y \in T : ~ (<<y, x>> \in R)
  BY <1>1, WFMin
<1>4. ASSUME NEW m \in T PROVE x <= m
  <2>1. x \in Nat /\ m \in Nat
    OBVIOUS
  <2>2. ~(m < x)
    BY <1>2, <1>3, <2>1
  <2> QED BY <2>1, <2>2
<1> QED BY <1>3, <1>4

(***************************************************************************)
(* What Write adds: one event, after the head of its scope, with the next   *)
(* number and the hash of the head; its own hash is the one a reader        *)
(* computes exactly when its time was a whole number of microseconds.       *)
(***************************************************************************)
NewEvent(e, scope, r, result) ==
  /\ logs' = logs \cup {e} /\ written' = written \cup {e}
  /\ heads' = [heads EXCEPT ![scope] = [seq |-> e.seq, hash |-> e.hash]]
  /\ e.id = <<r, result>> /\ e.scope = scope
  /\ e.seq = heads[scope].seq + 1 /\ e.prev = heads[scope].hash
  /\ e.at \in Int
  /\ "body" \in DOMAIN e /\ e.hash[4] = result
  /\ WholeMicrosecond(e) <=> e.hash = Hash(e)

LEMMA WriteAdds ==
  ASSUME NEW scope, NEW r, NEW result, Write(scope, r, result), now \in Int
  PROVE  \E e : NewEvent(e, scope, r, result)
<1>1. PICK skew \in Skews, frac \in Fractions :
        LET fields == [id |-> <<r, result>>, scope |-> scope, at |-> now + skew, frac |-> frac,
                       body |-> result, seq |-> heads[scope].seq + 1, prev |-> heads[scope].hash,
                       hash |-> <<>>]
            event  == [fields EXCEPT !.hash = Hash(fields)]
        IN  /\ logs' = logs \cup {Stored(event)}
            /\ written' = written \cup {Stored(event)}
            /\ heads' = [heads EXCEPT ![scope] = [seq |-> event.seq, hash |-> event.hash]]
  BY DEF Write
<1> DEFINE fields == [id |-> <<r, result>>, scope |-> scope, at |-> now + skew, frac |-> frac,
                      body |-> result, seq |-> heads[scope].seq + 1, prev |-> heads[scope].hash,
                      hash |-> <<>>]
           event == [fields EXCEPT !.hash = Hash(fields)]
           e == Stored(event)
<1>2. /\ e.id = <<r, result>> /\ e.scope = scope
      /\ e.seq = heads[scope].seq + 1 /\ e.prev = heads[scope].hash
      /\ event.seq = e.seq /\ event.hash = e.hash /\ e.at = now + skew
  BY DEF Stored
<1>5. now + skew \in Int
  BY AuditAssumption
<1>3. WholeMicrosecond(e) <=> e.hash = Hash(e)
  <2>1. e.hash = <<<<r, result>>, now + skew, frac, result, heads[scope].seq + 1, heads[scope].hash>>
    BY DEF Stored, Hash
  <2>2. Hash(e) = <<<<r, result>>, now + skew, 0, result, heads[scope].seq + 1, heads[scope].hash>>
    BY DEF Stored, Hash
  <2> HIDE DEF e
  <2>3. e.hash[3] = frac
    BY <2>1
  <2> QED BY <2>1, <2>2, <2>3 DEF WholeMicrosecond
<1>6. "body" \in DOMAIN e /\ e.hash[4] = result
  BY DEF Stored, Hash
<1>4. NewEvent(e, scope, r, result)
  <2> HIDE DEF fields
  <2> QED BY <1>1, <1>2, <1>3, <1>5, <1>6 DEF NewEvent, fields
<1> QED BY <1>4

-----------------------------------------------------------------------------
(***************************************************************************)
(* The first inductive invariant.                                          *)
(***************************************************************************)
AuditTyped ==
  /\ heads = [s \in Scopes |-> heads[s]] /\ \A s \in Scopes : heads[s].seq \in Nat
  /\ anchors = [s \in Scopes |-> anchors[s]]
  /\ outcome \in [Requests -> {"new", "failed", "done"}]
  /\ pc \in [Purgers -> {"idle", "rows", "anchor", "archive", "verify", "delete"}]
  /\ batch = [p \in Purgers |-> batch[p]]
  /\ rows = [p \in Purgers |-> rows[p]]
  /\ todo \in [Purgers -> SUBSET Scopes]
  /\ now \in 0 .. MaxTime /\ faults \in 0 .. MaxFaults
  /\ effects \subseteq Requests /\ unsure \subseteq effects
  /\ overtaken \in BOOLEAN
  /\ receipts \subseteq objects

UniqueIds == \A d, e \in written : d.id = e.id => d = e

Sources ==
  /\ logs \subseteq written \cup lost
  /\ \A e \in written \cup lost : e.scope \in Scopes /\ e.seq \in Nat /\ e.seq <= heads[e.scope].seq
  /\ \A p \in Purgers : batch[p] \subseteq written \cup lost
  /\ \A d \in lost : \E w \in written \cap lost : w.id = d.id

Recorded ==
  /\ \A e \in written : \E r \in Requests :
       \/ e.id = <<r, "SUCCESS">> /\ outcome[r] # "new" /\ r \in effects
       \/ e.id = <<r, "FAILURE">> /\ outcome[r] = "done" /\ (r \in effects => r \in unsure)
  /\ \A r \in effects : outcome[r] # "new" /\ \E e \in written : e.id = <<r, "SUCCESS">>
  /\ \A r \in effects : outcome[r] = "failed" => r \in unsure

BatchStored == \A p \in Purgers : pc[p] \in {"verify", "delete"} => batch[p] \in objects

RecordInv == AuditTyped /\ UniqueIds /\ Sources /\ Recorded /\ BatchStored /\ NothingLost

LEMMA RecordInit == Init => RecordInv
<1> SUFFICES ASSUME Init PROVE RecordInv
  OBVIOUS
<1>1. heads = [s \in Scopes |-> heads[s]] /\ \A s \in Scopes : heads[s].seq \in Nat
  BY DEF Init, Root
<1>2. anchors = [s \in Scopes |-> anchors[s]] /\ outcome \in [Requests -> {"new", "failed", "done"}]
  BY DEF Init
<1>3. AuditTyped
  <2>1. now \in 0 .. MaxTime /\ faults \in 0 .. MaxFaults
    BY AuditAssumption DEF Init
  <2>2. /\ pc \in [Purgers -> {"idle", "rows", "anchor", "archive", "verify", "delete"}]
        /\ batch = [p \in Purgers |-> batch[p]] /\ rows = [p \in Purgers |-> rows[p]]
        /\ todo \in [Purgers -> SUBSET Scopes]
    BY DEF Init
  <2>3. effects \subseteq Requests /\ unsure \subseteq effects /\ overtaken \in BOOLEAN
        /\ receipts \subseteq objects
    BY DEF Init
  <2> QED BY <1>1, <1>2, <2>1, <2>2, <2>3 DEF AuditTyped
<1>4. UniqueIds /\ Sources /\ NothingLost
  BY DEF Init, UniqueIds, Sources, NothingLost
<1>5. Recorded /\ BatchStored
  BY DEF Init, Recorded, BatchStored
<1> QED BY <1>3, <1>4, <1>5 DEF RecordInv

(***************************************************************************)
(* An event is recorded for request r: common to the success and the        *)
(* failure record.                                                         *)
(***************************************************************************)
LEMMA RecordWrite ==
  ASSUME RecordInv, NEW scope \in Scopes, NEW r \in Requests, NEW result, NEW e,
         NewEvent(e, scope, r, result), \A d \in written : d.id # <<r, result>>,
         UNCHANGED <<batch, lost, objects, receipts>>
  PROVE  /\ heads' = [s \in Scopes |-> heads'[s]] /\ \A s \in Scopes : heads'[s].seq \in Nat
         /\ UniqueIds' /\ Sources' /\ NothingLost'
<1> USE DEF RecordInv
<1>1. heads' = [s \in Scopes |-> heads'[s]] /\ \A s \in Scopes : heads'[s].seq \in Nat
  BY DEF AuditTyped, NewEvent
<1>2. UniqueIds'
  BY DEF UniqueIds, NewEvent
<1>3. Sources'
  BY DEF Sources, NewEvent, AuditTyped
<1>4. NothingLost'
  BY DEF NothingLost, NewEvent
<1> QED BY <1>1, <1>2, <1>3, <1>4

LEMMA RecordAuditedOk ==
  ASSUME RecordInv, NEW r \in Requests, NEW scope \in Scopes, AuditedOk(r, scope)
  PROVE  RecordInv'
<1> USE DEF RecordInv
<1>1. PICK e : NewEvent(e, scope, r, "SUCCESS")
  <2>1. now \in Int
    BY DEF AuditTyped
  <2> QED BY <2>1, WriteAdds DEF AuditedOk
<1>2. \A d \in written : d.id # <<r, "SUCCESS">>
  BY DEF AuditedOk, Recorded
<1>3. /\ heads' = [s \in Scopes |-> heads'[s]] /\ \A s \in Scopes : heads'[s].seq \in Nat
      /\ UniqueIds' /\ Sources' /\ NothingLost'
  BY <1>1, <1>2, RecordWrite DEF AuditedOk, workVars
<1>4. AuditTyped'
  BY <1>3, AuditAssumption DEF AuditedOk, workVars, AuditTyped, Fault
<1>5. Recorded'
  <2>1. e \in written' /\ e.id = <<r, "SUCCESS">> /\ written' = written \cup {e}
    BY <1>1 DEF NewEvent
  <2>2. r \notin effects /\ effects' = effects \cup {r} /\ outcome[r] = "new"
    BY DEF AuditedOk, Recorded
  <2>3. /\ outcome'[r] # "new" /\ (outcome'[r] = "failed" => r \in unsure')
        /\ \A q \in Requests \ {r} : outcome'[q] = outcome[q]
        /\ unsure \subseteq unsure'
    BY DEF AuditedOk, AuditTyped
  <2>4. ASSUME NEW d \in written'
        PROVE  \E q \in Requests :
                  \/ d.id = <<q, "SUCCESS">> /\ outcome'[q] # "new" /\ q \in effects'
                  \/ d.id = <<q, "FAILURE">> /\ outcome'[q] = "done" /\ (q \in effects' => q \in unsure')
    <3>1. CASE d = e
      BY <3>1, <2>1, <2>2, <2>3
    <3>2. CASE d # e
      <4>1. PICK q \in Requests :
               \/ d.id = <<q, "SUCCESS">> /\ outcome[q] # "new" /\ q \in effects
               \/ d.id = <<q, "FAILURE">> /\ outcome[q] = "done" /\ (q \in effects => q \in unsure)
        BY <3>2, <2>1 DEF Recorded
      <4>2. q # r
        BY <4>1, <2>2
      <4> QED BY <4>1, <4>2, <2>2, <2>3
    <3> QED BY <3>1, <3>2
  <2>5. \A q \in effects' : outcome'[q] # "new" /\ \E d \in written' : d.id = <<q, "SUCCESS">>
    BY <2>1, <2>2, <2>3 DEF Recorded, AuditTyped
  <2>6. \A q \in effects' : outcome'[q] = "failed" => q \in unsure'
    BY <2>2, <2>3 DEF Recorded, AuditTyped
  <2> QED BY <2>4, <2>5, <2>6 DEF Recorded
<1>6. BatchStored'
  BY DEF BatchStored, AuditedOk, workVars
<1> QED BY <1>3, <1>4, <1>5, <1>6

LEMMA RecordFailureAudit ==
  ASSUME RecordInv, NEW r \in Requests, NEW scope \in Scopes, FailureAudit(r, scope)
  PROVE  RecordInv'
<1> USE DEF RecordInv
<1>1. /\ outcome[r] = "failed" /\ outcome'[r] = "done"
      /\ \A q \in Requests \ {r} : outcome'[q] = outcome[q]
      /\ UNCHANGED <<effects, unsure>>
  BY DEF FailureAudit, AuditTyped
<1>2. \A d \in written : d.id # <<r, "FAILURE">>
  BY <1>1 DEF Recorded
<1>3. BatchStored'
  BY DEF BatchStored, FailureAudit, workVars
<1>4. CASE Write(scope, r, "FAILURE") /\ UNCHANGED faults
  <2>1. PICK e : NewEvent(e, scope, r, "FAILURE")
    <3>1. now \in Int
      BY DEF AuditTyped
    <3> QED BY <1>4, <3>1, WriteAdds
  <2>2. /\ heads' = [s \in Scopes |-> heads'[s]] /\ \A s \in Scopes : heads'[s].seq \in Nat
        /\ UniqueIds' /\ Sources' /\ NothingLost'
    BY <1>2, <2>1, RecordWrite DEF FailureAudit, workVars
  <2>3. AuditTyped'
    BY <1>4, <2>2 DEF FailureAudit, workVars, AuditTyped
  <2>4. e \in written' /\ e.id = <<r, "FAILURE">> /\ written' = written \cup {e}
    BY <2>1 DEF NewEvent
  <2>5. ASSUME NEW d \in written'
        PROVE  \E q \in Requests :
                  \/ d.id = <<q, "SUCCESS">> /\ outcome'[q] # "new" /\ q \in effects'
                  \/ d.id = <<q, "FAILURE">> /\ outcome'[q] = "done" /\ (q \in effects' => q \in unsure')
    <3>1. CASE d = e
      BY <3>1, <1>1, <2>4 DEF Recorded
    <3>2. CASE d # e
      <4>1. PICK q \in Requests :
               \/ d.id = <<q, "SUCCESS">> /\ outcome[q] # "new" /\ q \in effects
               \/ d.id = <<q, "FAILURE">> /\ outcome[q] = "done" /\ (q \in effects => q \in unsure)
        BY <3>2, <2>4 DEF Recorded
      <4> QED BY <4>1, <1>1
    <3> QED BY <3>1, <3>2
  <2>6. Recorded'
    BY <1>1, <2>4, <2>5 DEF Recorded, AuditTyped
  <2> QED BY <1>3, <2>2, <2>3, <2>6
<1>5. CASE Fault /\ UNCHANGED <<heads, logs, written>>
  <2>1. AuditTyped'
    BY <1>5, AuditAssumption DEF FailureAudit, workVars, AuditTyped, Fault
  <2>2. UniqueIds' /\ Sources' /\ NothingLost'
    BY <1>5 DEF FailureAudit, workVars, UniqueIds, Sources, NothingLost
  <2>3. Recorded'
    BY <1>1, <1>5 DEF Recorded, AuditTyped
  <2> QED BY <1>3, <2>1, <2>2, <2>3
<1> QED BY <1>4, <1>5 DEF FailureAudit

LEMMA RecordAuditedError ==
  ASSUME RecordInv, NEW r \in Requests, AuditedError(r)
  PROVE  RecordInv'
<1> USE DEF RecordInv, AuditedError, chainVars, workVars, histVars
<1>1. AuditTyped'
  BY DEF AuditTyped
<1>2. UniqueIds' /\ Sources' /\ NothingLost' /\ BatchStored'
  BY DEF UniqueIds, Sources, NothingLost, BatchStored
<1>3. Recorded'
  BY DEF Recorded, AuditTyped
<1> QED BY <1>1, <1>2, <1>3

LEMMA RecordReturn ==
  ASSUME AuditTyped, NEW p \in Purgers, Return(p)
  PROVE  /\ pc' \in [Purgers -> {"idle", "rows", "anchor", "archive", "verify", "delete"}]
         /\ batch' = [q \in Purgers |-> batch'[q]] /\ rows' = [q \in Purgers |-> rows'[q]]
         /\ todo' \in [Purgers -> SUBSET Scopes]
         /\ \A q \in Purgers : batch'[q] = batch[q] \/ batch'[q] = {}
         /\ \A q \in Purgers : pc'[q] # "idle" => pc'[q] = pc[q] /\ batch'[q] = batch[q]
BY DEF AuditTyped, Return

(***************************************************************************)
(* The statements of a purge before the deletion change neither table nor   *)
(* record.                                                                 *)
(***************************************************************************)
LEMMA RecordPurge ==
  ASSUME RecordInv, NEW p \in Purgers,
         ExpiredEvents(p) \/ ReadRows(p) \/ VerifyIntegrity(p) \/ Archive(p) \/ VerifyImmutable(p)
           \/ GiveUp(p)
  PROVE  RecordInv'
<1> USE DEF RecordInv
<1>1. UNCHANGED <<chainVars, receipts, outcome, histVars>> /\ objects \subseteq objects'
  BY DEF ExpiredEvents, ReadRows, VerifyIntegrity, Archive, VerifyImmutable, GiveUp
<1>2. UniqueIds' /\ Recorded' /\ NothingLost'
  BY <1>1 DEF chainVars, histVars, UniqueIds, Recorded, NothingLost
<1>3. /\ pc' \in [Purgers -> {"idle", "rows", "anchor", "archive", "verify", "delete"}]
      /\ batch' = [q \in Purgers |-> batch'[q]] /\ rows' = [q \in Purgers |-> rows'[q]]
      /\ todo' \in [Purgers -> SUBSET Scopes]
      /\ now' \in 0 .. MaxTime /\ faults' \in 0 .. MaxFaults
      /\ \A q \in Purgers : batch'[q] \subseteq batch[q] \cup logs
      /\ \A q \in Purgers : pc'[q] \in {"verify", "delete"} => batch'[q] \in objects'
  <2> USE DEF AuditTyped, BatchStored
  <2>1. CASE ExpiredEvents(p)
    <3>1. \A e \in Expired : e \in logs /\ e.scope \in Scopes
      BY DEF Expired, Sources
    <3> QED BY <2>1, <3>1 DEF ExpiredEvents, Expired
  <2>2. CASE ReadRows(p)
    BY <2>2 DEF ReadRows
  <2>3. CASE VerifyIntegrity(p)
    <3>1. CASE Return(p)
      BY <2>3, <3>1, RecordReturn DEF VerifyIntegrity
    <3>2. CASE /\ todo' = [todo EXCEPT ![p] = todo[p] \ {Current(p)}]
               /\ rows' = [rows EXCEPT ![p] = {}]
               /\ pc' = [pc EXCEPT ![p] = IF todo[p] \ {Current(p)} = {} THEN "archive" ELSE "rows"]
               /\ UNCHANGED batch
      BY <2>3, <3>2 DEF VerifyIntegrity
    <3> QED BY <2>3, <3>1, <3>2 DEF VerifyIntegrity
  <2>4. CASE Archive(p)
    BY <2>4 DEF Archive
  <2>5. CASE VerifyImmutable(p)
    BY <2>5 DEF VerifyImmutable
  <2>6. CASE GiveUp(p)
    BY <2>6, <1>1, RecordReturn, AuditAssumption DEF GiveUp, Fault
  <2> QED BY <2>1, <2>2, <2>3, <2>4, <2>5, <2>6
<1>4. AuditTyped' /\ BatchStored'
  BY <1>1, <1>3 DEF AuditTyped, BatchStored, chainVars, histVars
<1>5. Sources'
  BY <1>1, <1>3 DEF Sources, chainVars, histVars
<1> QED BY <1>2, <1>4, <1>5

LEMMA RecordDelete ==
  ASSUME RecordInv, NEW p \in Purgers, DeleteArchived(p)
  PROVE  RecordInv'
<1> USE DEF RecordInv
<1>1. AuditTyped'
  <2>1. anchors' = [s \in Scopes |-> anchors'[s]]
    BY DEF DeleteArchived, AnchorsAfter
  <2>2. overtaken' \in BOOLEAN
    BY DEF DeleteArchived
  <2>3. receipts' \subseteq objects'
    BY DEF DeleteArchived, BatchStored, AuditTyped
  <2> QED BY <2>1, <2>2, <2>3, RecordReturn DEF DeleteArchived, AuditTyped
<1>2. UniqueIds' /\ Recorded'
  BY DEF DeleteArchived, UniqueIds, Recorded
<1>3. Sources' /\ BatchStored'
  BY RecordReturn DEF DeleteArchived, Sources, BatchStored, AuditTyped
<1>4. ASSUME NEW e \in written \ lost, e \in logs, e \notin logs'
      PROVE  e \in batch[p]
  <2>1. PICK d \in batch[p] : d.id = e.id
    BY <1>4 DEF DeleteArchived
  <2>2. CASE d \in written
    BY <2>1, <2>2 DEF UniqueIds
  <2>3. CASE d \in lost
    <3>1. PICK w \in written \cap lost : w.id = d.id
      BY <2>3 DEF Sources
    <3> QED BY <2>1, <3>1 DEF UniqueIds
  <2> QED BY <2>2, <2>3 DEF Sources
<1>5. NothingLost'
  BY <1>4 DEF NothingLost, DeleteArchived, BatchStored
<1> QED BY <1>1, <1>2, <1>3, <1>5

LEMMA RecordDamage ==
  ASSUME RecordInv, NEW e \in logs, Damage(e)
  PROVE  RecordInv'
<1> USE DEF RecordInv
<1>1. AuditTyped' /\ UniqueIds' /\ Recorded' /\ BatchStored'
  BY AuditAssumption DEF Damage, Fault, workVars, AuditTyped, UniqueIds, Recorded, BatchStored
<1>2. e \in written
  BY DEF Damage, Sources
<1> DEFINE changed == [e EXCEPT !.body = "changed"]
<1>3. changed.id = e.id /\ changed.scope = e.scope /\ changed.seq = e.seq
  OBVIOUS
<1>4. /\ logs' = logs \ {e} \/ logs' = (logs \ {e}) \cup {changed}
      /\ lost' = lost \cup {e} \/ lost' = lost \cup {e, changed}
      /\ logs' \subseteq logs \cup lost'
      /\ UNCHANGED <<heads, written, batch, objects, receipts>>
  BY DEF Damage, workVars
<1> HIDE DEF changed
<1>5. Sources'
  BY <1>2, <1>3, <1>4 DEF Sources
<1>6. NothingLost'
  BY <1>4 DEF NothingLost
<1> QED BY <1>1, <1>5, <1>6

LEMMA RecordNext == RecordInv /\ [Next]_vars => RecordInv'
<1> SUFFICES ASSUME RecordInv, [Next]_vars PROVE RecordInv'
  OBVIOUS
<1>1. ASSUME NEW r \in Requests, NEW s \in Scopes, AuditedOk(r, s) \/ FailureAudit(r, s)
      PROVE  RecordInv'
  BY <1>1, RecordAuditedOk, RecordFailureAudit
<1>2. ASSUME NEW r \in Requests, AuditedError(r) PROVE RecordInv'
  BY <1>2, RecordAuditedError
<1>3. ASSUME NEW p \in Purgers, Purge(p) \/ GiveUp(p) PROVE RecordInv'
  BY <1>3, RecordPurge, RecordDelete DEF Purge
<1>4. ASSUME NEW e \in logs, Damage(e) PROVE RecordInv'
  BY <1>4, RecordDamage
<1>5. CASE Tick
  <2>1. now' \in 0 .. MaxTime
    BY <1>5, AuditAssumption DEF Tick, RecordInv, AuditTyped
  <2> QED
    BY <1>5, <2>1 DEF Tick, chainVars, workVars, histVars, RecordInv, AuditTyped, UniqueIds, Sources,
                      Recorded, BatchStored, NothingLost
<1>6. CASE UNCHANGED vars
  BY <1>6 DEF vars, chainVars, workVars, histVars, RecordInv, AuditTyped, UniqueIds, Sources,
              Recorded, BatchStored, NothingLost
<1> QED BY <1>1, <1>2, <1>3, <1>4, <1>5, <1>6 DEF Next

(***************************************************************************)
(* However requests, purges, failures and crashes interleave, an event      *)
(* leaves the table only with a receipt of a batch in the WORM store that   *)
(* contains it.                                                            *)
(***************************************************************************)
THEOREM NothingIsLost == Spec => []NothingLost
<1>1. RecordInv => NothingLost
  BY DEF RecordInv
<1> QED BY <1>1, RecordInit, RecordNext, PTL DEF Spec

(***************************************************************************)
(* The last event of a batch in a scope exists when the numbers are         *)
(* bounded.                                                                *)
(***************************************************************************)
LEMMA LastOfBatch ==
  ASSUME NEW B, NEW s, NEW n \in Nat, \A e \in B : e.scope = s => e.seq \in Nat /\ e.seq <= n,
         \E e \in B : e.scope = s
  PROVE  /\ LastOf(B, s) \in B /\ LastOf(B, s).scope = s
         /\ \A d \in B : d.scope = s => d.seq <= LastOf(B, s).seq
<1> DEFINE In == {e \in B : e.scope = s}
           T == {n - e.seq : e \in In}
<1>1. T \subseteq Nat /\ T # {}
  OBVIOUS
<1>2. PICK k \in T : \A m \in T : k <= m
  <2> HIDE DEF T
  <2> QED BY <1>1, LeastNatural
<1>3. PICK e \in In : k = n - e.seq
  BY <1>2
<1>4. ASSUME NEW d \in In PROVE d.seq <= e.seq
  <2>1. n - d.seq \in T
    OBVIOUS
  <2>2. n - e.seq <= n - d.seq
    BY <1>2, <1>3, <2>1
  <2>3. d.seq \in Nat /\ e.seq \in Nat
    OBVIOUS
  <2> QED BY <2>2, <2>3
<1>5. \E x \in B : x.scope = s /\ \A d \in B : d.scope = s => d.seq <= x.seq
  BY <1>3, <1>4
<1> QED BY <1>5 DEF LastOf

LEMMA DeletedBatch ==
  ASSUME RecordInv, NEW p \in Purgers, NEW s \in Scopes, \E e \in batch[p] : e.scope = s
  PROVE  /\ LastOf(batch[p], s) \in batch[p] /\ LastOf(batch[p], s).scope = s
         /\ \A d \in batch[p] : d.scope = s => d.seq <= LastOf(batch[p], s).seq
<1>1. \A e \in batch[p] : e.scope = s => e.seq \in Nat /\ e.seq <= heads[s].seq
  BY DEF RecordInv, Sources
<1>2. heads[s].seq \in Nat
  BY DEF RecordInv, AuditTyped
<1> QED BY <1>1, <1>2, LastOfBatch

(***************************************************************************)
(* The actions that leave the anchors alone.                                *)
(***************************************************************************)
LEMMA AnchorsMove ==
  ASSUME [Next]_vars
  PROVE  anchors' = anchors \/ \E p \in Purgers : DeleteArchived(p)
BY DEF Next, vars, chainVars, histVars, workVars, AuditedOk, FailureAudit, AuditedError, Purge, GiveUp,
       ExpiredEvents, ReadRows, VerifyIntegrity, Archive, VerifyImmutable, Damage, Tick

(***************************************************************************)
(* The type invariant.                                                     *)
(***************************************************************************)
THEOREM AuditTypeCorrect == Spec => []TypeOK
<1> DEFINE Anchored == \A s \in Scopes : anchors[s].seq \in Nat
<1>1. Init => Anchored
  BY DEF Init, Root
<1>2. RecordInv /\ Anchored /\ [Next]_vars => Anchored'
  <2> SUFFICES ASSUME RecordInv, Anchored, [Next]_vars PROVE Anchored'
    OBVIOUS
  <2>1. ASSUME NEW p \in Purgers, DeleteArchived(p), NEW s \in Scopes PROVE anchors'[s].seq \in Nat
    <3>1. anchors' = AnchorsAfter(batch[p])
      BY <2>1 DEF DeleteArchived
    <3>2. CASE \E e \in batch[p] : e.scope = s
      <4>1. anchors'[s].seq = LastOf(batch[p], s).seq
        BY <3>1, <3>2 DEF AnchorsAfter
      <4>2. LastOf(batch[p], s) \in batch[p]
        BY <3>2, DeletedBatch
      <4> QED BY <4>1, <4>2 DEF RecordInv, Sources
    <3>3. CASE ~ \E e \in batch[p] : e.scope = s
      BY <3>1, <3>3 DEF AnchorsAfter
    <3> QED BY <3>2, <3>3
  <2> QED BY <2>1, AnchorsMove
<1>3. RecordInv /\ Anchored => TypeOK
  BY DEF RecordInv, AuditTyped, Sources, TypeOK
<1> HIDE DEF Anchored
<1> QED BY <1>1, <1>2, <1>3, RecordInit, RecordNext, PTL DEF Spec

(***************************************************************************)
(* The record agrees with what happened.                                   *)
(***************************************************************************)
THEOREM OutcomeIsRecorded == Spec => []OutcomeRecorded
<1>1. RecordInv => OutcomeRecorded
  <2> SUFFICES ASSUME RecordInv, NEW r \in Requests
               PROVE  /\ r \in effects <=> \E e \in written : e.id = <<r, "SUCCESS">>
                      /\ (\E e \in written : e.id = <<r, "FAILURE">>) => r \notin effects \/ r \in unsure
    BY DEF OutcomeRecorded
  <2>1. ASSUME NEW e \in written, e.id = <<r, "SUCCESS">> PROVE r \in effects
    BY <2>1 DEF RecordInv, Recorded
  <2>2. ASSUME NEW e \in written, e.id = <<r, "FAILURE">> PROVE r \notin effects \/ r \in unsure
    BY <2>2 DEF RecordInv, Recorded
  <2>3. r \in effects => \E e \in written : e.id = <<r, "SUCCESS">>
    BY DEF RecordInv, Recorded
  <2> QED BY <2>1, <2>2, <2>3
<1> QED BY <1>1, RecordInit, RecordNext, PTL DEF Spec

-----------------------------------------------------------------------------
(***************************************************************************)
(* The chain.  Linked holds of everything ever written; Retained and Closed *)
(* hold as long as nothing from outside has changed a row, no purge has     *)
(* overtaken another and the clocks agree with the order of the chain:      *)
(* what is retained is what follows the anchor, and a purge has read with   *)
(* an event every earlier one that is still there.                         *)
(***************************************************************************)
Linked ==
  /\ \A e \in written : (WholeMicrosecond(e) <=> e.hash = Hash(e)) /\ e.seq > 0 /\ e.at \in Int
  /\ \A d, e \in written : d.scope = e.scope /\ d.seq = e.seq => d = e
  /\ \A e \in written :
       \/ e.seq = 1 /\ e.prev = <<>>
       \/ \E d \in written : d.scope = e.scope /\ e.seq = d.seq + 1 /\ e.prev = d.hash
  /\ \A s \in Scopes :
       \/ heads[s].seq = 0 /\ heads[s].hash = <<>>
       \/ \E e \in written : e.scope = s /\ e.seq = heads[s].seq /\ e.hash = heads[s].hash

Retained ==
  /\ \A s \in Scopes :
       \/ anchors[s].seq = 0 /\ anchors[s].hash = <<>>
       \/ \E e \in written : e.scope = s /\ e.seq = anchors[s].seq /\ e.hash = anchors[s].hash
  /\ \A e \in written : e \in logs <=> e.seq > anchors[e.scope].seq

Closed ==
  \A p \in Purgers : \A e \in batch[p] : \A d \in logs :
    d.scope = e.scope /\ d.seq < e.seq => d \in batch[p]

ChainInv == Linked /\ (Undisturbed => Retained /\ Closed)

LEMMA ChainInit == Init => ChainInv
BY DEF Init, Root, ChainInv, Linked, Retained, Closed

(***************************************************************************)
(* A chain that is linked and retained verifies, up to its finer times.     *)
(***************************************************************************)
LEMMA ChainIsVerified == RecordInv /\ ChainInv => ChainVerifiesExactly
<1> SUFFICES ASSUME RecordInv, ChainInv, Undisturbed, NEW s \in Scopes, NEW e \in RowsOf(s)
             PROVE  /\ WholeMicrosecond(e) <=> e.hash = Hash(e)
                    /\ Follows(e, RowsOf(s), anchors[s])
                    /\ \A d \in RowsOf(s) : d.seq = e.seq => d = e
  BY DEF ChainVerifiesExactly, Verified
<1>1. /\ \A d \in RowsOf(s) : d \in written /\ d.scope = s /\ d \in logs /\ d.seq \in Nat
      /\ Linked /\ Retained
  BY DEF RowsOf, RecordInv, Sources, ChainInv, Undisturbed
<1>2. (WholeMicrosecond(e) <=> e.hash = Hash(e)) /\ \A d \in RowsOf(s) : d.seq = e.seq => d = e
  BY <1>1 DEF Linked
<1>3. e.seq > anchors[s].seq
  BY <1>1 DEF Retained
<1>4. anchors[s].seq \in Nat
  BY <1>1 DEF Retained, RecordInv, Sources
<1>5. CASE e.seq = 1 /\ e.prev = <<>>
  <2>1. anchors[s].seq = 0 /\ anchors[s].hash = <<>>
    BY <1>1, <1>3, <1>4, <1>5 DEF Retained, Linked
  <2> QED BY <1>2, <1>5, <2>1 DEF Follows
<1>6. ASSUME NEW d \in written, d.scope = s, e.seq = d.seq + 1, e.prev = d.hash
      PROVE  Follows(e, RowsOf(s), anchors[s])
  <2>1. d.seq \in Nat /\ d.seq > 0
    BY <1>1 DEF RecordInv, Sources, Linked
  <2>2. CASE d.seq = anchors[s].seq
    <3>1. PICK a \in written : a.scope = s /\ a.seq = anchors[s].seq /\ a.hash = anchors[s].hash
      BY <1>1, <2>1, <2>2 DEF Retained
    <3>2. a = d
      BY <1>1, <1>6, <2>2, <3>1 DEF Linked
    <3> QED BY <1>6, <2>2, <3>1, <3>2 DEF Follows
  <2>3. CASE d.seq # anchors[s].seq
    <3>1. d.seq > anchors[s].seq
      BY <1>3, <1>4, <1>6, <2>1, <2>3
    <3>2. d \in RowsOf(s)
      BY <1>1, <1>6, <3>1 DEF Retained, RowsOf
    <3> QED BY <1>6, <3>1, <3>2 DEF Follows
  <2> QED BY <2>2, <2>3
<1> QED BY <1>1, <1>2, <1>5, <1>6 DEF Linked

(***************************************************************************)
(* Undisturbed is never regained.                                                *)
(***************************************************************************)
LEMMA UndisturbedBefore ==
  ASSUME Undisturbed', written \subseteq written', lost \subseteq lost', overtaken => overtaken'
  PROVE  Undisturbed
BY DEF Undisturbed, ClocksInOrder

LEMMA ChainWrite ==
  ASSUME RecordInv, ChainInv, NEW scope \in Scopes, NEW r, NEW result, NEW e,
         NewEvent(e, scope, r, result), UNCHANGED <<anchors, batch, lost, overtaken>>
  PROVE  ChainInv'
<1>1. e.seq = heads[scope].seq + 1 /\ heads[scope].seq \in Nat
  BY DEF NewEvent, RecordInv, AuditTyped
<1>2. \A d \in written : d.scope \in Scopes /\ d.seq \in Nat /\ d.seq <= heads[d.scope].seq
  BY DEF RecordInv, Sources
<1>3. Linked'
  <2>1. \A d \in written' : (WholeMicrosecond(d) <=> d.hash = Hash(d)) /\ d.seq > 0 /\ d.at \in Int
    BY <1>1 DEF NewEvent, ChainInv, Linked
  <2>2. \A c, d \in written' : c.scope = d.scope /\ c.seq = d.seq => c = d
    BY <1>1, <1>2 DEF NewEvent, ChainInv, Linked
  <2>3. e.prev = heads[scope].hash /\ e.scope = scope /\ written' = written \cup {e}
    BY DEF NewEvent
  <2>4. \/ e.seq = 1 /\ e.prev = <<>>
        \/ \E d \in written' : d.scope = e.scope /\ e.seq = d.seq + 1 /\ e.prev = d.hash
    BY <1>1, <2>3 DEF ChainInv, Linked
  <2>5. \A c \in written' :
          \/ c.seq = 1 /\ c.prev = <<>>
          \/ \E d \in written' : d.scope = c.scope /\ c.seq = d.seq + 1 /\ c.prev = d.hash
    BY <2>3, <2>4 DEF ChainInv, Linked
  <2>6. ASSUME NEW s \in Scopes
        PROVE  \/ heads'[s].seq = 0 /\ heads'[s].hash = <<>>
               \/ \E c \in written' : c.scope = s /\ c.seq = heads'[s].seq /\ c.hash = heads'[s].hash
    <3>1. CASE s = scope
      <4>1. heads'[s].seq = e.seq /\ heads'[s].hash = e.hash
        BY <3>1 DEF NewEvent, RecordInv, AuditTyped
      <4> QED BY <2>3, <3>1, <4>1
    <3>2. CASE s # scope
      <4>1. heads'[s] = heads[s]
        BY <3>2 DEF NewEvent, RecordInv, AuditTyped
      <4> QED BY <2>3, <4>1 DEF ChainInv, Linked
    <3> QED BY <3>1, <3>2
  <2> QED BY <2>1, <2>2, <2>5, <2>6 DEF Linked
<1>4. ASSUME Undisturbed' PROVE Retained' /\ Closed'
  <2>1. Undisturbed
    BY <1>4, UndisturbedBefore DEF NewEvent
  <2>2. Retained /\ Closed
    BY <2>1 DEF ChainInv
  <2>3. anchors[scope].seq < e.seq
    <3>1. anchors[scope].seq = 0 \/ \E d \in written : d.scope = scope /\ d.seq = anchors[scope].seq
      BY <2>2 DEF Retained
    <3> QED BY <1>1, <1>2, <3>1
  <2>4. Retained'
    BY <2>2, <2>3 DEF Retained, NewEvent
  <2>5. Closed'
    <3>1. \A p \in Purgers : \A d \in batch[p] : d.scope = scope => ~(e.seq < d.seq)
      BY <1>1, <1>2, <2>1 DEF RecordInv, Sources, Undisturbed
    <3> QED BY <2>2, <3>1 DEF Closed, NewEvent
  <2> QED BY <2>4, <2>5
<1> QED BY <1>3, <1>4 DEF ChainInv

LEMMA ChainDelete ==
  ASSUME RecordInv, ChainInv, NEW p \in Purgers, DeleteArchived(p)
  PROVE  ChainInv'
<1>1. Linked'
  BY DEF ChainInv, Linked, DeleteArchived
<1>2. ASSUME Undisturbed' PROVE Retained' /\ Closed'
  <2>1. Undisturbed
    BY <1>2, UndisturbedBefore DEF DeleteArchived
  <2>2. Retained /\ Closed /\ Linked /\ lost = {}
    BY <2>1 DEF ChainInv, Undisturbed
  <2>3. batch[p] \subseteq logs
    BY <1>2, <2>2 DEF Undisturbed, DeleteArchived
  <2>4. logs \subseteq written
    BY <2>2 DEF RecordInv, Sources
  <2>5. logs' = logs \ batch[p]
    BY <2>3, <2>4 DEF DeleteArchived, RecordInv, UniqueIds
  <2>6. anchors' = AnchorsAfter(batch[p]) /\ written' = written
    BY DEF DeleteArchived
  <2>7. ASSUME NEW s \in Scopes
        PROVE  /\ \/ anchors'[s].seq = 0 /\ anchors'[s].hash = <<>>
                  \/ \E e \in written : e.scope = s /\ e.seq = anchors'[s].seq /\ e.hash = anchors'[s].hash
               /\ \A e \in written : e.scope = s => (e \in logs' <=> e.seq > anchors'[s].seq)
    <3>1. CASE ~ \E e \in batch[p] : e.scope = s
      <4>1. anchors'[s] = anchors[s]
        BY <2>6, <3>1 DEF AnchorsAfter
      <4> QED BY <2>2, <2>5, <3>1, <4>1 DEF Retained
    <3>2. CASE \E e \in batch[p] : e.scope = s
      <4> DEFINE last == LastOf(batch[p], s)
      <4>1. anchors'[s].seq = last.seq /\ anchors'[s].hash = last.hash
        BY <2>6, <3>2 DEF AnchorsAfter
      <4>2. last \in batch[p] /\ last.scope = s /\ \A d \in batch[p] : d.scope = s => d.seq <= last.seq
        BY <3>2, DeletedBatch
      <4> HIDE DEF last
      <4>3. last \in written /\ last \in logs
        BY <2>3, <2>4, <4>2
      <4>4. last.seq > anchors[s].seq /\ last.seq \in Nat
        BY <2>2, <4>2, <4>3 DEF Retained, RecordInv, Sources
      <4>5. ASSUME NEW e \in written, e.scope = s PROVE e \in logs' <=> e.seq > last.seq
        <5>1. e.seq \in Nat
          BY DEF RecordInv, Sources
        <5>2. ASSUME e.seq > last.seq PROVE e \in logs'
          <6>1. e.seq > anchors[s].seq
            <7>1. anchors[s].seq \in Nat
              BY <2>2 DEF Retained, RecordInv, Sources
            <7> QED BY <4>4, <5>1, <5>2, <7>1
          <6>2. e \in logs
            BY <2>2, <4>5, <6>1 DEF Retained
          <6>3. e \notin batch[p]
            BY <4>2, <4>4, <4>5, <5>1, <5>2
          <6> QED BY <2>5, <6>2, <6>3
        <5>3. ASSUME e \in logs' PROVE e.seq > last.seq
          <6>1. e \in logs /\ e \notin batch[p]
            BY <2>5, <5>3
          <6>2. ~(e.seq < last.seq)
            BY <2>2, <4>2, <4>5, <6>1 DEF Closed
          <6>3. e.seq # last.seq
            BY <2>2, <4>2, <4>3, <4>5, <6>1 DEF Linked
          <6> QED BY <4>4, <5>1, <6>2, <6>3
        <5> QED BY <5>2, <5>3
      <4> QED BY <4>1, <4>2, <4>3, <4>5
    <3> QED BY <3>1, <3>2
  <2>8. Retained'
    BY <2>6, <2>7 DEF Retained, RecordInv, Sources
  <2>9. Closed'
    BY <2>2, <2>5, RecordReturn DEF Closed, DeleteArchived, RecordInv
  <2> QED BY <2>8, <2>9
<1> QED BY <1>1, <1>2 DEF ChainInv

LEMMA ChainPurge ==
  ASSUME RecordInv, ChainInv, NEW p \in Purgers,
         ExpiredEvents(p) \/ ReadRows(p) \/ VerifyIntegrity(p) \/ Archive(p) \/ VerifyImmutable(p)
           \/ GiveUp(p)
  PROVE  ChainInv'
<1>1. UNCHANGED <<heads, logs, anchors, written, lost, overtaken>>
  BY DEF ExpiredEvents, ReadRows, VerifyIntegrity, Archive, VerifyImmutable, GiveUp, chainVars, histVars
<1>2. Linked' /\ (Undisturbed' => Undisturbed) /\ (Retained => Retained')
  BY <1>1 DEF ChainInv, Linked, Retained, Undisturbed, ClocksInOrder
<1>3. ASSUME Undisturbed, Closed PROVE Closed'
  <2>1. CASE ExpiredEvents(p)
    <3>1. \A q \in Purgers : batch'[q] = IF q = p THEN Expired ELSE batch[q]
      BY <2>1 DEF ExpiredEvents, RecordInv, AuditTyped
    <3>2. ASSUME NEW e \in Expired, NEW d \in logs, d.scope = e.scope, d.seq < e.seq
          PROVE  d \in Expired
      <4>1. d \in written /\ e \in written
        BY <1>3 DEF Expired, Undisturbed, RecordInv, Sources
      <4>2. d.at <= e.at /\ d.at \in Int /\ e.at \in Int
        BY <1>3, <3>2, <4>1 DEF Undisturbed, ClocksInOrder, ChainInv, Linked
      <4>3. now - Retention \in Int
        BY AuditAssumption DEF RecordInv, AuditTyped
      <4> QED BY <4>2, <4>3 DEF Expired
    <3> QED BY <1>1, <1>3, <3>1, <3>2 DEF Closed, Expired
  <2>2. CASE UNCHANGED batch
    BY <1>1, <1>3, <2>2 DEF Closed
  <2>3. CASE Return(p)
    BY <1>1, <1>3, <2>3, RecordReturn DEF Closed, RecordInv
  <2> QED BY <2>1, <2>2, <2>3 DEF ReadRows, VerifyIntegrity, Archive, VerifyImmutable, GiveUp
<1> QED BY <1>2, <1>3 DEF ChainInv

LEMMA ChainNext == RecordInv /\ ChainInv /\ [Next]_vars => ChainInv'
<1> SUFFICES ASSUME RecordInv, ChainInv, [Next]_vars PROVE ChainInv'
  OBVIOUS
<1>0. now \in Int
  BY DEF RecordInv, AuditTyped
<1>1. ASSUME NEW r \in Requests, NEW s \in Scopes, AuditedOk(r, s) PROVE ChainInv'
  <2>1. PICK e : NewEvent(e, s, r, "SUCCESS")
    BY <1>0, <1>1, WriteAdds DEF AuditedOk
  <2> QED BY <1>1, <2>1, ChainWrite DEF AuditedOk, workVars
<1>2. ASSUME NEW r \in Requests, NEW s \in Scopes, FailureAudit(r, s) PROVE ChainInv'
  <2>1. CASE Write(s, r, "FAILURE")
    <3>1. PICK e : NewEvent(e, s, r, "FAILURE")
      BY <1>0, <2>1, WriteAdds
    <3> QED BY <1>2, <3>1, ChainWrite DEF FailureAudit, workVars
  <2>2. CASE UNCHANGED <<heads, logs, written>>
    BY <1>2, <2>2 DEF FailureAudit, workVars, ChainInv, Linked, Retained, Closed, Undisturbed, ClocksInOrder
  <2> QED BY <1>2, <2>1, <2>2 DEF FailureAudit
<1>3. ASSUME NEW r \in Requests, AuditedError(r) PROVE ChainInv'
  BY <1>3 DEF AuditedError, chainVars, workVars, histVars, ChainInv, Linked, Retained, Closed, Undisturbed,
              ClocksInOrder
<1>4. ASSUME NEW p \in Purgers, Purge(p) \/ GiveUp(p) PROVE ChainInv'
  BY <1>4, ChainPurge, ChainDelete DEF Purge
<1>5. ASSUME NEW e \in logs, Damage(e) PROVE ChainInv'
  BY <1>5 DEF Damage, ChainInv, Linked, Undisturbed
<1>6. CASE Tick \/ UNCHANGED vars
  BY <1>6 DEF Tick, vars, chainVars, workVars, histVars, ChainInv, Linked, Retained, Closed, Undisturbed,
              ClocksInOrder
<1> QED BY <1>1, <1>2, <1>3, <1>4, <1>5, <1>6 DEF Next

(***************************************************************************)
(* Whatever the program does, and however fine the clocks are, it leaves a  *)
(* chain that verifies from its anchor on exactly when every retained row   *)
(* was written at a whole number of microseconds (auditEventHash covers     *)
(* nanoseconds, the column keeps microseconds).                             *)
(***************************************************************************)
THEOREM ChainAlwaysVerifies == Spec => []ChainVerifiesExactly
BY RecordInit, RecordNext, ChainInit, ChainNext, ChainIsVerified, PTL DEF Spec

-----------------------------------------------------------------------------
(***************************************************************************)
(* Damage, whatever the clocks show.  A row that was changed keeps the hash *)
(* of what was written, a row that was removed leaves a number that nobody  *)
(* else has, and neither the original nor its number is ever written again. *)
(***************************************************************************)
DamageInv ==
  /\ \A d, e \in written : d.scope = e.scope /\ d.seq = e.seq => d.id = e.id
  /\ \A e \in written : "body" \in DOMAIN e /\ e.hash[4] # "changed"
  /\ \A d \in lost : \E w \in written :
       w.id = d.id /\ w.scope = d.scope /\ w.seq = d.seq /\ w.hash = d.hash
  /\ \A e \in logs \cap lost : e.body = "changed"

LEMMA DamageInit == Init => DamageInv
BY DEF Init, DamageInv

LEMMA DamageWrite ==
  ASSUME RecordInv, DamageInv, NEW scope \in Scopes, NEW r, NEW result, NEW e,
         NewEvent(e, scope, r, result), result # "changed", lost' = lost
  PROVE  DamageInv'
<1>1. /\ written' = written \cup {e} /\ logs' = logs \cup {e}
      /\ e.scope = scope /\ e.seq = heads[scope].seq + 1 /\ heads[scope].seq \in Nat
      /\ "body" \in DOMAIN e /\ e.hash[4] = result
  BY DEF NewEvent, RecordInv, AuditTyped
<1>2. \A d \in written \cup lost : d.scope = scope => d.seq # e.seq
  BY <1>1 DEF RecordInv, Sources
<1>3. \A c, d \in written' : c.scope = d.scope /\ c.seq = d.seq => c.id = d.id
  BY <1>1, <1>2 DEF DamageInv
<1>4. \A d \in written' : "body" \in DOMAIN d /\ d.hash[4] # "changed"
  BY <1>1 DEF DamageInv
<1>5. \A d \in logs' \cap lost' : d.body = "changed"
  BY <1>1, <1>2 DEF DamageInv
<1>6. \A d \in lost' : \E w \in written' :
        w.id = d.id /\ w.scope = d.scope /\ w.seq = d.seq /\ w.hash = d.hash
  BY <1>1 DEF DamageInv
<1> QED BY <1>3, <1>4, <1>5, <1>6 DEF DamageInv

LEMMA DamageDone ==
  ASSUME RecordInv, DamageInv, NEW e \in logs, Damage(e)
  PROVE  DamageInv'
<1> DEFINE changed == [e EXCEPT !.body = "changed"]
<1>1. e \in written /\ "body" \in DOMAIN e
  BY DEF Damage, RecordInv, Sources, DamageInv
<1>2. /\ changed.id = e.id /\ changed.scope = e.scope /\ changed.seq = e.seq
      /\ changed.hash = e.hash /\ changed.body = "changed"
  BY <1>1
<1>3. /\ \/ logs' = logs \ {e} /\ lost' = lost \cup {e}
         \/ logs' = (logs \ {e}) \cup {changed} /\ lost' = lost \cup {e, changed}
      /\ written' = written
  BY DEF Damage
<1> HIDE DEF changed
<1>4. \A d \in logs' \cap lost' : d.body = "changed"
  BY <1>2, <1>3 DEF DamageInv
<1>5. \A d \in lost' : \E w \in written' :
        w.id = d.id /\ w.scope = d.scope /\ w.seq = d.seq /\ w.hash = d.hash
  BY <1>1, <1>2, <1>3 DEF DamageInv
<1> QED BY <1>3, <1>4, <1>5 DEF DamageInv

LEMMA DamageNext == RecordInv /\ DamageInv /\ [Next]_vars => DamageInv'
<1> SUFFICES ASSUME RecordInv, DamageInv, [Next]_vars PROVE DamageInv'
  OBVIOUS
<1>0. now \in Int
  BY DEF RecordInv, AuditTyped
<1>1. ASSUME logs' \subseteq logs, UNCHANGED <<written, lost>> PROVE DamageInv'
  BY <1>1 DEF DamageInv
<1>2. ASSUME NEW r \in Requests, NEW s \in Scopes, AuditedOk(r, s) PROVE DamageInv'
  <2>1. PICK e : NewEvent(e, s, r, "SUCCESS")
    BY <1>0, <1>2, WriteAdds DEF AuditedOk
  <2> QED BY <1>2, <2>1, DamageWrite DEF AuditedOk
<1>3. ASSUME NEW r \in Requests, NEW s \in Scopes, FailureAudit(r, s) PROVE DamageInv'
  <2>1. CASE Write(s, r, "FAILURE")
    <3>1. PICK e : NewEvent(e, s, r, "FAILURE")
      BY <1>0, <2>1, WriteAdds
    <3> QED BY <1>3, <3>1, DamageWrite DEF FailureAudit
  <2>2. CASE UNCHANGED <<heads, logs, written>>
    BY <1>1, <1>3, <2>2 DEF FailureAudit
  <2> QED BY <1>3, <2>1, <2>2 DEF FailureAudit
<1>4. ASSUME NEW r \in Requests, AuditedError(r) PROVE DamageInv'
  BY <1>1, <1>4 DEF AuditedError, chainVars, histVars
<1>5. ASSUME NEW p \in Purgers, Purge(p) \/ GiveUp(p) PROVE DamageInv'
  BY <1>1, <1>5 DEF Purge, GiveUp, ExpiredEvents, ReadRows, VerifyIntegrity, Archive, VerifyImmutable,
                    DeleteArchived, chainVars, histVars
<1>6. ASSUME NEW e \in logs, Damage(e) PROVE DamageInv'
  BY <1>6, DamageDone
<1>7. CASE Tick \/ UNCHANGED vars
  BY <1>1, <1>7 DEF Tick, vars, chainVars, histVars
<1> QED BY <1>2, <1>3, <1>4, <1>5, <1>6, <1>7 DEF Next

(***************************************************************************)
(* Rows that verify have every number from the anchor up to the last one.   *)
(***************************************************************************)
LEMMA NoGaps ==
  ASSUME NEW rs, NEW anchor, anchor.seq \in Nat, \A d \in rs : d.seq \in Nat,
         Verified(rs, anchor), NEW n \in Nat, n > anchor.seq, \E d \in rs : d.seq > n
  PROVE  \E d \in rs : d.seq = n
<1> DEFINE T == {d.seq : d \in {c \in rs : c.seq >= n}}
<1>1. T \subseteq Nat /\ T # {}
  <2>1. PICK d \in rs : d.seq > n
    OBVIOUS
  <2>2. d.seq \in Nat /\ d.seq >= n
    BY <2>1
  <2>3. d.seq \in T
    BY <2>2
  <2> QED BY <2>3
<1>2. PICK k \in T : \A m \in T : k <= m
  <2> HIDE DEF T
  <2> QED BY <1>1, LeastNatural
<1>3. PICK d \in rs : d.seq = k /\ k >= n
  BY <1>2
<1>4. CASE k = n
  BY <1>3, <1>4
<1>5. CASE k > n
  <2>1. Follows(d, rs, anchor)
    BY <1>3 DEF Verified
  <2>2. PICK c \in rs : d.seq = c.seq + 1
    BY <1>3, <1>5, <2>1 DEF Follows
  <2>3. c.seq >= n /\ c.seq < k
    BY <1>3, <1>5, <2>2
  <2>4. c.seq \in T
    BY <2>3
  <2> QED BY <1>2, <1>3, <2>2, <2>3, <2>4
<1> QED BY <1>1, <1>2, <1>3, <1>4, <1>5

(***************************************************************************)
(* A row that was changed, or removed although a later one is still there,  *)
(* makes VerifyIntegrity fail: for every number of events, scopes, replicas *)
(* and damages, and for clocks of any precision.                            *)
(***************************************************************************)
THEOREM DamageIsDetected == Spec => []DamageDetected
<1>1. RecordInv /\ DamageInv /\ TypeOK => DamageDetected
  <2> SUFFICES ASSUME RecordInv, DamageInv, TypeOK, NEW e \in lost,
                      Verified(RowsOf(e.scope), anchors[e.scope])
               PROVE  /\ e \notin logs
                      /\ ~(/\ e.seq > anchors[e.scope].seq
                           /\ \A d \in logs : d.id # e.id
                           /\ \E d \in RowsOf(e.scope) : d.seq > e.seq)
    BY DEF DamageDetected
  <2>0. /\ e.scope \in Scopes /\ e.seq \in Nat /\ anchors[e.scope].seq \in Nat
        /\ \A d \in RowsOf(e.scope) : d.seq \in Nat
    BY DEF RecordInv, Sources, TypeOK, RowsOf
  <2>1. PICK w \in written : w.id = e.id /\ w.scope = e.scope /\ w.seq = e.seq /\ w.hash = e.hash
    BY DEF DamageInv
  <2>2. ASSUME e \in logs PROVE FALSE
    <3>1. e.hash = Hash(e) /\ e.body = "changed"
      BY <2>2 DEF Verified, RowsOf, DamageInv
    <3>2. Hash(e)[4] = e.body
      BY DEF Hash
    <3> QED BY <2>1, <3>1, <3>2 DEF DamageInv
  <2>3. ASSUME e.seq > anchors[e.scope].seq, \A d \in logs : d.id # e.id,
               \E d \in RowsOf(e.scope) : d.seq > e.seq
        PROVE  FALSE
    <3>1. PICK d \in RowsOf(e.scope) : d.seq = e.seq
      BY <2>0, <2>3, NoGaps
    <3>2. d \in logs /\ d.scope = e.scope /\ d \in written \cup lost
      BY DEF RowsOf, RecordInv, Sources
    <3>3. \E v \in written : v.id = d.id /\ v.scope = d.scope /\ v.seq = d.seq
      BY <3>2 DEF DamageInv
    <3>4. d.id = e.id
      BY <2>1, <3>1, <3>2, <3>3 DEF DamageInv
    <3> QED BY <2>3, <3>2, <3>4
  <2> QED BY <2>2, <2>3
<1> QED BY <1>1, RecordInit, RecordNext, DamageInit, DamageNext, AuditTypeCorrect, PTL DEF Spec

-----------------------------------------------------------------------------
(***************************************************************************)
(* Evidence.  A changed row stays in the table until its original is in a   *)
(* batch with a receipt, and a purge that has read a changed row passes     *)
(* the verification of its scope only when that has happened.               *)
(***************************************************************************)
Cleared(p) ==
  /\ pc[p] \in {"archive", "verify", "delete"} => todo[p] = {}
  /\ \A e \in batch[p] \ written :
       /\ e.scope \notin todo[p] => Genuine(e.id)
       /\ pc[p] = "anchor" /\ e.scope = Current(p) => e \in rows[p] \/ Genuine(e.id)

EvidenceInv ==
  /\ \A e \in lost \ written : e.body = "changed" /\ (e \in logs \/ Genuine(e.id))
  /\ \A p \in Purgers : Cleared(p)
  /\ ArchiveGenuine

LEMMA EvidenceInit == Init => EvidenceInv
BY DEF Init, EvidenceInv, Cleared, ArchiveGenuine

\* Records and receipts only add up.
LEMMA GenuineStays ==
  ASSUME written \subseteq written', receipts \subseteq receipts', NEW id, Genuine(id)
  PROVE  Genuine(id)'
BY DEF Genuine

LEMMA ClearedStays ==
  ASSUME NEW p, Cleared(p), written \subseteq written', receipts \subseteq receipts',
         pc'[p] = pc[p], batch'[p] = batch[p], todo'[p] = todo[p], rows'[p] = rows[p]
  PROVE  Cleared(p)'
<1>1. Current(p)' = Current(p)
  BY DEF Current
<1> QED BY <1>1, GenuineStays DEF Cleared

LEMMA EvidenceRest ==
  ASSUME EvidenceInv, UNCHANGED <<workVars, objects, receipts, lost>>,
         logs \subseteq logs', written \subseteq written'
  PROVE  EvidenceInv'
<1>1. \A p \in Purgers : Cleared(p)'
  BY ClearedStays DEF EvidenceInv, workVars
<1>2. \A e \in lost' \ written' : e.body = "changed" /\ (e \in logs' \/ Genuine(e.id)')
  BY GenuineStays DEF EvidenceInv
<1>3. ArchiveGenuine'
  BY GenuineStays DEF EvidenceInv, ArchiveGenuine
<1> QED BY <1>1, <1>2, <1>3 DEF EvidenceInv

LEMMA EvidenceDamage ==
  ASSUME RecordInv, DamageInv, EvidenceInv, NEW e \in logs, Damage(e)
  PROVE  EvidenceInv'
<1> DEFINE changed == [e EXCEPT !.body = "changed"]
<1>1. e \in written /\ "body" \in DOMAIN e
  BY DEF Damage, RecordInv, Sources, DamageInv
<1>2. changed.body = "changed"
  BY <1>1
<1>3. /\ \/ logs' = logs \ {e} /\ lost' = lost \cup {e}
         \/ logs' = (logs \ {e}) \cup {changed} /\ lost' = lost \cup {e, changed}
      /\ UNCHANGED <<written, receipts, objects, workVars>>
  BY DEF Damage
<1> HIDE DEF changed
<1>4. \A d \in lost' \ written' : d.body = "changed" /\ (d \in logs' \/ Genuine(d.id)')
  BY <1>1, <1>2, <1>3, GenuineStays DEF EvidenceInv
<1>5. \A p \in Purgers : Cleared(p)'
  BY <1>3, ClearedStays DEF EvidenceInv, workVars
<1>6. ArchiveGenuine'
  BY <1>3, GenuineStays DEF EvidenceInv, ArchiveGenuine
<1> QED BY <1>4, <1>5, <1>6 DEF EvidenceInv

\* The other purges, and a purge that ends.
LEMMA EvidenceReturn ==
  ASSUME RecordInv, EvidenceInv, NEW p \in Purgers, Return(p),
         written \subseteq written', receipts \subseteq receipts'
  PROVE  \A q \in Purgers : Cleared(q)'
<1>1. batch'[p] = {} /\ pc'[p] = "idle"
  BY DEF Return, RecordInv, AuditTyped
<1>2. Cleared(p)'
  BY <1>1 DEF Cleared
<1>3. \A q \in Purgers \ {p} :
        pc'[q] = pc[q] /\ batch'[q] = batch[q] /\ todo'[q] = todo[q] /\ rows'[q] = rows[q]
  BY DEF Return, RecordInv, AuditTyped
<1> QED BY <1>2, <1>3, ClearedStays DEF EvidenceInv

\* A changed row does not have the hash of its fields.
LEMMA ChangedFails ==
  ASSUME DamageInv, EvidenceInv, NEW e \in lost \ written
  PROVE  e.hash # Hash(e)
<1>1. e.body = "changed" /\ \E w \in written : w.hash = e.hash /\ w.hash[4] # "changed"
  BY DEF EvidenceInv, DamageInv
<1>2. Hash(e)[4] = e.body
  BY DEF Hash
<1> QED BY <1>1, <1>2

LEMMA EvidencePurge ==
  ASSUME RecordInv, DamageInv, EvidenceInv, NEW p \in Purgers,
         ExpiredEvents(p) \/ ReadRows(p) \/ VerifyIntegrity(p) \/ Archive(p) \/ VerifyImmutable(p)
           \/ GiveUp(p)
  PROVE  EvidenceInv'
<1>1. UNCHANGED <<logs, receipts, written, lost>>
  BY DEF ExpiredEvents, ReadRows, VerifyIntegrity, Archive, VerifyImmutable, GiveUp, chainVars, histVars
<1>2. \A e \in lost' \ written' : e.body = "changed" /\ (e \in logs' \/ Genuine(e.id)')
  BY <1>1, GenuineStays DEF EvidenceInv
<1>3. batch[p] \subseteq written \cup lost /\ Cleared(p)
  BY DEF RecordInv, Sources, EvidenceInv
<1>4. ArchiveGenuine'
  <2>1. \A b \in objects' \ objects : b = batch[p] /\ pc[p] = "archive"
    BY DEF ExpiredEvents, ReadRows, VerifyIntegrity, Archive, VerifyImmutable, GiveUp
  <2>2. pc[p] = "archive" => \A e \in batch[p] : e \in written \/ Genuine(e.id)
    BY <1>3 DEF Cleared
  <2> QED BY <1>1, <2>1, <2>2, GenuineStays DEF EvidenceInv, ArchiveGenuine
<1>5. CASE Return(p)
  BY <1>1, <1>2, <1>4, <1>5, EvidenceReturn DEF EvidenceInv
<1>6. CASE ~Return(p)
  <2>1. \A q \in Purgers \ {p} :
          pc'[q] = pc[q] /\ batch'[q] = batch[q] /\ todo'[q] = todo[q] /\ rows'[q] = rows[q]
    BY <1>6 DEF ExpiredEvents, ReadRows, VerifyIntegrity, Archive, VerifyImmutable, GiveUp, RecordInv, AuditTyped
  <2>2. \A q \in Purgers \ {p} : Cleared(q)'
    BY <1>1, <2>1, ClearedStays DEF EvidenceInv
  <2> USE DEF RecordInv, AuditTyped
  <2>3. CASE ExpiredEvents(p)
    <3>1. pc'[p] = "rows" /\ batch'[p] = Expired /\ todo'[p] = {e.scope : e \in Expired}
      BY <2>3 DEF ExpiredEvents
    <3> QED BY <1>2, <1>4, <2>2, <3>1 DEF EvidenceInv, Cleared
  <2>4. CASE ReadRows(p)
    <3>1. pc[p] = "rows" /\ pc'[p] = "anchor" /\ batch'[p] = batch[p] /\ todo'[p] = todo[p]
          /\ rows'[p] = RowsOf(Current(p))
      BY <2>4 DEF ReadRows
    <3>2. Current(p)' = Current(p)
      BY <3>1 DEF Current
    <3>3. \A e \in batch[p] \ written : e.scope = Current(p) => e \in rows'[p] \/ Genuine(e.id)
      BY <1>3, <3>1 DEF EvidenceInv, RowsOf
    <3>4. Cleared(p)'
      BY <1>1, <1>3, <3>1, <3>2, <3>3, GenuineStays DEF Cleared
    <3> QED BY <1>2, <1>4, <2>2, <3>4 DEF EvidenceInv
  <2>5. CASE VerifyIntegrity(p)
    <3>1. /\ pc[p] = "anchor" /\ Verified(rows[p], anchors[Current(p)])
          /\ todo'[p] = todo[p] \ {Current(p)} /\ batch'[p] = batch[p]
          /\ pc'[p] = IF todo'[p] = {} THEN "archive" ELSE "rows"
      BY <1>6, <2>5 DEF VerifyIntegrity
    <3>2. ASSUME NEW e \in batch[p] \ written, e.scope \notin todo'[p] PROVE Genuine(e.id)
      <4>1. e \notin rows[p]
        BY <1>3, <3>1, ChangedFails DEF Verified
      <4> QED BY <1>3, <3>1, <3>2, <4>1 DEF Cleared
    <3>3. Cleared(p)'
      BY <1>1, <3>1, <3>2, GenuineStays DEF Cleared
    <3> QED BY <1>2, <1>4, <2>2, <3>3 DEF EvidenceInv
  <2>6. CASE Archive(p) \/ VerifyImmutable(p)
    <3>1. /\ pc[p] \in {"archive", "verify"} /\ pc'[p] \in {"verify", "delete"}
          /\ batch'[p] = batch[p] /\ todo'[p] = todo[p]
      BY <2>6 DEF Archive, VerifyImmutable
    <3>2. Cleared(p)'
      BY <1>1, <1>3, <3>1, GenuineStays DEF Cleared
    <3> QED BY <1>2, <1>4, <2>2, <3>2 DEF EvidenceInv
  <2> QED BY <1>6, <2>3, <2>4, <2>5, <2>6 DEF GiveUp
<1> QED BY <1>5, <1>6

LEMMA EvidenceDelete ==
  ASSUME RecordInv, EvidenceInv, NEW p \in Purgers, DeleteArchived(p)
  PROVE  EvidenceInv'
<1>1. /\ receipts' = receipts \cup {batch[p]} /\ logs' = {e \in logs : \A d \in batch[p] : d.id # e.id}
      /\ UNCHANGED <<written, lost, objects>> /\ Return(p) /\ pc[p] = "delete"
  BY DEF DeleteArchived
<1>2. \A d \in batch[p] : Genuine(d.id)'
  <2>1. \A d \in batch[p] \ written : Genuine(d.id)
    BY <1>1 DEF EvidenceInv, Cleared
  <2>2. \A d \in batch[p] \cap written : Genuine(d.id)'
    BY <1>1 DEF Genuine
  <2> QED BY <1>1, <2>1, <2>2, GenuineStays
<1>3. \A e \in lost' \ written' : e.body = "changed" /\ (e \in logs' \/ Genuine(e.id)')
  BY <1>1, <1>2, GenuineStays DEF EvidenceInv
<1>4. ArchiveGenuine'
  BY <1>1, GenuineStays DEF EvidenceInv, ArchiveGenuine
<1> QED BY <1>1, <1>3, <1>4, EvidenceReturn DEF EvidenceInv

LEMMA EvidenceNext == RecordInv /\ DamageInv /\ EvidenceInv /\ [Next]_vars => EvidenceInv'
<1> SUFFICES ASSUME RecordInv, DamageInv, EvidenceInv, [Next]_vars PROVE EvidenceInv'
  OBVIOUS
<1>1. ASSUME NEW r \in Requests, NEW s \in Scopes, AuditedOk(r, s) \/ FailureAudit(r, s) PROVE EvidenceInv'
  <2>1. UNCHANGED <<workVars, objects, receipts, lost>> /\ logs \subseteq logs' /\ written \subseteq written'
    BY <1>1 DEF AuditedOk, FailureAudit, Write
  <2> QED BY <2>1, EvidenceRest
<1>2. ASSUME NEW r \in Requests, AuditedError(r) PROVE EvidenceInv'
  BY <1>2, EvidenceRest DEF AuditedError, chainVars, histVars
<1>3. ASSUME NEW p \in Purgers, Purge(p) \/ GiveUp(p) PROVE EvidenceInv'
  BY <1>3, EvidencePurge, EvidenceDelete DEF Purge
<1>4. ASSUME NEW e \in logs, Damage(e) PROVE EvidenceInv'
  BY <1>4, EvidenceDamage
<1>5. CASE Tick \/ UNCHANGED vars
  BY <1>5, EvidenceRest DEF Tick, vars, chainVars, histVars
<1> QED BY <1>1, <1>2, <1>3, <1>4, <1>5 DEF Next

(***************************************************************************)
(* What was changed in the table does not become evidence: PurgeExpired     *)
(* archives a changed row only after the purge of another worker has put    *)
(* the original, with a receipt, into the WORM store.                       *)
(***************************************************************************)
THEOREM ArchiveIsGenuine == Spec => []ArchiveGenuine
<1>1. EvidenceInv => ArchiveGenuine
  BY DEF EvidenceInv
<1> QED BY <1>1, RecordInit, RecordNext, DamageInit, DamageNext, EvidenceInit, EvidenceNext, PTL DEF Spec
=============================================================================
