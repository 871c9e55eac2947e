----------------------------- MODULE Quarantine -----------------------------
(***************************************************************************)
(* QuarantineController: uploads are stored apart, scanned, and promoted to  *)
(* the governed store.  Several workers call Scan, Promote and Cleanup; a    *)
(* call reads the record once, works on objects, and stores its result by a  *)
(* compare-and-swap on the status it read.  The record store, the object     *)
(* store and the scanner are external; each call to them is a step.          *)
(***************************************************************************)
EXTENDS Storage

CONSTANTS
    Ids,        \* quarantine identities
    Workers,    \* concurrent calls of Scan, Promote and Cleanup
    Upload,     \* the request that is submitted under each identity
    Contract,   \* capability contract of the governed store
    MaxSize,    \* the controller's limit
    ScanLimit,  \* the scanner's limit
    MaxFaults   \* bound on failed calls and deaths

VARIABLES
    stage,       \* progress of each Submit
    record,      \* quarantine records
    object,      \* quarantined objects: what has become of the bytes
    puts,        \* successful PutGoverned calls per identity
    qExpired,    \* the time is after ExpiresAt
    qPc, qCall,  \* step and memory of each worker
    faults,
    cleared,     \* history: bytes the scanner found clean
    governed     \* history: bytes the governed store was given

qVars == <<stage, record, object, puts, qExpired, qPc, qCall, faults, cleared, governed>>

Statuses ==
    {"Quarantined", "Scanning", "Clean", "ScanFailed", "Rejected", "Expired", "Promoted", "PromotionFailed",
     "CleanupPending"}

Bytes == {"submitted", "damaged"}

NoRecord == [status |-> "none", scan |-> "none", version |-> 0]

QNoCall == [op |-> "none", id |-> "none", copy |-> NoRecord, next |-> NoRecord]

-----------------------------------------------------------------------------
(***************************************************************************)
(* The checks of Submit: size, checksum, options of the promotion, and that *)
(* the declared type agrees with the detected one and is allowed.           *)
(***************************************************************************)
Generic == "application/octet-stream"

Declared(u) == IF u.declared = "" THEN u.detected ELSE u.declared

TypesAgree(u) ==
    Declared(u) = Generic \/ u.detected = Generic \/ Declared(u) = u.detected

Admissible(u) ==
    /\ u.size \in 1 .. MaxSize
    /\ u.maxBytes > 0 => u.size <= u.maxBytes
    /\ u.checksum \in {"none", "matches"}
    /\ ValidGovernedWrite([u.options EXCEPT !.checksum = TRUE])
    /\ TypesAgree(u)
    /\ u.allowed = {} \/ Declared(u) \in u.allowed

(***************************************************************************)
(* What the scanner answers for these bytes; it refuses more than its own   *)
(* limit.                                                                  *)
(***************************************************************************)
Verdict(id) ==
    IF Upload[id].size > ScanLimit THEN "error"
    ELSE IF Upload[id].malicious THEN "Malicious" ELSE "Clean"

QTypeOK ==
    /\ stage \in [Ids -> {"new", "stored", "done"}]
    /\ record \in [Ids -> [status : Statuses \cup {"none"}, scan : {"none", "Clean", "Malicious"}, version : 0 .. 1]]
    /\ object \in [Ids -> Bytes \cup {"none"}]
    /\ puts \in [Ids -> Nat]
    /\ qExpired \in [Ids -> BOOLEAN]
    /\ qPc \in [Workers -> {"idle", "swap", "scan", "read", "put", "delete"}]
    /\ \A w \in Workers : qPc[w] # "idle" => qCall[w].id \in Ids
    /\ cleared \in [Ids -> SUBSET Bytes] /\ governed \in [Ids -> SUBSET Bytes]
    /\ faults \in Nat

QInit ==
    /\ stage = [i \in Ids |-> "new"]
    /\ record = [i \in Ids |-> NoRecord]
    /\ object = [i \in Ids |-> "none"]
    /\ puts = [i \in Ids |-> 0]
    /\ qExpired = [i \in Ids |-> FALSE]
    /\ qPc = [w \in Workers |-> "idle"] /\ qCall = [w \in Workers |-> QNoCall]
    /\ faults = 0
    /\ cleared = [i \in Ids |-> {}] /\ governed = [i \in Ids |-> {}]

Fault == faults < MaxFaults /\ faults' = faults + 1

(***************************************************************************)
(* Submit stores the object, then the record; when the record cannot be     *)
(* created the object is deleted if that succeeds.                          *)
(***************************************************************************)
SubmitPut(i) ==
    /\ stage[i] = "new" /\ Admissible(Upload[i])
    /\ stage' = [stage EXCEPT ![i] = "stored"]
    /\ object' = [object EXCEPT ![i] = "submitted"]
    /\ UNCHANGED <<record, puts, qExpired, qPc, qCall, faults, cleared, governed>>

SubmitCreate(i) ==
    /\ stage[i] = "stored"
    /\ stage' = [stage EXCEPT ![i] = "done"]
    /\ record' = [record EXCEPT ![i] = [NoRecord EXCEPT !.status = "Quarantined"]]
    /\ UNCHANGED <<object, puts, qExpired, qPc, qCall, faults, cleared, governed>>

\* An error of Create may come after the record was written; the object is deleted either
\* way, if that succeeds.
SubmitError(i) ==
    /\ stage[i] = "stored" /\ Fault
    /\ stage' = [stage EXCEPT ![i] = "done"]
    /\ object' \in {object, [object EXCEPT ![i] = "none"]}
    /\ record' \in {record, [record EXCEPT ![i] = [NoRecord EXCEPT !.status = "Quarantined"]]}
    /\ UNCHANGED <<puts, qExpired, qPc, qCall, cleared, governed>>

-----------------------------------------------------------------------------
(***************************************************************************)
(* The calls.  To is what the record becomes at the next compare-and-swap.  *)
(***************************************************************************)
QGoto(w, step, to) ==
    /\ qPc' = [qPc EXCEPT ![w] = step]
    /\ qCall' = [qCall EXCEPT ![w].next = to]

Return(w) ==
    /\ qPc' = [qPc EXCEPT ![w] = "idle"]
    /\ qCall' = [qCall EXCEPT ![w] = QNoCall]

(***************************************************************************)
(* The start of Scan, Promote and Cleanup: read the record and decide.      *)
(* Scan and Promote look at the deadline before they look at the status.    *)
(***************************************************************************)
QBegin(w, i, op, step, status) ==
    /\ qPc[w] = "idle"
    /\ qPc' = [qPc EXCEPT ![w] = step]
    /\ qCall' = [qCall EXCEPT ![w] = [op |-> op, id |-> i, copy |-> record[i],
                                    next |-> [record[i] EXCEPT !.status = status]]]
    /\ UNCHANGED <<stage, record, object, puts, qExpired, faults, cleared, governed>>

ReadExpired(w, i) ==
    /\ qExpired[i] /\ record[i].status # "none"
    /\ QBegin(w, i, "expire", "swap", "Expired")

BeginScan(w, i) ==
    /\ ~qExpired[i] /\ record[i].status = "Quarantined"
    /\ QBegin(w, i, "scan", "swap", "Scanning")

BeginPromote(w, i) ==
    /\ ~qExpired[i] /\ record[i].status = "Clean"
    /\ QBegin(w, i, "promote", "read", "Clean")

BeginCleanup(w, i) ==
    /\ record[i].status = "CleanupPending"
    /\ QBegin(w, i, "cleanup", "delete", "Promoted")

(***************************************************************************)
(* transition: CompareAndSwap on the status that was read.  After the swap  *)
(* to Scanning the same call goes on to scan.                               *)
(***************************************************************************)
Swap(w) ==
    /\ qPc[w] = "swap"
    /\ LET i == qCall[w].id  to == qCall[w].next
       IN  IF record[i].status = qCall[w].copy.status
           THEN /\ record' = [record EXCEPT ![i] = to]
                /\ IF to.status = "Scanning"
                   THEN /\ qPc' = [qPc EXCEPT ![w] = "scan"]
                        /\ qCall' = [qCall EXCEPT ![w].copy = to]
                   ELSE Return(w)
           ELSE UNCHANGED record /\ Return(w)
    /\ UNCHANGED <<stage, object, puts, qExpired, faults, cleared, governed>>

(***************************************************************************)
(* Scan reads the object and asks the scanner.  Everything but clean        *)
(* evidence ends in Rejected or ScanFailed.                                 *)
(***************************************************************************)
Scan(w) ==
    /\ qPc[w] = "scan"
    /\ LET i == qCall[w].id  copy == qCall[w].copy
       IN  \/ /\ object[i] # "none" /\ Verdict(i) = "Clean"
              /\ QGoto(w, "swap", [copy EXCEPT !.status = "Clean", !.scan = "Clean"])
              /\ cleared' = [cleared EXCEPT ![i] = @ \cup {object[i]}]
              /\ UNCHANGED faults
           \/ /\ object[i] # "none" /\ Verdict(i) = "Malicious"
              /\ QGoto(w, "swap", [copy EXCEPT !.status = "Rejected", !.scan = "Malicious"])
              /\ UNCHANGED <<cleared, faults>>
           \/ /\ object[i] = "none" \/ Verdict(i) = "error"
              /\ QGoto(w, "swap", [copy EXCEPT !.status = "ScanFailed"])
              /\ UNCHANGED <<cleared, faults>>
           \/ /\ Fault
              /\ QGoto(w, "swap", [copy EXCEPT !.status = "ScanFailed"])
              /\ UNCHANGED cleared
    /\ UNCHANGED <<stage, record, object, puts, qExpired, governed>>

(***************************************************************************)
(* Promote reads the object; missing or incomplete bytes end the call, and  *)
(* bytes with another digest reject the record.                             *)
(***************************************************************************)
ReadObject(w) ==
    /\ qPc[w] = "read"
    /\ LET i == qCall[w].id
       IN  \/ object[i] = "none" /\ Return(w)
           \/ object[i] = "damaged" /\ QGoto(w, "swap", [qCall[w].copy EXCEPT !.status = "Rejected"])
           \/ object[i] = "submitted" /\ QGoto(w, "put", qCall[w].copy)
    /\ UNCHANGED <<stage, record, object, puts, qExpired, faults, cleared, governed>>

(***************************************************************************)
(* PutGoverned: refused without target-tested capabilities; a call that     *)
(* fails may have stored a version.                                         *)
(***************************************************************************)
Stored(i) ==
    /\ puts' = [puts EXCEPT ![i] = @ + 1]
    /\ governed' = [governed EXCEPT ![i] = @ \cup {"submitted"}]

PutGoverned(w) ==
    /\ qPc[w] = "put"
    /\ LET i == qCall[w].id  copy == qCall[w].copy
           allowed == GovernedWriteAllowed(Contract, [Upload[i].options EXCEPT !.checksum = TRUE])
       IN  \/ /\ allowed /\ Stored(i)
              /\ QGoto(w, "delete", [copy EXCEPT !.version = 1])
              /\ UNCHANGED faults
           \/ /\ ~allowed
              /\ QGoto(w, "swap", [copy EXCEPT !.status = "PromotionFailed"])
              /\ UNCHANGED <<puts, governed, faults>>
           \/ /\ allowed /\ Fault
              /\ QGoto(w, "swap", [copy EXCEPT !.status = "PromotionFailed"])
              /\ Stored(i) \/ UNCHANGED <<puts, governed>>
    /\ UNCHANGED <<stage, record, object, qExpired, cleared>>

(***************************************************************************)
(* Promote and Cleanup delete the quarantined object.  When that fails,     *)
(* Promote leaves the record in CleanupPending and Cleanup changes nothing. *)
(***************************************************************************)
DeleteObject(w) ==
    /\ qPc[w] = "delete"
    /\ LET i == qCall[w].id  next == qCall[w].next
       IN  \/ /\ object' = [object EXCEPT ![i] = "none"]
              /\ QGoto(w, "swap", [next EXCEPT !.status = "Promoted"])
              /\ UNCHANGED faults
           \/ /\ Fault
              /\ object' \in {object, [object EXCEPT ![i] = "none"]}
              /\ IF qCall[w].op = "promote"
                 THEN QGoto(w, "swap", [next EXCEPT !.status = "CleanupPending"])
                 ELSE Return(w)
    /\ UNCHANGED <<stage, record, puts, qExpired, cleared, governed>>

-----------------------------------------------------------------------------
(***************************************************************************)
(* A worker dies; a deadline passes; stored bytes rot.                      *)
(***************************************************************************)
Die(w) ==
    /\ qPc[w] # "idle" /\ Fault /\ Return(w)
    /\ UNCHANGED <<stage, record, object, puts, qExpired, cleared, governed>>

QPassExpiry(i) ==
    /\ stage[i] = "done" /\ ~qExpired[i]
    /\ qExpired' = [qExpired EXCEPT ![i] = TRUE]
    /\ UNCHANGED <<stage, record, object, puts, qPc, qCall, faults, cleared, governed>>

Rot(i) ==
    /\ object[i] = "submitted" /\ Fault
    /\ object' = [object EXCEPT ![i] = "damaged"]
    /\ UNCHANGED <<stage, record, puts, qExpired, qPc, qCall, cleared, governed>>

QNext ==
    \/ \E i \in Ids : SubmitPut(i) \/ SubmitCreate(i) \/ SubmitError(i) \/ QPassExpiry(i) \/ Rot(i)
    \/ \E w \in Workers, i \in Ids :
          ReadExpired(w, i) \/ BeginScan(w, i) \/ BeginPromote(w, i) \/ BeginCleanup(w, i)
    \/ \E w \in Workers :
          Swap(w) \/ Scan(w) \/ ReadObject(w) \/ PutGoverned(w) \/ DeleteObject(w) \/ Die(w)

QSpec == QInit /\ [][QNext]_qVars

-----------------------------------------------------------------------------
(***************************************************************************)
(* Whatever reaches the governed store is, byte for byte, what was          *)
(* submitted, and the scanner found these bytes clean.                      *)
(***************************************************************************)
PromotedWasCleared ==
    \A i \in Ids : governed[i] # {} => governed[i] = {"submitted"} /\ "submitted" \in cleared[i]

(***************************************************************************)
(* A record says Promoted or CleanupPending only when the governed store    *)
(* has the object, and Promoted only when the quarantined copy is gone.     *)
(***************************************************************************)
RecordIsTrue ==
    \A i \in Ids :
        /\ record[i].status \in {"Promoted", "CleanupPending"} => puts[i] > 0
        /\ record[i].status = "Promoted" => object[i] = "none"

(***************************************************************************)
(* No two calls scan the same object at the same time: the swap to Scanning *)
(* succeeds for one of them.                                                *)
(***************************************************************************)
Scans(w) == qPc[w] = "scan" \/ (qPc[w] = "swap" /\ qCall[w].op = "scan" /\ qCall[w].copy.status = "Scanning")

ScansAlone ==
    \A v, w \in Workers : Scans(v) /\ Scans(w) /\ qCall[v].id = qCall[w].id => v = w

(***************************************************************************)
(* The comment on QuarantineRecordStore says that the compare-and-swap      *)
(* prevents two workers from promoting the same object concurrently.        *)
(***************************************************************************)
Promotes(w) == qPc[w] \in {"put", "delete"} /\ qCall[w].op = "promote"

PromotesAlone ==
    \A v, w \in Workers : Promotes(v) /\ Promotes(w) /\ qCall[v].id = qCall[w].id => v = w
=============================================================================
