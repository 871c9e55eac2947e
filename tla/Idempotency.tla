---------------------------- MODULE Idempotency -----------------------------
(***************************************************************************)
(* Cross-instance idempotency keys (internal/platform/idempotency).  Calls *)
(* that carry the same key race: Begin inserts a reservation, or finds the *)
(* one there is; the call that created it executes the request, then calls *)
(* Complete or Forget.  Begin is several statements with no transaction    *)
(* around them, and reservations expire.                                   *)
(*                                                                         *)
(* One key is modelled.  A call has at most one reservation, whose id is   *)
(* the call itself; reqHash says which request the call carries.           *)
(***************************************************************************)
EXTENDS Naturals, FiniteSets

CONSTANTS IdemCalls,  \* the calls that use the key
          Hashes,     \* request hashes
          NoCall

\* What the theorems assume of the constants.
IdempotencyAssumption == NoCall \notin IdemCalls

VARIABLES
  keyRow,   \* the record of the key, or NoKey
  lapsed,   \* the ids of records whose expires_at has passed
  reqHash,  \* reqHash[c]: the hash of c's request
  idemPc,   \* idemPc[c]: the next statement of call c
  seen,     \* seen[c]: the record that c has read
  result    \* result[c]: what c was answered with, as [kind, from]

idemVars == <<keyRow, lapsed, reqHash, idemPc, seen, result>>

NoKey == [id |-> NoCall, state |-> "NONE", hash |-> NoCall, response |-> NoCall]

\* The response of a request is named after the call that executed it.
KeyRows == [id : IdemCalls, state : {"PROCESSING", "COMPLETED"}, hash : Hashes,
            response : IdemCalls \cup {NoCall}]

Results == [kind : {"none", "created", "conflict", "busy", "replay"}, from : IdemCalls \cup {NoCall}]

NoResult == [kind |-> "none", from |-> NoCall]

IdemTypeOK ==
  /\ keyRow \in KeyRows \cup {NoKey}
  /\ lapsed \subseteq IdemCalls
  /\ reqHash \in [IdemCalls -> Hashes]
  /\ idemPc \in [IdemCalls -> {"insert", "select", "delete", "execute", "complete", "forget", "done"}]
  /\ seen \in [IdemCalls -> KeyRows \cup {NoKey}]
  /\ result \in [IdemCalls -> Results]

IdemInit ==
  /\ keyRow = NoKey
  /\ lapsed = {}
  /\ reqHash \in [IdemCalls -> Hashes]
  /\ idemPc = [c \in IdemCalls |-> "insert"]
  /\ seen = [c \in IdemCalls |-> NoKey]
  /\ result = [c \in IdemCalls |-> NoResult]

IdemGoto(c, label) == idemPc' = [idemPc EXCEPT ![c] = label]

-----------------------------------------------------------------------------
(* Begin: the INSERT succeeds and the call owns the key, or it fails (the  *)
(* unique key, or an error of the database) and the record is read.        *)
BeginInsert(c) ==
  /\ idemPc[c] = "insert"
  /\ keyRow = NoKey
  /\ keyRow' = [id |-> c, state |-> "PROCESSING", hash |-> reqHash[c], response |-> NoCall]
  /\ result' = [result EXCEPT ![c] = [kind |-> "created", from |-> c]]
  /\ IdemGoto(c, "execute")
  /\ UNCHANGED <<lapsed, reqHash, seen>>

BeginInsertFails(c) ==
  /\ idemPc[c] = "insert"
  /\ IdemGoto(c, "select")
  /\ UNCHANGED <<keyRow, lapsed, reqHash, seen, result>>

(* What the caller is told of a record that has not expired: a different   *)
(* request, one that is being executed, or the response to replay.         *)
Answer(c) ==
  IF keyRow.hash # reqHash[c] THEN [kind |-> "conflict", from |-> NoCall]
  ELSE IF keyRow.state = "COMPLETED" THEN [kind |-> "replay", from |-> keyRow.response]
  ELSE [kind |-> "busy", from |-> NoCall]

(* Begin: the SELECT; if the record is gone again, Begin returns the error *)
(* of the INSERT, and an expired record is to be deleted.                  *)
BeginSelect(c) ==
  /\ idemPc[c] = "select"
  /\ \/ keyRow = NoKey /\ IdemGoto(c, "done") /\ UNCHANGED <<seen, result>>
     \/ /\ keyRow # NoKey /\ keyRow.id \in lapsed
        /\ seen' = [seen EXCEPT ![c] = keyRow]
        /\ IdemGoto(c, "delete")
        /\ UNCHANGED result
     \/ /\ keyRow # NoKey /\ keyRow.id \notin lapsed
        /\ result' = [result EXCEPT ![c] = Answer(c)]
        /\ IdemGoto(c, "done")
        /\ UNCHANGED seen
  /\ UNCHANGED <<keyRow, lapsed, reqHash>>

\* The condition of the DELETE: WHERE id = the id that was read.
SameRecord(c) == keyRow.id = seen[c].id

\* Begin: DELETE the expired record, whose error is ignored, and start again.
BeginDelete(c) ==
  /\ idemPc[c] = "delete"
  /\ keyRow' = IF SameRecord(c) THEN NoKey ELSE keyRow
  /\ IdemGoto(c, "insert")
  /\ UNCHANGED <<lapsed, reqHash, seen, result>>

\* The request is executed; its response is to be stored, or it failed.
Execute(c) ==
  /\ idemPc[c] = "execute"
  /\ IdemGoto(c, "complete") \/ IdemGoto(c, "forget")
  /\ UNCHANGED <<keyRow, lapsed, reqHash, seen, result>>

\* The conditions WHERE id=? AND state='PROCESSING' of Complete.
Owns(c) == keyRow.id = c /\ keyRow.state = "PROCESSING"

Complete(c) ==
  /\ idemPc[c] = "complete"
  /\ keyRow' = IF Owns(c) THEN [keyRow EXCEPT !.state = "COMPLETED", !.response = c] ELSE keyRow
  /\ IdemGoto(c, "done")
  /\ UNCHANGED <<lapsed, reqHash, seen, result>>

Forget(c) ==
  /\ idemPc[c] = "forget"
  /\ keyRow' = IF keyRow.id = c THEN NoKey ELSE keyRow
  /\ IdemGoto(c, "done")
  /\ UNCHANGED <<lapsed, reqHash, seen, result>>

\* The instance that executes the request dies.
Crash(c) ==
  /\ idemPc[c] \in {"execute", "complete", "forget"}
  /\ IdemGoto(c, "done")
  /\ UNCHANGED <<keyRow, lapsed, reqHash, seen, result>>

\* The clock passes expires_at of the record.
PassKeyExpiry ==
  /\ keyRow # NoKey /\ keyRow.id \notin lapsed
  /\ lapsed' = lapsed \cup {keyRow.id}
  /\ UNCHANGED <<keyRow, reqHash, idemPc, seen, result>>

\* PurgeExpired, once an hour in every worker.
PurgeExpired ==
  /\ keyRow # NoKey /\ keyRow.id \in lapsed
  /\ keyRow' = NoKey
  /\ UNCHANGED <<lapsed, reqHash, idemPc, seen, result>>

Begin(c) == BeginInsert(c) \/ BeginInsertFails(c) \/ BeginSelect(c) \/ BeginDelete(c)

IdemNext ==
  \/ \E c \in IdemCalls : Begin(c) \/ Execute(c) \/ Complete(c) \/ Forget(c) \/ Crash(c)
  \/ PassKeyExpiry
  \/ PurgeExpired

IdemSpec == IdemInit /\ [][IdemNext]_idemVars

-----------------------------------------------------------------------------
Executing == {c \in IdemCalls : idemPc[c] \in {"execute", "complete", "forget"}}

(* Two calls execute under the key at once only if the reservation of one  *)
(* of them has run out; races in Begin between the SELECT of an expired    *)
(* record and its DELETE never give a live key to two calls.               *)
OneLiveExecution == Cardinality(Executing \ lapsed) <= 1

(* The reservation of a call that is executing stays in place until it     *)
(* expires: nobody else's Begin, Complete or Forget removes it.            *)
LiveReservationKept ==
  \A c \in Executing \ lapsed : keyRow.id = c /\ keyRow.state = "PROCESSING"

(* A replayed response is the response to the very same request, never to  *)
(* another that reused the key, and its call really executed it.           *)
ReplaysSameRequest ==
  \A c \in IdemCalls : result[c].kind = "replay" =>
    /\ result[c].from \in IdemCalls
    /\ reqHash[result[c].from] = reqHash[c]
    /\ result[result[c].from].kind = "created"

=============================================================================
