-------------------------- MODULE DataExportProofs --------------------------
(***************************************************************************)
(* Download tickets, for every number of tickets, calls and cleanups.      *)
(*                                                                         *)
(* A ticket is handed out once because the calls that delete its object    *)
(* hold the lock of its row: at most one call at a time is between the     *)
(* claim and the commit, and the row is Ready as long as it is (LockInv).  *)
(* Why a ticket was closed survives CleanupPending because the two         *)
(* timestamps always say the same as the history (OutcomeInv).             *)
(***************************************************************************)
EXTENDS DataExport, SequenceTheorems, TLAPS

InDownload == {"consume", "audit"}
AtWork == {"create", "discard", "fetch", "claim", "get", "remove", "mark", "complete"} \cup InDownload

\* A process that works on a ticket has one; a commit follows the deletion.
WorkInv ==
  \A p \in Procs :
    /\ pc[p] \in AtWork => art[p] \in Artifacts
    /\ pc[p] = "audit" => copy[p] \in {"Downloaded", "CleanupPending"}

\* A ticket has no row until the one call that stored its object creates it.
CreateInv ==
  \A c \in Callers : pc[c] = "create" =>
    /\ status[art[c]] = "NONE"
    /\ \A d \in Callers : pc[d] = "create" /\ art[d] = art[c] => d = c

\* One download at a time holds a row, and nobody changes the row meanwhile.
LockInv ==
  \A c \in Callers : pc[c] \in InDownload =>
    /\ status[art[c]] = "Ready"
    /\ \A d \in Callers : pc[d] \in InDownload /\ art[d] = art[c] => d = c

\* The queue of the cleanup holds the CleanupPending rows, each one once.
QueueInv ==
  \A a \in Artifacts : status[a] = "CleanupPending" <=> \E i \in DOMAIN order : order[i] = a

\* The status and the timestamps of a row tell why it was closed, if it was.
OutcomeInv ==
  \A a \in Artifacts :
    /\ status[a] \in {"NONE", "Ready"} <=> outcome[a] = "NONE"
    /\ status[a] \in Final => status[a] = outcome[a]
    /\ downloaded[a] <=> outcome[a] = "Downloaded"
    /\ revoked[a] <=> outcome[a] = "Revoked"

(* The inductive invariant.                                                *)
ExportInv == TypeOK /\ WorkInv /\ CreateInv /\ LockInv /\ QueueInv /\ OutcomeInv /\ OneDownload

-----------------------------------------------------------------------------
\* What is left of a sequence without its k-th element.
LEMMA RemoveAtProperties ==
  ASSUME NEW S, NEW s \in Seq(S), NEW k \in 1..Len(s)
  PROVE  /\ RemoveAt(s, k) \in Seq(S)
         /\ Len(RemoveAt(s, k)) = Len(s) - 1
         /\ \A i \in 1..(Len(s) - 1) : RemoveAt(s, k)[i] = IF i < k THEN s[i] ELSE s[i + 1]
<1> DEFINE front == SubSeq(s, 1, k - 1)
           rest == SubSeq(s, k + 1, Len(s))
<1>1. Len(s) \in Nat /\ k \in Nat /\ \A i \in 1..Len(s) : s[i] \in S
  BY LenProperties, ElementOfSeq
<1>2. /\ front \in Seq(S) /\ Len(front) = k - 1
      /\ \A i \in 1..(k - 1) : front[i] = s[i]
  BY <1>1, SubSeqProperties
<1>3. /\ rest \in Seq(S) /\ Len(rest) = Len(s) - k
      /\ \A i \in 1..(Len(s) - k) : rest[i] = s[k + i]
  BY <1>1, SubSeqProperties
<1> HIDE DEF front, rest
<1>4. /\ front \o rest \in Seq(S)
      /\ Len(front \o rest) = Len(s) - 1
      /\ \A i \in 1..(Len(s) - 1) :
           (front \o rest)[i] = IF i <= k - 1 THEN front[i] ELSE rest[i - (k - 1)]
  BY <1>1, <1>2, <1>3, ConcatProperties
<1>5. ASSUME NEW i \in 1..(Len(s) - 1)
      PROVE  (front \o rest)[i] = IF i < k THEN s[i] ELSE s[i + 1]
  <2>1. CASE i < k
    <3>1. i \in 1..(k - 1)
      BY <2>1, <1>1
    <3> QED
      BY <3>1, <2>1, <1>1, <1>2, <1>4
  <2>2. CASE ~(i < k)
    <3>1. i - (k - 1) \in 1..(Len(s) - k) /\ k + (i - (k - 1)) = i + 1
      BY <2>2, <1>1
    <3>2. rest[i - (k - 1)] = s[i + 1]
      BY <3>1, <1>3
    <3> QED
      BY <3>2, <2>2, <1>1, <1>4
  <2> QED
    BY <2>1, <2>2
<1> QED
  BY <1>4, <1>5 DEF RemoveAt, front, rest

\* A row that joins the queue is the only new one, and joins once.
LEMMA QueueAppend ==
  ASSUME NEW q \in Seq(Artifacts), IsInjective(q), NEW a \in Artifacts,
         \A i \in DOMAIN q : q[i] # a
  PROVE  /\ Append(q, a) \in Seq(Artifacts) /\ IsInjective(Append(q, a))
         /\ \A b : (\E i \in DOMAIN Append(q, a) : Append(q, a)[i] = b)
                     <=> b = a \/ \E i \in DOMAIN q : q[i] = b
<1> DEFINE s == Append(q, a)
<1>1. Len(q) \in Nat /\ DOMAIN q = 1..Len(q)
  BY LenProperties
<1>2. s \in Seq(Artifacts) /\ DOMAIN s = 1..(Len(q) + 1)
  BY <1>1
<1>3. s[Len(q) + 1] = a /\ \A i \in 1..Len(q) : s[i] = q[i]
  BY <1>1
<1> HIDE DEF s
<1>4. IsInjective(s)
  BY <1>1, <1>2, <1>3 DEF IsInjective
<1>5. ASSUME NEW b PROVE (\E i \in DOMAIN s : s[i] = b) <=> b = a \/ \E i \in DOMAIN q : q[i] = b
  BY <1>1, <1>2, <1>3
<1> QED
  BY <1>2, <1>4, <1>5 DEF s

\* A row that leaves the queue is the only one that does.
LEMMA QueueRemove ==
  ASSUME TypeOK, NEW a \in Artifacts, \E i \in DOMAIN order : order[i] = a
  PROVE  /\ RemoveAt(order, Position(a)) \in Seq(Artifacts)
         /\ IsInjective(RemoveAt(order, Position(a)))
         /\ \A b : (\E i \in DOMAIN RemoveAt(order, Position(a)) : RemoveAt(order, Position(a))[i] = b)
                     <=> b # a /\ \E i \in DOMAIN order : order[i] = b
<1> DEFINE k == Position(a)
           s == RemoveAt(order, k)
<1>1. order \in Seq(Artifacts) /\ Len(order) \in Nat /\ DOMAIN order = 1..Len(order)
  BY LenProperties DEF TypeOK
<1>2. k \in 1..Len(order) /\ order[k] = a
  BY <1>1 DEF Position
<1>3. \A i, j \in 1..Len(order) : order[i] = order[j] => i = j
  BY <1>1 DEF TypeOK, IsInjective
<1> HIDE DEF k
<1>4. /\ s \in Seq(Artifacts) /\ Len(s) = Len(order) - 1
      /\ \A i \in 1..(Len(order) - 1) : s[i] = IF i < k THEN order[i] ELSE order[i + 1]
  BY <1>1, <1>2, RemoveAtProperties
<1> HIDE DEF s
<1>5. DOMAIN s = 1..(Len(order) - 1)
  BY <1>4, LenProperties
<1>6. IsInjective(s)
  <2> SUFFICES ASSUME NEW i \in DOMAIN s, NEW j \in DOMAIN s, s[i] = s[j] PROVE i = j
    BY DEF IsInjective
  <2>1. i \in Nat /\ j \in Nat /\ i <= Len(order) - 1 /\ j <= Len(order) - 1 /\ i >= 1 /\ j >= 1
    BY <1>1, <1>5
  <2>2. \E x, y \in 1..Len(order) :
          /\ x = (IF i < k THEN i ELSE i + 1) /\ y = (IF j < k THEN j ELSE j + 1)
          /\ order[x] = order[y]
    BY <2>1, <1>1, <1>4, <1>5
  <2> QED
    BY <2>1, <2>2, <1>1, <1>2, <1>3
<1>7. ASSUME NEW b PROVE (\E i \in DOMAIN s : s[i] = b) <=> b # a /\ \E i \in DOMAIN order : order[i] = b
  <2>1. ASSUME NEW i \in DOMAIN s, s[i] = b PROVE b # a /\ \E j \in DOMAIN order : order[j] = b
    <3>1. PICK x \in 1..Len(order) : x = (IF i < k THEN i ELSE i + 1) /\ order[x] = b /\ x # k
      BY <2>1, <1>1, <1>2, <1>4, <1>5
    <3> QED
      BY <3>1, <1>1, <1>2, <1>3
  <2>2. ASSUME NEW j \in DOMAIN order, order[j] = b, b # a PROVE \E i \in DOMAIN s : s[i] = b
    <3>1. j # k /\ j \in 1..Len(order)
      BY <2>2, <1>1, <1>2
    <3>2. CASE j < k
      <4>1. j \in DOMAIN s /\ s[j] = b
        BY <3>1, <3>2, <2>2, <1>1, <1>2, <1>4, <1>5
      <4> QED
        BY <4>1
    <3>3. CASE j > k
      <4>1. j - 1 \in DOMAIN s /\ ~(j - 1 < k) /\ (j - 1) + 1 = j
        BY <3>1, <3>3, <1>1, <1>2, <1>5
      <4>2. s[j - 1] = b
        BY <4>1, <2>2, <1>4, <1>5
      <4> QED
        BY <4>1, <4>2
    <3> QED
      BY <3>1, <3>2, <3>3, <1>1, <1>2
  <2> QED
    BY <2>1, <2>2
<1> QED
  BY <1>4, <1>6, <1>7 DEF s, k

-----------------------------------------------------------------------------
\* Only process p moves.
Moves(p) ==
  \A q \in Procs \ {p} : pc'[q] = pc[q] /\ art'[q] = art[q] /\ copy'[q] = copy[q]

LEMMA ExportInitInv ==
  Init => ExportInv
<1> SUFFICES ASSUME Init PROVE ExportInv
  OBVIOUS
<1>0. MaxFaults \in Nat
  BY ExportAssumption
<1>1. order = <<>> /\ order \in Seq(Artifacts) /\ DOMAIN order = {} /\ IsInjective(order)
  BY DEF Init, IsInjective
<1>2. TypeOK
  BY <1>0, <1>1 DEF Init, TypeOK, Statuses, Final
<1>3. WorkInv /\ CreateInv /\ LockInv
  BY DEF Init, WorkInv, CreateInv, LockInv, AtWork, InDownload, Procs
<1>4. QueueInv /\ OutcomeInv /\ OneDownload
  BY <1>1 DEF Init, QueueInv, OutcomeInv, OneDownload, Final
<1> QED
  BY <1>2, <1>3, <1>4 DEF ExportInv

\* A step that leaves the rows alone, and after which p has locked nothing it had not.
LEMMA MoveKeeps ==
  ASSUME ExportInv, TypeOK', NEW p \in Procs, Moves(p), UNCHANGED <<rowVars, received>>,
         pc'[p] # "create",
         pc'[p] \in InDownload => pc[p] \in InDownload /\ art'[p] = art[p],
         pc'[p] \in AtWork => art'[p] \in Artifacts,
         pc'[p] = "audit" => copy'[p] \in {"Downloaded", "CleanupPending"}
  PROVE  ExportInv'
<1>1. UNCHANGED <<status, downloaded, revoked, order, outcome, received>>
  BY DEF rowVars
<1>2. WorkInv'
  BY DEF ExportInv, WorkInv, Moves
<1>3. Callers \subseteq Procs
  BY DEF Procs
<1>4. CreateInv'
  BY <1>1, <1>3 DEF ExportInv, CreateInv, Moves
<1>5. LockInv'
  BY <1>1, <1>3 DEF ExportInv, LockInv, Moves
<1>6. QueueInv' /\ OutcomeInv' /\ OneDownload'
  BY <1>1 DEF ExportInv, QueueInv, OutcomeInv, OneDownload
<1> QED
  BY <1>2, <1>4, <1>5, <1>6 DEF ExportInv

(* A step of p that changes the row of ticket a, which no other call has   *)
(* locked or is about to create, and after which p has not locked it.      *)
LEMMA RowKeeps ==
  ASSUME ExportInv, TypeOK', NEW p \in Procs, Moves(p), NEW a \in Artifacts,
         pc'[p] \notin {"create"} \cup InDownload,
         pc'[p] \in AtWork => art'[p] \in Artifacts,
         \A c \in Callers \ {p} : pc[c] \in {"create"} \cup InDownload => art[c] # a,
         \A b \in Artifacts \ {a} :
           /\ status'[b] = status[b] /\ downloaded'[b] = downloaded[b] /\ revoked'[b] = revoked[b]
           /\ outcome'[b] = outcome[b] /\ received'[b] = received[b],
         QueueInv',
         /\ status'[a] \in {"NONE", "Ready"} <=> outcome'[a] = "NONE"
         /\ status'[a] \in Final => status'[a] = outcome'[a]
         /\ downloaded'[a] <=> outcome'[a] = "Downloaded"
         /\ revoked'[a] <=> outcome'[a] = "Revoked"
         /\ received'[a] > 0 => received'[a] = 1 /\ outcome'[a] = "Downloaded"
  PROVE  ExportInv'
<1>1. Callers \subseteq Procs
  BY DEF Procs
<1>2. WorkInv'
  BY DEF ExportInv, WorkInv, Moves, InDownload
<1>3. CreateInv'
  <2> SUFFICES ASSUME NEW c \in Callers, pc'[c] = "create"
               PROVE  /\ status'[art'[c]] = "NONE"
                      /\ \A d \in Callers : pc'[d] = "create" /\ art'[d] = art'[c] => d = c
    BY DEF CreateInv
  <2>1. c # p /\ pc[c] = "create" /\ art'[c] = art[c] /\ art[c] \in Artifacts \ {a}
    BY <1>1 DEF Moves, ExportInv, WorkInv, AtWork
  <2> QED
    BY <2>1, <1>1 DEF Moves, ExportInv, CreateInv
<1>4. LockInv'
  <2> SUFFICES ASSUME NEW c \in Callers, pc'[c] \in InDownload
               PROVE  /\ status'[art'[c]] = "Ready"
                      /\ \A d \in Callers : pc'[d] \in InDownload /\ art'[d] = art'[c] => d = c
    BY DEF LockInv
  <2>1. c # p /\ pc[c] \in InDownload /\ art'[c] = art[c] /\ art[c] \in Artifacts \ {a}
    BY <1>1 DEF Moves, ExportInv, WorkInv, AtWork
  <2> QED
    BY <2>1, <1>1 DEF Moves, ExportInv, LockInv
<1>5. OutcomeInv' /\ OneDownload'
  BY DEF ExportInv, OutcomeInv, OneDownload
<1> QED
  BY <1>2, <1>3, <1>4, <1>5 DEF ExportInv

\* Done with a ticket: the process has let go of it.
LEMMA DoneMoves ==
  ASSUME TypeOK, NEW p \in Procs, NEW next \in {"idle", "expiring", "cleaning"}, Done(p, next)
  PROVE  /\ Moves(p) /\ pc'[p] = next /\ next \notin AtWork /\ next # "create"
         /\ pc' \in [Procs -> {"idle", "create", "discard", "fetch", "claim", "consume", "audit",
                               "get", "remove", "mark", "complete", "expiring", "cleaning"}]
         /\ art' \in [Procs -> Artifacts \cup {NoArtifact}]
         /\ copy' \in [Procs -> Statuses]
BY DEF Done, TypeOK, Moves, AtWork, InDownload, Statuses

-----------------------------------------------------------------------------
(* The steps that change no row.                                           *)

LEMMA FaultTypes ==
  ASSUME TypeOK, Fault
  PROVE  abandoned' \subseteq Artifacts /\ faults' \in 0..MaxFaults
BY ExportAssumption DEF TypeOK, Fault

LEMMA DeleteTypes ==
  ASSUME TypeOK, NEW a, DeleteOk(a) \/ DeleteError(a)
  PROVE  object' \subseteq Artifacts /\ abandoned' \subseteq Artifacts /\ faults' \in 0..MaxFaults
BY FaultTypes DEF TypeOK, DeleteOk, DeleteError, Fault, faultVars

LEMMA PublishKeeps ==
  ASSUME ExportInv, NEW c \in Callers, PublishCreateError(c) \/ PublishDiscard(c)
  PROVE  ExportInv'
<1>0. c \in Procs /\ TypeOK
  BY DEF Procs, ExportInv
<1>1. CASE PublishCreateError(c)
  <2>1. pc[c] = "create" /\ pc' = [pc EXCEPT ![c] = "discard"] /\ Fault
        /\ UNCHANGED <<rowVars, object, due, back, art, copy, todo, received>>
    BY <1>1 DEF PublishCreateError, Goto
  <2>2. TypeOK'
    BY <2>1, <1>0, FaultTypes DEF TypeOK, rowVars
  <2>3. Moves(c) /\ pc'[c] = "discard" /\ art'[c] = art[c]
    BY <2>1, <1>0 DEF Moves, TypeOK
  <2>4. art[c] \in Artifacts
    BY <2>1, <1>0 DEF ExportInv, WorkInv, AtWork
  <2> QED
    BY <2>1, <2>2, <2>3, <2>4, <1>0, MoveKeeps DEF InDownload
<1>2. CASE PublishDiscard(c)
  <2>1. (DeleteOk(art[c]) \/ DeleteError(art[c])) /\ Done(c, "idle")
        /\ UNCHANGED <<rowVars, due, back, todo, received>>
    BY <1>2 DEF PublishDiscard
  <2>2. TypeOK'
    BY <2>1, <1>0, DeleteTypes, DoneMoves DEF TypeOK, rowVars
  <2> QED
    BY <2>1, <2>2, <1>0, DoneMoves, MoveKeeps DEF AtWork
<1> QED
  BY <1>1, <1>2

LEMMA DownloadKeeps ==
  ASSUME ExportInv, NEW c \in Callers, Fetch(c) \/ Consume(c) \/ RollbackDownload(c)
  PROVE  ExportInv'
<1>0. c \in Procs /\ TypeOK
  BY DEF Procs, ExportInv
<1>1. CASE Fetch(c)
  <2>0. art[c] \in Artifacts /\ UNCHANGED <<rowVars, object, due, back, todo, received, faultVars>>
    BY <1>1, <1>0 DEF Fetch, ExportInv, WorkInv, AtWork
  <2>1. CASE Goto(c, "claim") /\ UNCHANGED <<art, copy>>
    <3>1. Moves(c) /\ pc'[c] = "claim" /\ art'[c] = art[c] /\ TypeOK'
      BY <2>0, <2>1, <1>0 DEF Goto, Moves, TypeOK, rowVars, faultVars
    <3> QED
      BY <3>1, <2>0, <1>0, MoveKeeps DEF InDownload
  <2>2. CASE Done(c, "idle")
    <3>1. TypeOK'
      BY <2>0, <2>2, <1>0, DoneMoves DEF TypeOK, rowVars, faultVars
    <3> QED
      BY <3>1, <2>0, <2>2, <1>0, DoneMoves, MoveKeeps DEF AtWork
  <2> QED
    BY <1>1, <2>1, <2>2 DEF Fetch
<1>2. CASE Consume(c)
  <2>1. /\ pc[c] = "consume" /\ pc' = [pc EXCEPT ![c] = "audit"] /\ (DeleteOk(art[c]) \/ DeleteError(art[c]))
        /\ UNCHANGED <<rowVars, due, back, art, todo, received>>
    BY <1>2 DEF Consume, Goto
  <2>2. \E s \in {"Downloaded", "CleanupPending"} : copy' = [copy EXCEPT ![c] = s]
    BY <1>2 DEF Consume
  <2>3. TypeOK'
    BY <2>1, <2>2, <1>0, DeleteTypes DEF TypeOK, rowVars, Statuses, Final
  <2>4. Moves(c) /\ pc'[c] = "audit" /\ art'[c] = art[c] /\ copy'[c] \in {"Downloaded", "CleanupPending"}
    BY <2>1, <2>2, <1>0 DEF Moves, TypeOK
  <2>5. art[c] \in Artifacts
    BY <2>1, <1>0 DEF ExportInv, WorkInv, AtWork, InDownload
  <2> QED
    BY <2>1, <2>3, <2>4, <2>5, <1>0, MoveKeeps DEF InDownload
<1>3. CASE RollbackDownload(c)
  <2>1. Fault /\ Done(c, "idle") /\ UNCHANGED <<rowVars, object, due, back, todo, received>>
    BY <1>3 DEF RollbackDownload
  <2>2. TypeOK'
    BY <2>1, <1>0, FaultTypes, DoneMoves DEF TypeOK, rowVars
  <2> QED
    BY <2>1, <2>2, <1>0, DoneMoves, MoveKeeps DEF AtWork
<1> QED
  BY <1>1, <1>2, <1>3

LEMMA CleanupKeeps ==
  ASSUME ExportInv, NEW p \in Procs, CleanupGet(p) \/ RemoveObject(p) \/ Crash(p)
  PROVE  ExportInv'
<1>0. TypeOK /\ back[p] \in {"idle", "expiring", "cleaning"}
  BY DEF TypeOK, ExportInv
<1>1. CASE CleanupGet(p)
  <2>0. art[p] \in Artifacts /\ UNCHANGED <<rowVars, object, due, back, todo, received, faultVars>>
    BY <1>1, <1>0 DEF CleanupGet, ExportInv, WorkInv, AtWork
  <2>1. CASE copy' = [copy EXCEPT ![p] = status[art[p]]] /\ Goto(p, "remove") /\ UNCHANGED art
    <3>1. Moves(p) /\ pc'[p] = "remove" /\ art'[p] = art[p] /\ TypeOK'
      BY <2>0, <2>1, <1>0 DEF Goto, Moves, TypeOK, rowVars, faultVars
    <3> QED
      BY <3>1, <2>0, <1>0, MoveKeeps DEF InDownload
  <2>2. CASE Done(p, back[p])
    <3>1. TypeOK'
      BY <2>0, <2>2, <1>0, DoneMoves DEF TypeOK, rowVars, faultVars
    <3> QED
      BY <3>1, <2>0, <2>2, <1>0, DoneMoves, MoveKeeps DEF AtWork
  <2> QED
    BY <1>1, <2>1, <2>2 DEF CleanupGet
<1>2. CASE RemoveObject(p)
  <2>0. /\ art[p] \in Artifacts /\ (DeleteOk(art[p]) \/ DeleteError(art[p]))
        /\ UNCHANGED <<rowVars, due, back, todo, received>>
    BY <1>2, <1>0 DEF RemoveObject, ExportInv, WorkInv, AtWork
  <2>1. ASSUME NEW label \in {"complete", "mark"}, Goto(p, label), UNCHANGED <<art, copy>> PROVE ExportInv'
    <3>1. Moves(p) /\ pc'[p] = label /\ art'[p] = art[p] /\ TypeOK'
      BY <2>0, <2>1, <1>0, DeleteTypes DEF Goto, Moves, TypeOK, rowVars
    <3> QED
      BY <3>1, <2>0, <1>0, MoveKeeps DEF InDownload
  <2>2. CASE Done(p, back[p])
    <3>1. TypeOK'
      BY <2>0, <2>2, <1>0, DeleteTypes, DoneMoves DEF TypeOK, rowVars
    <3> QED
      BY <3>1, <2>0, <2>2, <1>0, DoneMoves, MoveKeeps DEF AtWork
  <2> QED
    BY <1>2, <2>1, <2>2 DEF RemoveObject
<1>3. CASE Crash(p)
  <2>1. /\ faults < MaxFaults /\ faults' = faults + 1 /\ Done(p, "idle")
        /\ abandoned' = IF pc[p] \in {"get", "remove", "mark"} THEN abandoned \cup {art[p]} ELSE abandoned
        /\ todo' = [w \in Workers |-> IF w = p THEN {} ELSE todo[w]]
        /\ UNCHANGED <<rowVars, object, due, back, received>>
    BY <1>3 DEF Crash
  <2>2. abandoned' \subseteq Artifacts /\ faults' \in 0..MaxFaults
    BY <2>1, <1>0, ExportAssumption DEF ExportInv, TypeOK, WorkInv, AtWork
  <2>3. TypeOK'
    BY <2>1, <2>2, <1>0, DoneMoves DEF TypeOK, rowVars
  <2> QED
    BY <2>1, <2>3, <1>0, DoneMoves, MoveKeeps DEF AtWork
<1> QED
  BY <1>1, <1>2, <1>3

LEMMA JobKeeps ==
  ASSUME ExportInv, NEW w \in Workers,
         \/ ListExpiredReady(w) \/ ListCleanupPending(w) \/ EndJob(w)
         \/ \E a \in Artifacts : Cleanup(w, a)
  PROVE  ExportInv'
<1>0. w \in Procs /\ TypeOK
  BY DEF Procs, ExportInv
<1>1. CleanupBatch \subseteq Artifacts /\ ExpiredReady \subseteq Artifacts
  BY <1>0, LenProperties DEF CleanupBatch, ExpiredReady, TypeOK
<1>2. ASSUME ListExpiredReady(w) \/ ListCleanupPending(w) \/ EndJob(w) PROVE ExportInv'
  <2>1. /\ \E label \in {"idle", "expiring", "cleaning"} : pc' = [pc EXCEPT ![w] = label]
        /\ todo' = todo \/ \E list \in SUBSET Artifacts : todo' = [todo EXCEPT ![w] = list]
        /\ UNCHANGED <<rowVars, object, due, back, art, copy, received, faultVars>>
    BY <1>1, <1>2 DEF ListExpiredReady, ListCleanupPending, EndJob, Goto
  <2>2. todo' \in [Workers -> SUBSET Artifacts]
    BY <2>1, <1>0 DEF TypeOK
  <2>3. PICK label \in {"idle", "expiring", "cleaning"} : pc' = [pc EXCEPT ![w] = label]
    BY <2>1
  <2>4. TypeOK' /\ Moves(w) /\ pc'[w] = label
    BY <2>1, <2>2, <2>3, <1>0 DEF TypeOK, Moves, rowVars, faultVars
  <2> QED
    BY <2>1, <2>4, <1>0, MoveKeeps DEF AtWork, InDownload
<1>3. ASSUME NEW a \in Artifacts, Cleanup(w, a) PROVE ExportInv'
  <2>1. /\ todo' = [todo EXCEPT ![w] = @ \ {a}] /\ art' = [art EXCEPT ![w] = a]
        /\ back' = [back EXCEPT ![w] = "cleaning"] /\ pc' = [pc EXCEPT ![w] = "get"]
        /\ UNCHANGED <<rowVars, object, due, copy, received, faultVars>>
    BY <1>3 DEF Cleanup, Goto
  <2>2. TypeOK' /\ Moves(w) /\ pc'[w] = "get" /\ art'[w] = a
    BY <2>1, <1>0 DEF TypeOK, Moves, rowVars, faultVars
  <2> QED
    BY <2>1, <2>2, <1>0, MoveKeeps DEF InDownload
<1> QED
  BY <1>2, <1>3

LEMMA OpenKeeps ==
  ASSUME ExportInv, NEW c \in Callers, NEW a \in Artifacts, Open(c, a)
  PROVE  ExportInv'
<1>0. c \in Procs /\ TypeOK
  BY DEF Procs, ExportInv
<1>1. /\ art' = [art EXCEPT ![c] = a] /\ pc' = [pc EXCEPT ![c] = "fetch"]
      /\ UNCHANGED <<rowVars, object, due, back, copy, todo, received, faultVars>>
  BY DEF Open, Goto
<1>2. TypeOK' /\ Moves(c) /\ pc'[c] = "fetch" /\ art'[c] = a
  BY <1>1, <1>0 DEF TypeOK, Moves, rowVars, faultVars
<1> QED
  BY <1>1, <1>2, <1>0, MoveKeeps DEF InDownload

\* The object is stored first: no other call works on the ticket, which has no row yet.
LEMMA PutKeeps ==
  ASSUME ExportInv, NEW c \in Callers, NEW a \in Artifacts, PublishPut(c, a)
  PROVE  ExportInv'
<1>0. c \in Procs /\ TypeOK /\ Callers \subseteq Procs
  BY DEF Procs, ExportInv
<1>1. /\ status[a] = "NONE" /\ \A p \in Procs : art[p] # a
      /\ object' = object \cup {a} /\ art' = [art EXCEPT ![c] = a] /\ pc' = [pc EXCEPT ![c] = "create"]
      /\ UNCHANGED <<rowVars, due, back, copy, todo, received, faultVars>>
  BY DEF PublishPut, Goto
<1>2. TypeOK' /\ Moves(c) /\ pc'[c] = "create" /\ art'[c] = a
  BY <1>1, <1>0 DEF TypeOK, Moves, rowVars, faultVars
<1>3. UNCHANGED <<status, downloaded, revoked, order, outcome, received>>
  BY <1>1 DEF rowVars
<1>4. WorkInv'
  BY <1>2 DEF ExportInv, WorkInv, Moves, InDownload
<1>5. CreateInv'
  BY <1>0, <1>1, <1>2, <1>3 DEF ExportInv, CreateInv, Moves
<1>6. LockInv'
  BY <1>0, <1>2, <1>3 DEF ExportInv, LockInv, Moves, InDownload
<1>7. QueueInv' /\ OutcomeInv' /\ OneDownload'
  BY <1>3 DEF ExportInv, QueueInv, OutcomeInv, OneDownload
<1> QED
  BY <1>2, <1>4, <1>5, <1>6, <1>7 DEF ExportInv

\* The claim takes the lock of a row that is Ready and that nobody has locked.
LEMMA ClaimKeeps ==
  ASSUME ExportInv, NEW c \in Callers, ClaimDownload(c)
  PROVE  ExportInv'
<1>0. c \in Procs /\ TypeOK /\ Callers \subseteq Procs
  BY DEF Procs, ExportInv
<1>1. art[c] \in Artifacts /\ UNCHANGED <<rowVars, object, due, back, todo, received, faultVars>>
  BY <1>0 DEF ClaimDownload, ExportInv, WorkInv, AtWork
<1>2. CASE Claimable(art[c]) /\ Goto(c, "consume") /\ UNCHANGED <<art, copy>>
  <2>1. status[art[c]] = "Ready" /\ \A d \in Callers : pc[d] \in InDownload => art[d] # art[c]
    BY <1>2 DEF ClaimDownload, Claimable, Locked, InDownload
  <2>2. TypeOK' /\ Moves(c) /\ pc'[c] = "consume" /\ UNCHANGED art
    BY <1>0, <1>1, <1>2 DEF Goto, TypeOK, Moves, rowVars, faultVars
  <2>3. UNCHANGED <<status, downloaded, revoked, order, outcome, received>>
    BY <1>1 DEF rowVars
  <2>4. WorkInv'
    BY <1>1, <2>2 DEF ExportInv, WorkInv, Moves
  <2>5. CreateInv'
    BY <1>0, <2>2, <2>3 DEF ExportInv, CreateInv, Moves
  <2>6. LockInv'
    BY <1>0, <2>1, <2>2, <2>3 DEF ExportInv, LockInv, Moves
  <2>7. QueueInv' /\ OutcomeInv' /\ OneDownload'
    BY <2>3 DEF ExportInv, QueueInv, OutcomeInv, OneDownload
  <2> QED
    BY <2>2, <2>4, <2>5, <2>6, <2>7 DEF ExportInv
<1>3. CASE Done(c, "idle")
  <2>1. TypeOK'
    BY <1>0, <1>1, <1>3, DoneMoves DEF TypeOK, rowVars, faultVars
  <2> QED
    BY <2>1, <1>0, <1>1, <1>3, DoneMoves, MoveKeeps DEF AtWork
<1> QED
  BY <1>2, <1>3 DEF ClaimDownload

-----------------------------------------------------------------------------
(* The steps that change a row.                                            *)

\* Who is not p and not downloading does not hold the lock.
LEMMA OthersFree ==
  ASSUME ExportInv, NEW a \in Artifacts, status[a] # "NONE", ~Locked(a)
  PROVE  \A c \in Callers : pc[c] \in {"create"} \cup InDownload => art[c] # a
BY DEF ExportInv, CreateInv, Locked, InDownload

LEMMA CreateRowKeeps ==
  ASSUME ExportInv, NEW c \in Callers, PublishCreate(c)
  PROVE  ExportInv'
<1> DEFINE a == art[c]
<1>0. c \in Procs /\ TypeOK /\ Callers \subseteq Procs
  BY DEF Procs, ExportInv
<1>1. /\ pc[c] = "create" /\ status' = [status EXCEPT ![a] = "Ready"] /\ Done(c, "idle")
      /\ UNCHANGED <<downloaded, revoked, order, outcome, object, due, back, todo, received, faultVars>>
  BY DEF PublishCreate
<1>2. a \in Artifacts /\ status[a] = "NONE"
  BY <1>0, <1>1 DEF ExportInv, WorkInv, CreateInv, AtWork
<1>3. \A d \in Callers \ {c} : pc[d] \in {"create"} \cup InDownload => art[d] # a
  BY <1>1, <1>2 DEF ExportInv, CreateInv, LockInv
<1> HIDE DEF a
<1>4. TypeOK'
  BY <1>0, <1>1, DoneMoves DEF TypeOK, faultVars, Statuses
<1>5. status'[a] = "Ready" /\ \A b \in Artifacts \ {a} : status'[b] = status[b]
  BY <1>0, <1>1, <1>2 DEF TypeOK
<1>6. QueueInv'
  BY <1>1, <1>2, <1>5 DEF ExportInv, QueueInv
<1>7. outcome'[a] = "NONE" /\ ~downloaded'[a] /\ ~revoked'[a] /\ ~(received'[a] > 0)
  BY <1>1, <1>2 DEF ExportInv, OutcomeInv, OneDownload
<1>8. Moves(c) /\ pc'[c] = "idle"
  BY <1>0, <1>1, DoneMoves
<1> QED
  BY <1>0, <1>1, <1>2, <1>3, <1>4, <1>5, <1>6, <1>7, <1>8, RowKeeps DEF AtWork, InDownload, Final

\* A row that is closed is added to the queue of the cleanup, or not.
LEMMA QueueGrows ==
  ASSUME ExportInv, NEW a \in Artifacts, status[a] # "CleanupPending", NEW s \in Statuses,
         status' = [status EXCEPT ![a] = s],
         order' = IF s = "CleanupPending" THEN Append(order, a) ELSE order
  PROVE  order' \in Seq(Artifacts) /\ IsInjective(order') /\ QueueInv'
<1>1. order \in Seq(Artifacts) /\ IsInjective(order) /\ \A i \in DOMAIN order : order[i] # a
  BY DEF ExportInv, TypeOK, QueueInv
<1>2. status'[a] = s /\ \A b \in Artifacts \ {a} : status'[b] = status[b]
  BY DEF ExportInv, TypeOK
<1>3. CASE s = "CleanupPending"
  <2>1. /\ order' \in Seq(Artifacts) /\ IsInjective(order')
        /\ \A b : (\E i \in DOMAIN order' : order'[i] = b) <=> b = a \/ \E i \in DOMAIN order : order[i] = b
    BY <1>1, <1>3, QueueAppend
  <2> QED
    BY <2>1, <1>2, <1>3 DEF ExportInv, QueueInv
<1>4. CASE s # "CleanupPending"
  BY <1>1, <1>2, <1>4 DEF ExportInv, QueueInv
<1> QED
  BY <1>3, <1>4

LEMMA CommitKeeps ==
  ASSUME ExportInv, NEW c \in Callers, Deliver(c) \/ DeliverUnknown(c)
  PROVE  ExportInv'
<1> DEFINE a == art[c]
           s == copy[c]
<1>0. c \in Procs /\ TypeOK /\ Callers \subseteq Procs
  BY DEF Procs, ExportInv
<1>1. /\ pc[c] = "audit" /\ status' = [status EXCEPT ![a] = s]
      /\ downloaded' = [downloaded EXCEPT ![a] = TRUE] /\ outcome' = [outcome EXCEPT ![a] = "Downloaded"]
      /\ order' = IF s = "CleanupPending" THEN Append(order, a) ELSE order
      /\ Done(c, "idle") /\ UNCHANGED <<revoked, object, due, back, todo>>
  BY DEF Deliver, DeliverUnknown, CommitDownload
<1>2. received' = [received EXCEPT ![a] = @ + 1] \/ received' = received
  BY DEF Deliver, DeliverUnknown
<1>3. abandoned' \subseteq Artifacts /\ faults' \in 0..MaxFaults
  BY <1>0, FaultTypes DEF Deliver, DeliverUnknown, faultVars, TypeOK
<1>4. a \in Artifacts /\ s \in {"Downloaded", "CleanupPending"} /\ status[a] = "Ready"
  BY <1>0, <1>1 DEF ExportInv, WorkInv, LockInv, AtWork, InDownload
<1>5. \A d \in Callers \ {c} : pc[d] \in {"create"} \cup InDownload => art[d] # a
  BY <1>1, <1>4 DEF ExportInv, CreateInv, LockInv, InDownload
<1> HIDE DEF a, s
<1>6. order' \in Seq(Artifacts) /\ IsInjective(order') /\ QueueInv'
  BY <1>1, <1>4, QueueGrows DEF Statuses, Final
<1>7. received[a] = 0 /\ outcome[a] = "NONE" /\ ~revoked[a]
  BY <1>0, <1>4 DEF ExportInv, OutcomeInv, OneDownload, TypeOK
<1>8. received' \in [Artifacts -> Nat] /\ received'[a] \in {0, 1}
      /\ \A b \in Artifacts \ {a} : received'[b] = received[b]
  BY <1>0, <1>2, <1>4, <1>7 DEF TypeOK
<1>9. TypeOK'
  BY <1>0, <1>1, <1>3, <1>4, <1>6, <1>8, DoneMoves DEF TypeOK, Statuses, Final
<1>10. /\ status'[a] = s /\ downloaded'[a] = TRUE /\ outcome'[a] = "Downloaded" /\ ~revoked'[a]
       /\ \A b \in Artifacts \ {a} : status'[b] = status[b] /\ downloaded'[b] = downloaded[b]
                                       /\ outcome'[b] = outcome[b] /\ revoked'[b] = revoked[b]
  BY <1>0, <1>1, <1>4, <1>7 DEF TypeOK
<1>11. Moves(c) /\ pc'[c] = "idle"
  BY <1>0, <1>1, DoneMoves
<1> QED
  BY <1>0, <1>4, <1>5, <1>6, <1>8, <1>9, <1>10, <1>11, RowKeeps DEF AtWork, InDownload, Final

LEMMA RevokeKeeps ==
  ASSUME ExportInv, NEW c \in Callers, NEW a \in Artifacts, Revoke(c, a)
  PROVE  ExportInv'
<1>0. c \in Procs /\ TypeOK /\ Callers \subseteq Procs
  BY DEF Procs, ExportInv
<1>1. /\ status[a] = "Ready" /\ ~Locked(a) /\ status' = [status EXCEPT ![a] = "Revoked"]
      /\ revoked' = [revoked EXCEPT ![a] = TRUE]
      /\ outcome' = [outcome EXCEPT ![a] = IF @ = "NONE" THEN "Revoked" ELSE @]
      /\ art' = [art EXCEPT ![c] = a] /\ pc' = [pc EXCEPT ![c] = "get"]
      /\ UNCHANGED <<downloaded, order, object, due, back, copy, todo, received, faultVars>>
  BY DEF Revoke, Revocable, Goto
<1>2. outcome[a] = "NONE" /\ ~downloaded[a] /\ ~(received[a] > 0)
  BY <1>1 DEF ExportInv, OutcomeInv, OneDownload
<1>3. TypeOK' /\ Moves(c) /\ pc'[c] = "get" /\ art'[c] = a
  BY <1>0, <1>1, <1>2 DEF TypeOK, Moves, faultVars, Statuses, Final
<1>4. /\ status'[a] = "Revoked" /\ revoked'[a] = TRUE /\ outcome'[a] = "Revoked" /\ ~downloaded'[a]
      /\ ~(received'[a] > 0)
      /\ \A b \in Artifacts \ {a} :
           /\ status'[b] = status[b] /\ downloaded'[b] = downloaded[b] /\ revoked'[b] = revoked[b]
           /\ outcome'[b] = outcome[b] /\ received'[b] = received[b]
  BY <1>0, <1>1, <1>2 DEF TypeOK
<1>5. QueueInv'
  BY <1>1, <1>4 DEF ExportInv, QueueInv
<1>6. \A d \in Callers : pc[d] \in {"create"} \cup InDownload => art[d] # a
  BY <1>1, OthersFree
<1> QED
  BY <1>0, <1>3, <1>4, <1>5, <1>6, RowKeeps DEF InDownload, Final

LEMMA ExpireKeeps ==
  ASSUME ExportInv, NEW w \in Workers, NEW a \in Artifacts, Expire(w, a)
  PROVE  ExportInv'
<1>0. w \in Procs /\ TypeOK /\ Callers \subseteq Procs
  BY DEF Procs, ExportInv
<1>1. /\ pc[w] = "expiring" /\ ~Locked(a)
      /\ todo' = [todo EXCEPT ![w] = @ \ {a}] /\ back' = [back EXCEPT ![w] = "expiring"]
      /\ UNCHANGED <<downloaded, revoked, order, object, due, received, faultVars>>
  BY DEF Expire
<1>2. CASE status[a] = "Ready"
  <2>1. /\ status' = [status EXCEPT ![a] = "Expired"] /\ outcome' = [outcome EXCEPT ![a] = "Expired"]
        /\ art' = [art EXCEPT ![w] = a] /\ copy' = [copy EXCEPT ![w] = "Expired"]
        /\ pc' = [pc EXCEPT ![w] = "remove"]
    BY <1>2 DEF Expire, Goto
  <2>2. outcome[a] = "NONE" /\ ~downloaded[a] /\ ~revoked[a] /\ ~(received[a] > 0)
    BY <1>2 DEF ExportInv, OutcomeInv, OneDownload
  <2>3. TypeOK' /\ Moves(w) /\ pc'[w] = "remove" /\ art'[w] = a
    BY <1>0, <1>1, <2>1 DEF TypeOK, Moves, faultVars, Statuses, Final
  <2>4. /\ status'[a] = "Expired" /\ outcome'[a] = "Expired"
        /\ \A b \in Artifacts \ {a} : status'[b] = status[b] /\ outcome'[b] = outcome[b]
    BY <1>0, <2>1 DEF TypeOK
  <2>5. QueueInv'
    BY <1>1, <1>2, <2>4 DEF ExportInv, QueueInv
  <2>6. \A d \in Callers : pc[d] \in {"create"} \cup InDownload => art[d] # a
    BY <1>1, <1>2, OthersFree
  <2> QED
    BY <1>0, <1>1, <2>2, <2>3, <2>4, <2>5, <2>6, RowKeeps DEF InDownload, Final
<1>3. CASE status[a] # "Ready"
  <2>1. UNCHANGED <<status, outcome, art, copy, pc>>
    BY <1>3 DEF Expire
  <2>2. TypeOK' /\ Moves(w) /\ pc'[w] = "expiring" /\ UNCHANGED <<rowVars, received>>
    BY <1>0, <1>1, <2>1 DEF TypeOK, Moves, faultVars, rowVars
  <2> QED
    BY <1>0, <2>2, MoveKeeps DEF AtWork, InDownload
<1> QED
  BY <1>2, <1>3

LEMMA MarkKeeps ==
  ASSUME ExportInv, NEW p \in Procs, MarkCleanupPending(p)
  PROVE  ExportInv'
<1> DEFINE a == art[p]
<1>0. TypeOK /\ Callers \subseteq Procs /\ back[p] \in {"idle", "expiring", "cleaning"}
  BY DEF Procs, ExportInv, TypeOK
<1>1. /\ pc[p] = "mark" /\ ~Locked(a) /\ Done(p, back[p])
      /\ UNCHANGED <<downloaded, revoked, outcome, object, due, back, todo, received, faultVars>>
  BY DEF MarkCleanupPending
<1>2. a \in Artifacts
  BY <1>1 DEF ExportInv, WorkInv, AtWork
<1>m. Moves(p) /\ pc'[p] \in {"idle", "expiring", "cleaning"}
  BY <1>0, <1>1, DoneMoves
<1>3. CASE status[a] \in Final
  <2>1. status' = [status EXCEPT ![a] = "CleanupPending"] /\ order' = Append(order, a)
    BY <1>3 DEF MarkCleanupPending, Markable
  <2> HIDE DEF a
  <2>2. order' \in Seq(Artifacts) /\ IsInjective(order') /\ QueueInv'
    BY <1>2, <1>3, <2>1, QueueGrows DEF Statuses, Final
  <2>3. TypeOK'
    BY <1>0, <1>1, <2>1, <2>2, DoneMoves DEF TypeOK, faultVars, Statuses
  <2>4. status'[a] = "CleanupPending" /\ \A b \in Artifacts \ {a} : status'[b] = status[b]
    BY <1>0, <1>2, <2>1 DEF TypeOK
  <2>5. \A d \in Callers : pc[d] \in {"create"} \cup InDownload => art[d] # a
    BY <1>1, <1>2, <1>3, OthersFree DEF Final
  <2>6. /\ outcome[a] # "NONE"
        /\ downloaded[a] <=> outcome[a] = "Downloaded"
        /\ revoked[a] <=> outcome[a] = "Revoked"
        /\ received[a] > 0 => received[a] = 1 /\ outcome[a] = "Downloaded"
    BY <1>2, <1>3 DEF ExportInv, OutcomeInv, OneDownload, Final
  <2> QED
    BY <1>1, <1>2, <1>m, <2>2, <2>3, <2>4, <2>5, <2>6, RowKeeps DEF AtWork, InDownload, Final
<1>4. CASE status[a] \notin Final
  <2>1. UNCHANGED <<rowVars, received>>
    BY <1>1, <1>4 DEF MarkCleanupPending, Markable, rowVars
  <2>2. TypeOK'
    BY <1>0, <1>1, <2>1, DoneMoves DEF TypeOK, rowVars, faultVars
  <2> QED
    BY <1>m, <2>1, <2>2, MoveKeeps DEF AtWork, InDownload
<1> QED
  BY <1>3, <1>4

LEMMA CompleteKeeps ==
  ASSUME ExportInv, NEW p \in Procs, CompleteCleanup(p)
  PROVE  ExportInv'
<1> DEFINE a == art[p]
<1>0. TypeOK /\ Callers \subseteq Procs /\ back[p] \in {"idle", "expiring", "cleaning"}
  BY DEF Procs, ExportInv, TypeOK
<1>1. /\ pc[p] = "complete" /\ ~Locked(a) /\ Done(p, back[p])
      /\ UNCHANGED <<downloaded, revoked, outcome, object, due, back, todo, received, faultVars>>
  BY DEF CompleteCleanup
<1>2. a \in Artifacts
  BY <1>1 DEF ExportInv, WorkInv, AtWork
<1>m. Moves(p) /\ pc'[p] \in {"idle", "expiring", "cleaning"}
  BY <1>0, <1>1, DoneMoves
<1>3. CASE status[a] = "CleanupPending"
  <2>1. status' = [status EXCEPT ![a] = OutcomeOf(a)] /\ order' = RemoveAt(order, Position(a))
    BY <1>3 DEF CompleteCleanup
  <2> HIDE DEF a
  <2>2. /\ outcome[a] # "NONE" /\ outcome[a] \in Final
        /\ downloaded[a] <=> outcome[a] = "Downloaded"
        /\ revoked[a] <=> outcome[a] = "Revoked"
        /\ received[a] > 0 => received[a] = 1 /\ outcome[a] = "Downloaded"
    BY <1>0, <1>2, <1>3 DEF ExportInv, OutcomeInv, OneDownload, TypeOK
  <2>3. OutcomeOf(a) = outcome[a]
    BY <2>2 DEF OutcomeOf, Final
  <2>4. \E i \in DOMAIN order : order[i] = a
    BY <1>2, <1>3 DEF ExportInv, QueueInv
  <2>5. /\ order' \in Seq(Artifacts) /\ IsInjective(order')
        /\ \A b : (\E i \in DOMAIN order' : order'[i] = b) <=> b # a /\ \E i \in DOMAIN order : order[i] = b
    <3> DEFINE q == RemoveAt(order, Position(a))
    <3>1. /\ q \in Seq(Artifacts) /\ IsInjective(q)
          /\ \A b : (\E i \in DOMAIN q : q[i] = b) <=> b # a /\ \E i \in DOMAIN order : order[i] = b
      BY <1>0, <1>2, <2>4, QueueRemove
    <3>2. order' = q
      BY <2>1
    <3> HIDE DEF q
    <3> QED
      BY <3>1, <3>2
  <2>6. status'[a] = outcome[a] /\ \A b \in Artifacts \ {a} : status'[b] = status[b]
    BY <1>0, <1>2, <2>1, <2>3 DEF TypeOK
  <2>7. QueueInv'
    BY <2>2, <2>5, <2>6 DEF ExportInv, QueueInv, Final
  <2>8. TypeOK'
    <3>1. status' \in [Artifacts -> Statuses]
      BY <1>0, <2>1, <2>2, <2>3 DEF TypeOK, Statuses
    <3> QED
      BY <3>1, <1>0, <1>1, <2>5, DoneMoves DEF TypeOK, faultVars
  <2>9. \A d \in Callers : pc[d] \in {"create"} \cup InDownload => art[d] # a
    BY <1>1, <1>2, <1>3, OthersFree
  <2> QED
    BY <1>1, <1>2, <1>m, <2>2, <2>6, <2>7, <2>8, <2>9, RowKeeps DEF AtWork, InDownload, Final
<1>4. CASE status[a] # "CleanupPending"
  <2>1. UNCHANGED <<rowVars, received>>
    BY <1>1, <1>4 DEF CompleteCleanup, rowVars
  <2>2. TypeOK'
    BY <1>0, <1>1, <2>1, DoneMoves DEF TypeOK, rowVars, faultVars
  <2> QED
    BY <1>m, <2>1, <2>2, MoveKeeps DEF AtWork, InDownload
<1> QED
  BY <1>3, <1>4

LEMMA ExportStepInv ==
  ExportInv /\ [Next]_vars => ExportInv'
<1> SUFFICES ASSUME ExportInv, [Next]_vars PROVE ExportInv'
  OBVIOUS
<1>1. ASSUME NEW a \in Artifacts, PassExpiry(a) PROVE ExportInv'
  <2>1. /\ due' = [due EXCEPT ![a] = TRUE]
        /\ UNCHANGED <<status, downloaded, revoked, order, outcome, object, pc, art, copy, back, todo, received,
                       abandoned, faults>>
    BY <1>1 DEF PassExpiry, rowVars, procVars, faultVars
  <2>2. TypeOK'
    BY <2>1 DEF ExportInv, TypeOK
  <2> QED
    BY <2>1, <2>2 DEF ExportInv, WorkInv, CreateInv, LockInv, QueueInv, OutcomeInv, OneDownload
<1>2. CASE UNCHANGED vars
  <2>1. UNCHANGED <<status, downloaded, revoked, order, outcome, object, due, pc, art, copy, back, todo, received,
                    abandoned, faults>>
    BY <1>2 DEF vars, rowVars, procVars, faultVars
  <2> QED
    BY <2>1 DEF ExportInv, TypeOK, WorkInv, CreateInv, LockInv, QueueInv, OutcomeInv, OneDownload
<1>3. ASSUME NEW p \in Procs, Continue(p) PROVE ExportInv'
  BY <1>3, CreateRowKeeps, PublishKeeps, DownloadKeeps, ClaimKeeps, CommitKeeps, CleanupKeeps, MarkKeeps,
     CompleteKeeps, JobKeeps, ExpireKeeps DEF Continue
<1>4. ASSUME NEW p \in Procs, Crash(p) PROVE ExportInv'
  BY <1>4, CleanupKeeps
<1>5. ASSUME NEW c \in Callers, PublishCreateError(c) \/ DeliverUnknown(c) \/ RollbackDownload(c) PROVE ExportInv'
  BY <1>5, PublishKeeps, CommitKeeps, DownloadKeeps
<1>6. ASSUME NEW c \in Callers, NEW a \in Artifacts, PublishPut(c, a) \/ Open(c, a) \/ Revoke(c, a) PROVE ExportInv'
  BY <1>6, PutKeeps, OpenKeeps, RevokeKeeps
<1> QED
  BY <1>1, <1>2, <1>3, <1>4, <1>5, <1>6 DEF Next

LEMMA ExportInvariance ==
  Spec => []ExportInv
<1> QED
  BY ExportInitInv, ExportStepInv, PTL DEF Spec

-----------------------------------------------------------------------------
(***************************************************************************)
(* Rows, queue and processes stay well typed; above all, no record is in   *)
(* the cleanup queue twice, however cleanups overlap.                      *)
(***************************************************************************)
THEOREM ExportTypes == Spec => []TypeOK
<1>1. ExportInv => TypeOK
  BY DEF ExportInv
<1> QED
  BY <1>1, ExportInvariance, PTL

(***************************************************************************)
(* DownloadDataExport hands out the bytes of a ticket at most once, and    *)
(* only of one that was closed as downloaded, for any number of calls that *)
(* overlap each other, revocations, expiry and the cleanup.                *)
(***************************************************************************)
THEOREM DownloadedOnce == Spec => []OneDownload
<1>1. ExportInv => OneDownload
  BY DEF ExportInv
<1> QED
  BY <1>1, ExportInvariance, PTL

(***************************************************************************)
(* CompleteCleanup restores from the timestamps the very status that the   *)
(* ticket was closed with.                                                 *)
(***************************************************************************)
THEOREM ReasonSurvivesCleanup == Spec => []OutcomeKept
<1>1. ExportInv => OutcomeKept
  BY DEF ExportInv, OutcomeInv, OutcomeKept
<1> QED
  BY <1>1, ExportInvariance, PTL

(***************************************************************************)
(* A ticket that was downloaded, revoked or has expired never becomes      *)
(* Ready again.                                                            *)
(***************************************************************************)
THEOREM NoTicketReopens == Spec => ClosedStaysClosed
<1> DEFINE Closed == \A a \in Artifacts : outcome[a] # "NONE" => status'[a] # "Ready"
<1>1. ASSUME ExportInv, ExportInv', [Next]_vars PROVE [Closed]_vars
  <2> SUFFICES ASSUME NEW a \in Artifacts, outcome[a] # "NONE", Next PROVE outcome'[a] # "NONE"
    BY <1>1 DEF ExportInv, OutcomeInv
  <2>1. outcome' = outcome \/ \E b \in Artifacts, o \in Final : outcome' = [outcome EXCEPT ![b] = o]
    <3>1. ASSUME NEW c \in Callers, CommitDownload(c)
          PROVE  \E b \in Artifacts, o \in Final : outcome' = [outcome EXCEPT ![b] = o]
      BY <3>1, <1>1 DEF CommitDownload, ExportInv, WorkInv, AtWork, InDownload, Final, Procs
    <3>2. ASSUME NEW c \in Callers, NEW b \in Artifacts, Revoke(c, b)
          PROVE  \E o \in Final : outcome' = [outcome EXCEPT ![b] = o]
      BY <3>2, <1>1 DEF Revoke, Revocable, ExportInv, OutcomeInv, Final
    <3>3. ASSUME NEW w \in Workers, NEW b \in Artifacts, Expire(w, b)
          PROVE  outcome' = outcome \/ outcome' = [outcome EXCEPT ![b] = "Expired"]
      BY <3>3 DEF Expire
    <3>4. ASSUME NEW p \in Procs, Continue(p),
                 ~(p \in Callers /\ Deliver(p)), ~\E b \in Artifacts : p \in Workers /\ Expire(p, b)
          PROVE  UNCHANGED outcome
      BY <3>4 DEF Continue, PublishCreate, PublishDiscard, Fetch, ClaimDownload, Consume, CleanupGet, RemoveObject,
                  MarkCleanupPending, CompleteCleanup, ListExpiredReady, ListCleanupPending, EndJob, Cleanup, rowVars
    <3>5. ASSUME NEW c \in Callers, NEW b \in Artifacts,
                 PublishPut(c, b) \/ Open(c, b)
          PROVE  UNCHANGED outcome
      BY <3>5 DEF PublishPut, Open, rowVars
    <3>6. ASSUME NEW p, PublishCreateError(p) \/ RollbackDownload(p) \/ Crash(p) \/ PassExpiry(p)
          PROVE  UNCHANGED outcome
      BY <3>6 DEF PublishCreateError, RollbackDownload, Crash, PassExpiry, rowVars
    <3>7. "Expired" \in Final
      BY DEF Final
    <3>8. ASSUME NEW p \in Procs, Continue(p)
          PROVE  outcome' = outcome \/ \E b \in Artifacts, o \in Final : outcome' = [outcome EXCEPT ![b] = o]
      <4>1. CASE p \in Callers /\ Deliver(p)
        BY <4>1, <3>1 DEF Deliver
      <4>2. CASE \E b \in Artifacts : p \in Workers /\ Expire(p, b)
        BY <4>2, <3>3, <3>7
      <4> QED
        BY <3>8, <3>4, <4>1, <4>2
    <3>9. ASSUME NEW c \in Callers, DeliverUnknown(c)
          PROVE  \E b \in Artifacts, o \in Final : outcome' = [outcome EXCEPT ![b] = o]
      BY <3>9, <3>1 DEF DeliverUnknown
    <3>10. CASE \E p \in Procs : Continue(p) \/ Crash(p)
      BY <3>10, <3>6, <3>8
    <3>11. CASE \E c \in Callers : \/ \E b \in Artifacts : PublishPut(c, b) \/ Open(c, b) \/ Revoke(c, b)
                                  \/ PublishCreateError(c) \/ DeliverUnknown(c) \/ RollbackDownload(c)
      BY <3>11, <3>2, <3>5, <3>6, <3>9
    <3>12. CASE \E b \in Artifacts : PassExpiry(b)
      BY <3>12, <3>6
    <3> QED
      BY <3>10, <3>11, <3>12 DEF Next
  <2> QED
    BY <2>1, <1>1 DEF ExportInv, TypeOK, Final
<1>2. Spec => [][Closed]_vars
  BY <1>1, ExportInvariance, PTL DEF Spec
<1> QED
  BY <1>2 DEF ClosedStaysClosed

=============================================================================
