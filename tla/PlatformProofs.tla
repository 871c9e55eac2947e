--------------------------- MODULE PlatformProofs ---------------------------
(***************************************************************************)
(* Proofs about the parts of the platform that stand beside the runs: the  *)
(* directory, access reviews, emergency access, job control, the           *)
(* transactional publisher, the administrative handlers, the routes, the   *)
(* request gateway, the configuration, the start of the server, federated  *)
(* login, field policies, and the breaker, bulkhead and rate limiter.      *)
(*                                                                         *)
(* Each part has its own state and specification; the theorems of a part   *)
(* take the assumptions on its constants as a hypothesis.  The safety      *)
(* theorems follow one pattern: an inductive invariant named after the     *)
(* part, a lemma for its initial states, a lemma for each group of steps,  *)
(* and the theorem that combines them.                                     *)
(***************************************************************************)
EXTENDS Directory, AccessReview, EmergencyAccess, JobControl, TransactionalPublisher,
        AdminHandlers, Routes, Gateway, Startup, FederatedLogin, DataPolicy, Resilience,
        FiniteSetTheorems, TLAPS

-----------------------------------------------------------------------------
(***************************************************************************)
(* The directory (Directory).  DirInv says what the row locks give: the     *)
(* rows that a transaction has read are its own until it ends, so that what *)
(* it has checked still holds when it writes.                               *)
(***************************************************************************)
RowsExist == \A t \in Transactions : seen[t] \subseteq Existing

ParentsExist ==
  \A d \in Departments : parent[d] # Root => d \in Existing /\ parent[d] \in Existing

Holds(t) == dpc[t] \in {"locked", "write"}

Exclusive ==
  /\ \A t, o \in Transactions :
       t # o /\ Holds(t) /\ Holds(o) => Phantoms /\ seen[t] \cap seen[o] = {}
  /\ ~Phantoms => \A t \in Transactions : Holds(t) => Existing \subseteq seen[t]

\* What the checks of t have found, and what still holds when it writes.
DepartmentGood(t) ==
  /\ req[t].op = "create" => req[t].id = Root
  /\ WalkEnds(seen[t], req[t].up, req[t].id)
  /\ req[t].op = "update" =>
       /\ req[t].id \in seen[t] /\ req[t].id # req[t].up
       /\ req[t].status = "DISABLED" =>
            /\ CountActivePositions(req[t].id) = {}
            /\ \A d \in seen[t] \ {req[t].id} : parent[d] = req[t].id => dstatus[d] # "ACTIVE"

RequestGood(t) ==
  dpc[t] = "write" =>
    /\ req[t].op \in {"create", "update", "position"}
    /\ req[t].up # Root =>
         req[t].up \in seen[t] /\ (req[t].status = "ACTIVE" => dstatus[req[t].up] = "ACTIVE")
    /\ req[t].op = "position" => req[t].up # Root
    /\ req[t].op # "position" => DepartmentGood(t)

DirLocks == RowsExist /\ ParentsExist /\ Exclusive
AdminWide == scopeType[Admin] = "ORGANIZATION"
DirInv ==
  /\ DirTypeOK /\ DirLocks /\ (\A t \in Transactions : RequestGood(t))
  /\ Acyclic /\ PositionsInActive /\ ActiveUnderActive /\ AdminWide

\* A request stays good while the rows its transaction has locked stay as they are.
LEMMA RequestFrame ==
  ASSUME DirectoryAssumption, DirTypeOK, NEW t \in Transactions, RequestGood(t),
         dpc'[t] = dpc[t], req'[t] = req[t], seen'[t] = seen[t],
         \A d \in seen[t] : dstatus'[d] = dstatus[d] /\ parent'[d] = parent[d],
         \A p \in Positions : position'[p].status = "ACTIVE" /\ position'[p].department \in seen[t]
            => position'[p] = position[p]
  PROVE  RequestGood(t)'
<1> SUFFICES ASSUME dpc[t] = "write" PROVE RequestGood(t)'
  BY DEF RequestGood
<1>1. req[t].op # "position" => DepartmentGood(t)'
  <2> SUFFICES ASSUME req[t].op # "position" PROVE DepartmentGood(t)'
    OBVIOUS
  <2>1. DepartmentGood(t)
    BY DEF RequestGood
  <2>2. WalkEnds(seen[t], req[t].up, req[t].id)'
    <3> SUFFICES ASSUME req[t].up # Root
                 PROVE  \E path \in SUBSET (seen[t] \ {req[t].id}) :
                          /\ req[t].up \in path
                          /\ \A d \in path : parent'[d] \in path \cup {Root}
                          /\ \A part \in SUBSET path : part # {} => \E d \in part : parent'[d] \notin part
      BY DEF WalkEnds
    <3>1. PICK path \in SUBSET (seen[t] \ {req[t].id}) :
            /\ req[t].up \in path
            /\ \A d \in path : parent[d] \in path \cup {Root}
            /\ \A part \in SUBSET path : part # {} => \E d \in part : parent[d] \notin part
      BY <2>1 DEF DepartmentGood, WalkEnds
    <3>2. \A d \in path : parent'[d] = parent[d]
      BY <3>1
    <3>3. \A d \in path : parent'[d] \in path \cup {Root}
      BY <3>1, <3>2
    <3>4. \A part \in SUBSET path : part # {} => \E d \in part : parent'[d] \notin part
      BY <3>1, <3>2
    <3> QED BY <3>1, <3>3, <3>4
  <2>3. req[t].op = "update" /\ req[t].status = "DISABLED" =>
            /\ CountActivePositions(req[t].id)' = {}
            /\ \A d \in seen[t] \ {req[t].id} : parent'[d] = req[t].id => dstatus'[d] # "ACTIVE"
    BY <2>1 DEF DepartmentGood, CountActivePositions
  <2> QED BY <2>1, <2>2, <2>3 DEF DepartmentGood
<1> QED BY <1>1 DEF RequestGood

\* The steps of t that leave the tree, the positions and the scope of the administrator.
LEMMA DirQuiet ==
  ASSUME DirectoryAssumption, DirInv, NEW t \in Transactions,
         UNCHANGED <<treeVars, position>>, AdminWide', DirTypeOK', DirLocks',
         \A o \in Transactions : o # t => dpc'[o] = dpc[o] /\ seen'[o] = seen[o] /\ req'[o] = req[o],
         RequestGood(t)'
  PROVE  DirInv'
<1>1. dstatus' = dstatus /\ parent' = parent /\ position' = position
  BY DEF treeVars
<1>2. ASSUME NEW o \in Transactions, o # t
      PROVE  RequestGood(o)'
  BY <1>1, <1>2, RequestFrame DEF DirInv
<1>3. Acyclic' /\ PositionsInActive' /\ ActiveUnderActive'
  BY <1>1 DEF DirInv, Acyclic, PositionsInActive, ActiveUnderActive
<1> QED BY <1>2, <1>3 DEF DirInv

LEMMA DirInitially == DirectoryAssumption /\ DirInit => DirInv
<1> SUFFICES ASSUME DirectoryAssumption, DirInit PROVE DirInv
  OBVIOUS
<1>1. DirTypeOK
  <2>1. NoRequest \in Requests
    BY DEF NoRequest, Requests, DirStatuses
  <2> QED BY <2>1 DEF DirInit, DirTypeOK, DirStatuses, ScopeTypes, DirectoryAssumption
<1>2. DirLocks /\ AdminWide /\ \A t \in Transactions : RequestGood(t)
  BY DEF DirInit, DirLocks, RowsExist, ParentsExist, Exclusive, Holds, AdminWide, RequestGood
<1>3. Acyclic
  BY DEF DirInit, Acyclic, DirectoryAssumption
<1>4. PositionsInActive /\ ActiveUnderActive
  BY DEF DirInit, PositionsInActive, ActiveUnderActive
<1> QED BY <1>1, <1>2, <1>3, <1>4 DEF DirInv

\* A transaction that begins, gets its locks or ends.
LEMMA DirLockStep ==
  ASSUME DirectoryAssumption, DirInv, NEW t \in Transactions,
         BeginList(t) \/ ListDepartmentsForUpdate(t) \/ Rollback(t)
  PROVE  DirInv'
<1>1. dstatus' = dstatus /\ parent' = parent /\ position' = position /\ assignments' = assignments
      /\ scopeType' = scopeType /\ scopeDepts' = scopeDepts /\ Existing' = Existing
  BY DEF BeginList, ListDepartmentsForUpdate, Rollback, treeVars, peopleVars, scopeVars, Existing
<1>2. \A o \in Transactions : o # t => dpc'[o] = dpc[o] /\ seen'[o] = seen[o] /\ req'[o] = req[o]
  BY DEF BeginList, ListDepartmentsForUpdate, Rollback, EndTx, DirInv, DirTypeOK
<1>3. NoRequest \in Requests /\ Existing \in SUBSET Departments
  BY DEF NoRequest, Requests, DirStatuses, Existing
<1>4. dpc' \in [Transactions -> {"idle", "wait", "locked", "write"}] /\ seen' \in [Transactions -> SUBSET Departments]
      /\ req' \in [Transactions -> Requests]
  BY <1>3 DEF BeginList, ListDepartmentsForUpdate, Rollback, EndTx, DirInv, DirTypeOK
<1>5. DirTypeOK'
  BY <1>1, <1>4 DEF DirInv, DirTypeOK
<1>6. RowsExist' /\ ParentsExist'
  <2>1. seen'[t] \subseteq Existing
    BY DEF BeginList, ListDepartmentsForUpdate, Rollback, EndTx, DirInv, DirTypeOK, DirLocks, RowsExist
  <2> QED BY <1>1, <1>2, <2>1 DEF DirInv, DirLocks, RowsExist, ParentsExist
<1>7. Exclusive'
  <2>1. CASE dpc'[t] \notin {"locked", "write"}
    BY <1>1, <1>2, <2>1 DEF Exclusive, Holds, DirInv, DirLocks
  <2>2. CASE dpc'[t] \in {"locked", "write"}
    <3>1. ListDepartmentsForUpdate(t)
      BY <2>2 DEF BeginList, ListDepartmentsForUpdate, Rollback, EndTx, DirInv, DirTypeOK
    <3>2. \A o \in Transactions : o # t /\ Holds(o) => Phantoms /\ seen[o] \cap seen[t] = {} /\ seen'[t] = seen[t]
      BY <3>1 DEF ListDepartmentsForUpdate, Holding, Holds
    <3>3. ~Phantoms => Existing = seen'[t]
      BY <3>1 DEF ListDepartmentsForUpdate, DirInv, DirTypeOK
    <3>4. \A o \in Transactions : o # t => Holds(o)' = Holds(o)
      BY <1>2 DEF Holds
    <3>5. \A o \in Transactions : o # t /\ Holds(o)' => Phantoms /\ seen'[o] \cap seen'[t] = {}
      BY <1>2, <3>2, <3>4
    <3>6. \A o, q \in Transactions : o # t /\ q # t /\ o # q /\ Holds(o)' /\ Holds(q)' => Phantoms /\ seen'[o] \cap seen'[q] = {}
      BY <1>2, <3>4 DEF Exclusive, DirInv, DirLocks
    <3>7. ~Phantoms => \A o \in Transactions : Holds(o)' => Existing' \subseteq seen'[o]
      BY <1>1, <3>3, <3>5
    <3> QED BY <3>5, <3>6, <3>7 DEF Exclusive
  <2> QED BY <2>1, <2>2
<1>8. RequestGood(t)'
  BY DEF RequestGood, BeginList, ListDepartmentsForUpdate, Rollback, EndTx, DirInv, DirTypeOK
<1>9. AdminWide' /\ UNCHANGED <<treeVars, position>>
  BY <1>1 DEF AdminWide, DirInv, treeVars
<1> QED BY <1>2, <1>5, <1>6, <1>7, <1>8, <1>9, DirQuiet DEF DirLocks

\* The checks that precede a write.
LEMMA DirDecide ==
  ASSUME DirectoryAssumption, DirInv, NEW t \in Transactions, NEW r \in Requests, Decide(t, r),
         RequestGood(t)'
  PROVE  DirInv'
<1>1. dstatus' = dstatus /\ parent' = parent /\ position' = position /\ assignments' = assignments
      /\ scopeType' = scopeType /\ scopeDepts' = scopeDepts /\ Existing' = Existing /\ seen' = seen
  BY DEF Decide, treeVars, peopleVars, scopeVars, Existing
<1>2. \A o \in Transactions : (o # t => dpc'[o] = dpc[o] /\ req'[o] = req[o]) /\ (Holds(o)' <=> Holds(o))
  BY DEF Decide, Holds, DirInv, DirTypeOK
<1>3. DirTypeOK'
  BY <1>1 DEF Decide, DirInv, DirTypeOK
<1>4. DirLocks'
  BY <1>1, <1>2 DEF DirInv, DirLocks, RowsExist, ParentsExist, Exclusive
<1>5. AdminWide' /\ UNCHANGED <<treeVars, position>>
  BY <1>1 DEF AdminWide, DirInv, treeVars
<1> QED BY <1>1, <1>2, <1>3, <1>4, <1>5, DirQuiet

LEMMA DirCheckStep ==
  ASSUME DirectoryAssumption, DirInv, NEW t \in Transactions,
         NEW up \in Departments \cup {Root}, NEW status \in DirStatuses,
         \/ CheckCreateDepartment(t, up, status)
         \/ \E d \in Departments : CheckUpdateDepartment(t, d, up, status)
         \/ \E p \in Positions, d \in Departments : up = d /\ CheckPosition(t, p, d, status)
  PROVE  DirInv'
<1>1. CASE CheckCreateDepartment(t, up, status)
  <2>1. PICK r : r = [op |-> "create", id |-> Root, up |-> up, status |-> status]
    OBVIOUS
  <2>2. r \in Requests /\ r.op = "create" /\ r.id = Root /\ r.up = up /\ r.status = status
    BY <2>1 DEF Requests
  <2>3. Decide(t, r) /\ validateDepartmentHierarchy(seen[t], Root, up, status)
    BY <1>1, <2>1 DEF CheckCreateDepartment
  <2>4. req'[t] = r /\ dstatus' = dstatus /\ parent' = parent /\ seen' = seen
    BY <2>3 DEF Decide, treeVars, DirInv, DirTypeOK
  <2>5. WalkEnds(seen[t], up, Root)' /\ (up # Root => up \in seen[t] /\ (status = "ACTIVE" => dstatus[up] = "ACTIVE"))
    BY <2>3, <2>4 DEF validateDepartmentHierarchy, WalkEnds
  <2>6. RequestGood(t)'
    BY <2>2, <2>4, <2>5 DEF RequestGood, DepartmentGood, WalkEnds
  <2> QED BY <2>2, <2>3, <2>6, DirDecide
<1>2. ASSUME NEW d \in Departments, CheckUpdateDepartment(t, d, up, status)
      PROVE  DirInv'
  <2>1. PICK r : r = [op |-> "update", id |-> d, up |-> up, status |-> status]
    OBVIOUS
  <2>2. r \in Requests /\ r.op = "update" /\ r.id = d /\ r.up = up /\ r.status = status
    BY <2>1 DEF Requests
  <2>3. Decide(t, r) /\ validateDepartmentHierarchy(seen[t], d, up, status) /\ d \in seen[t]
        /\ (status = "DISABLED" => CountActivePositions(d) = {})
    BY <1>2, <2>1 DEF CheckUpdateDepartment
  <2>4. req'[t] = r /\ dstatus' = dstatus /\ parent' = parent /\ seen' = seen /\ position' = position
    BY <2>3 DEF Decide, treeVars, peopleVars, DirInv, DirTypeOK
  <2>5. /\ WalkEnds(seen[t], up, d)' /\ (up # Root => up \in seen[t] /\ (status = "ACTIVE" => dstatus[up] = "ACTIVE"))
        /\ up # d
        /\ (status = "DISABLED" => \A c \in seen[t] \ {d} : parent[c] = d => dstatus[c] # "ACTIVE")
    BY <2>3, <2>4 DEF validateDepartmentHierarchy, WalkEnds, DirectoryAssumption
  <2>6. CountActivePositions(d)' = CountActivePositions(d)
    BY <2>4 DEF CountActivePositions
  <2>7. RequestGood(t)'
    BY <2>2, <2>3, <2>4, <2>5, <2>6 DEF RequestGood, DepartmentGood, WalkEnds, CountActivePositions
  <2> QED BY <2>2, <2>3, <2>7, DirDecide
<1>3. ASSUME NEW p \in Positions, NEW d \in Departments, up = d, CheckPosition(t, p, d, status)
      PROVE  DirInv'
  <2>1. PICK r : r = [op |-> "position", id |-> p, up |-> d, status |-> status]
    OBVIOUS
  <2>2. r \in Requests /\ r.op = "position" /\ r.id = p /\ r.up = d /\ r.status = status
    BY <2>1 DEF Requests
  <2>3. Decide(t, r) /\ d \in seen[t] /\ (status = "ACTIVE" => dstatus[d] = "ACTIVE")
    BY <1>3, <2>1 DEF CheckPosition, validatePositionDepartment
  <2>4. req'[t] = r /\ dstatus' = dstatus /\ parent' = parent /\ seen' = seen
    BY <2>3 DEF Decide, treeVars, DirInv, DirTypeOK
  <2>5. RequestGood(t)'
    BY <2>2, <2>3, <2>4 DEF RequestGood, DirectoryAssumption
  <2> QED BY <2>2, <2>3, <2>5, DirDecide
<1> QED BY <1>1, <1>2, <1>3

\* What the end of a transaction leaves of the locks.
LEMMA DirEnd ==
  ASSUME DirTypeOK, DirLocks, NEW t \in Transactions, EndTx(t), Holds(t),
         \A d \in Departments : d \in Existing => d \in Existing'
  PROVE  /\ \A o \in Transactions : o # t => dpc'[o] = dpc[o] /\ seen'[o] = seen[o] /\ req'[o] = req[o]
         /\ dpc'[t] = "idle"
         /\ RowsExist' /\ Exclusive' /\ RequestGood(t)'
         /\ dpc' \in [Transactions -> {"idle", "wait", "locked", "write"}]
         /\ seen' \in [Transactions -> SUBSET Departments] /\ req' \in [Transactions -> Requests]
<1>1. NoRequest \in Requests
  BY DEF NoRequest, Requests, DirStatuses
<1>2. \A o \in Transactions : o # t => dpc'[o] = dpc[o] /\ seen'[o] = seen[o] /\ req'[o] = req[o]
  BY DEF EndTx, DirTypeOK
<1>3. dpc'[t] = "idle" /\ seen'[t] = {}
  BY DEF EndTx, DirTypeOK
<1>4. Existing \subseteq Departments
  BY DEF Existing
<1>5. RowsExist'
  BY <1>2, <1>3, <1>4 DEF DirLocks, RowsExist
<1>6. \A o \in Transactions : Holds(o)' => o # t /\ Holds(o)
  BY <1>2, <1>3 DEF Holds
<1>7. Exclusive'
  <2>1. \A q, o \in Transactions : q # o /\ Holds(q)' /\ Holds(o)' => Phantoms /\ seen'[q] \cap seen'[o] = {}
    BY <1>2, <1>6 DEF DirLocks, Exclusive
  <2>2. ~Phantoms => \A o \in Transactions : ~Holds(o)'
    BY <1>6 DEF DirLocks, Exclusive
  <2> QED BY <2>1, <2>2 DEF Exclusive
<1>8. RequestGood(t)'
  BY <1>3 DEF RequestGood
<1>9. /\ dpc' \in [Transactions -> {"idle", "wait", "locked", "write"}]
      /\ seen' \in [Transactions -> SUBSET Departments] /\ req' \in [Transactions -> Requests]
  BY <1>1 DEF EndTx, DirTypeOK
<1> QED BY <1>2, <1>3, <1>5, <1>7, <1>8, <1>9

\* A department gets a parent that was checked: the tree stays a forest.
LEMMA DirAcyclic ==
  ASSUME DirectoryAssumption, DirInv, NEW t \in Transactions, NEW d \in Departments, WriteDepartment(t, d)
  PROVE  Acyclic'
<1> DEFINE up == req[t].up
<1> SUFFICES ASSUME NEW S \in SUBSET Departments, S # {}
             PROVE  \E e \in S : parent'[e] \notin S
  BY DEF Acyclic
<1>1. parent' = [parent EXCEPT ![d] = up] /\ parent \in [Departments -> Departments \cup {Root}]
  BY DEF WriteDepartment, DirInv, DirTypeOK
<1>2. parent'[d] = up /\ \A e \in Departments : e # d => parent'[e] = parent[e]
  BY <1>1
<1>3. CASE d \notin S
  BY <1>2, <1>3 DEF DirInv, Acyclic
<1>4. CASE d \in S /\ up \notin S
  BY <1>2, <1>4
<1>5. CASE d \in S /\ up \in S /\ req[t].op = "create"
  <2>1. d \notin Existing /\ up \in Existing /\ up \in Departments
    BY <1>5 DEF WriteDepartment, DirInv, RequestGood, DirLocks, RowsExist, Existing, DirectoryAssumption
  <2>2. PICK e \in S \ {d} : parent[e] \notin S \ {d}
    BY <1>5, <2>1 DEF DirInv, Acyclic
  <2>3. parent[e] # d
    BY <2>1, <2>2 DEF DirInv, DirLocks, ParentsExist, DirectoryAssumption
  <2> QED BY <1>2, <2>2, <2>3
<1>6. CASE d \in S /\ up \in S /\ req[t].op = "update"
  <2>1. dpc[t] = "write" /\ req[t].id = d /\ up # Root
    BY <1>6 DEF WriteDepartment, DirectoryAssumption
  <2>2. WalkEnds(seen[t], up, d)
    BY <1>6, <2>1 DEF DirInv, RequestGood, DepartmentGood
  <2>3. PICK path \in SUBSET (seen[t] \ {d}) :
          /\ up \in path
          /\ \A e \in path : parent[e] \in path \cup {Root}
          /\ \A part \in SUBSET path : part # {} => \E e \in part : parent[e] \notin part
    BY <2>1, <2>2 DEF WalkEnds
  <2>4. S \cap path \in SUBSET path /\ S \cap path # {}
    BY <1>6, <2>3
  <2>5. PICK e \in S \cap path : parent[e] \notin S \cap path
    BY <2>3, <2>4
  <2>6. parent[e] \notin S /\ e # d
    BY <2>3, <2>5 DEF DirectoryAssumption
  <2> QED BY <1>2, <2>5, <2>6
<1> QED BY <1>3, <1>4, <1>5, <1>6 DEF WriteDepartment

LEMMA DirWriteDepartment ==
  ASSUME DirectoryAssumption, DirInv, NEW t \in Transactions, NEW d \in Departments, WriteDepartment(t, d)
  PROVE  DirInv'
<1> DEFINE up == req[t].up
           status == req[t].status
<1>1. /\ dpc[t] = "write" /\ Holds(t) /\ EndTx(t) /\ req[t] \in Requests
      /\ dstatus' = [dstatus EXCEPT ![d] = status] /\ parent' = [parent EXCEPT ![d] = up]
      /\ position' = position /\ assignments' = assignments /\ scopeType' = scopeType /\ scopeDepts' = scopeDepts
  BY DEF WriteDepartment, Holds, DirInv, DirTypeOK, peopleVars, scopeVars
<1>2. up \in Departments \cup {Root} /\ status \in DirStatuses /\ req[t].op \in {"create", "update"}
  BY <1>1 DEF Requests, WriteDepartment
<1>3. dstatus' \in [Departments -> DirStatuses \cup {"NONE"}] /\ parent' \in [Departments -> Departments \cup {Root}]
  BY <1>1, <1>2 DEF DirInv, DirTypeOK
<1>4. /\ dstatus'[d] = status /\ parent'[d] = up
      /\ \A e \in Departments : e # d => dstatus'[e] = dstatus[e] /\ parent'[e] = parent[e]
  BY <1>1 DEF DirInv, DirTypeOK
<1>5. RequestGood(t) /\ DepartmentGood(t) /\ (req[t].op = "update" => d = req[t].id /\ d \in seen[t] /\ d # up)
      /\ (req[t].op = "create" => d \notin Existing) /\ (up # Root => up \in seen[t])
      /\ (up # Root /\ status = "ACTIVE" => dstatus[up] = "ACTIVE")
  BY <1>1, <1>2 DEF DirInv, RequestGood, DepartmentGood, WriteDepartment
<1>6. status # "NONE" /\ Existing' = Existing \cup {d} /\ seen[t] \subseteq Existing
  BY <1>2, <1>4 DEF DirStatuses, Existing, DirInv, DirLocks, RowsExist
<1>8. /\ \A o \in Transactions : o # t => dpc'[o] = dpc[o] /\ seen'[o] = seen[o] /\ req'[o] = req[o]
      /\ RowsExist' /\ Exclusive' /\ RequestGood(t)'
      /\ dpc' \in [Transactions -> {"idle", "wait", "locked", "write"}]
      /\ seen' \in [Transactions -> SUBSET Departments] /\ req' \in [Transactions -> Requests]
  BY <1>1, <1>6, DirEnd DEF DirInv
<1>9. ParentsExist'
  BY <1>4, <1>5, <1>6 DEF DirInv, DirLocks, ParentsExist
<1>10. ASSUME NEW o \in Transactions, o # t
       PROVE  RequestGood(o)'
  <2>1. CASE dpc[o] # "write"
    BY <1>8, <1>10, <2>1 DEF RequestGood
  <2>2. CASE dpc[o] = "write"
    <3>1. d \notin seen[o]
      BY <1>1, <1>2, <1>5, <1>10, <2>2 DEF DirInv, DirLocks, Exclusive, Holds, RowsExist
    <3>2. \A e \in seen[o] : dstatus'[e] = dstatus[e] /\ parent'[e] = parent[e]
      BY <1>4, <3>1 DEF DirInv, DirTypeOK
    <3> QED BY <1>1, <1>8, <1>10, <3>2, RequestFrame DEF DirInv
  <2> QED BY <2>1, <2>2
<1>11. PositionsInActive'
  <2> SUFFICES ASSUME NEW p \in Positions, position[p].status = "ACTIVE"
               PROVE  position[p].department \in Departments /\ dstatus'[position[p].department] = "ACTIVE"
    BY <1>1 DEF PositionsInActive
  <2>1. position[p].department \in Departments /\ dstatus[position[p].department] = "ACTIVE"
    BY DEF DirInv, PositionsInActive
  <2>2. CASE position[p].department = d
    <3>1. req[t].op = "update"
      BY <1>2, <1>5, <2>1, <2>2 DEF Existing
    <3>2. status # "DISABLED"
      BY <1>5, <2>2, <3>1 DEF DepartmentGood, CountActivePositions
    <3> QED BY <1>2, <1>4, <2>1, <2>2, <3>2 DEF DirStatuses
  <2>3. CASE position[p].department # d
    BY <1>4, <2>1, <2>3
  <2> QED BY <2>2, <2>3
<1>12. ActiveUnderActive'
  <2> SUFFICES ASSUME ~Phantoms, NEW e \in Departments, dstatus'[e] = "ACTIVE", parent'[e] # Root
               PROVE  dstatus'[parent'[e]] = "ACTIVE"
    BY DEF ActiveUnderActive
  <2>1. CASE e = d
    <3>1. up # d
      BY <1>2, <1>4, <1>5, <1>6, <2>1
    <3> QED BY <1>2, <1>4, <1>5, <2>1, <3>1
  <2>2. CASE e # d
    <3>1. dstatus[e] = "ACTIVE" /\ parent'[e] = parent[e] /\ dstatus[parent[e]] = "ACTIVE"
          /\ e \in Existing /\ parent[e] \in Existing
      BY <1>4, <2>2 DEF DirInv, ActiveUnderActive, DirLocks, ParentsExist
    <3>2. CASE parent[e] # d
      BY <1>4, <3>1, <3>2 DEF Existing
    <3>3. CASE parent[e] = d
      <4>1. req[t].op = "update" /\ e \in seen[t]
        BY <1>1, <1>2, <1>5, <3>1, <3>3 DEF DirInv, DirLocks, Exclusive
      <4>2. status # "DISABLED"
        BY <1>5, <2>2, <3>1, <3>3, <4>1 DEF DepartmentGood
      <4> QED BY <1>2, <1>4, <3>1, <3>3, <4>2 DEF DirStatuses
    <3> QED BY <3>2, <3>3
  <2> QED BY <2>1, <2>2
<1>13. DirTypeOK' /\ AdminWide'
  BY <1>1, <1>3, <1>8 DEF DirInv, DirTypeOK, AdminWide
<1> QED BY <1>8, <1>9, <1>10, <1>11, <1>12, <1>13, DirAcyclic DEF DirInv, DirLocks

LEMMA DirWritePosition ==
  ASSUME DirectoryAssumption, DirInv, NEW t \in Transactions, NEW p \in Positions, WritePosition(t, p)
  PROVE  DirInv'
<1>1. PICK q : q = [department |-> req[t].up, status |-> req[t].status]
  OBVIOUS
<1>2. /\ dpc[t] = "write" /\ Holds(t) /\ EndTx(t) /\ req[t] \in Requests /\ req[t].op = "position"
      /\ position' = [position EXCEPT ![p] = q]
      /\ dstatus' = dstatus /\ parent' = parent /\ assignments' = assignments
      /\ scopeType' = scopeType /\ scopeDepts' = scopeDepts /\ Existing' = Existing
  BY <1>1 DEF WritePosition, Holds, DirInv, DirTypeOK, treeVars, scopeVars, Existing
<1>3. req[t].up \in seen[t] /\ req[t].up \in Departments /\ req[t].status \in DirStatuses
      /\ (req[t].status = "ACTIVE" => dstatus[req[t].up] = "ACTIVE")
  BY <1>2 DEF DirInv, DirTypeOK, RequestGood, Requests
<1>4. q \in [department : Departments \cup {Root}, status : DirStatuses]
      /\ q.department = req[t].up /\ q.status = req[t].status
  BY <1>1, <1>3
<1>5. /\ \A o \in Transactions : o # t => dpc'[o] = dpc[o] /\ seen'[o] = seen[o] /\ req'[o] = req[o]
      /\ RowsExist' /\ Exclusive' /\ RequestGood(t)'
      /\ dpc' \in [Transactions -> {"idle", "wait", "locked", "write"}]
      /\ seen' \in [Transactions -> SUBSET Departments] /\ req' \in [Transactions -> Requests]
  BY <1>2, DirEnd DEF DirInv
<1>6. position'[p] = q /\ \A z \in Positions : z # p => position'[z] = position[z]
  BY <1>2 DEF DirInv, DirTypeOK
<1>7. position' \in [Positions -> [department : Departments \cup {Root}, status : DirStatuses]]
  BY <1>2, <1>4 DEF DirInv, DirTypeOK
<1>8. ASSUME NEW o \in Transactions, o # t
      PROVE  RequestGood(o)'
  <2>1. CASE dpc[o] # "write"
    BY <1>5, <1>8, <2>1 DEF RequestGood
  <2>2. CASE dpc[o] = "write"
    <3>1. q.department \notin seen[o]
      BY <1>2, <1>3, <1>4, <1>8, <2>2 DEF DirInv, DirLocks, Exclusive, Holds
    <3>2. \A z \in Positions : position'[z].status = "ACTIVE" /\ position'[z].department \in seen[o]
             => position'[z] = position[z]
      BY <1>6, <3>1
    <3> QED BY <1>2, <1>5, <1>8, <3>2, RequestFrame DEF DirInv
  <2> QED BY <2>1, <2>2
<1>9. PositionsInActive'
  BY <1>2, <1>3, <1>4, <1>6 DEF DirInv, PositionsInActive
<1>10. Acyclic' /\ ActiveUnderActive' /\ ParentsExist' /\ AdminWide'
  BY <1>2 DEF DirInv, Acyclic, ActiveUnderActive, DirLocks, ParentsExist, AdminWide
<1>11. DirTypeOK'
  BY <1>2, <1>5, <1>7 DEF DirInv, DirTypeOK
<1> QED BY <1>5, <1>8, <1>9, <1>10, <1>11 DEF DirInv, DirLocks

\* The writes that touch neither the tree nor the positions.
LEMMA DirWritePeople ==
  ASSUME DirectoryAssumption, DirInv, NEW t \in Transactions,
         \/ \E u \in Users, rows \in SUBSET AssignmentRows : ReplaceUserAssignments(t, u, rows)
         \/ \E r \in Roles, type \in ScopeTypes, ids \in SUBSET Departments : UpdateRoleDataScope(t, r, type, ids)
  PROVE  DirInv'
<1>1. dpc[t] = "locked" /\ EndTx(t) /\ dstatus' = dstatus /\ parent' = parent /\ position' = position /\ Existing' = Existing
  BY DEF ReplaceUserAssignments, UpdateRoleDataScope, treeVars, peopleVars, Existing
<1>2. /\ \A o \in Transactions : o # t => dpc'[o] = dpc[o] /\ seen'[o] = seen[o] /\ req'[o] = req[o]
      /\ RowsExist' /\ Exclusive' /\ RequestGood(t)'
      /\ dpc' \in [Transactions -> {"idle", "wait", "locked", "write"}]
      /\ seen' \in [Transactions -> SUBSET Departments] /\ req' \in [Transactions -> Requests]
  BY <1>1, DirEnd DEF DirInv, Holds
<1>3. assignments' \in [Users -> SUBSET AssignmentRows] /\ scopeType' \in [Roles -> ScopeTypes]
      /\ scopeDepts' \in [Roles -> SUBSET Departments] /\ AdminWide'
  BY DEF ReplaceUserAssignments, UpdateRoleDataScope, scopeVars, peopleVars, DirInv, DirTypeOK, AdminWide, DirectoryAssumption
<1>4. DirTypeOK' /\ ParentsExist'
  BY <1>1, <1>2, <1>3 DEF DirInv, DirTypeOK, DirLocks, ParentsExist
<1>5. UNCHANGED <<treeVars, position>>
  BY <1>1 DEF treeVars
<1> QED BY <1>2, <1>3, <1>4, <1>5, DirQuiet DEF DirLocks

LEMMA DirPassTime ==
  ASSUME DirectoryAssumption, DirInv, NEW u \in Users, NEW a \in assignments[u], PassTime(u, a)
  PROVE  DirInv'
<1>1. /\ dstatus' = dstatus /\ parent' = parent /\ position' = position /\ Existing' = Existing
      /\ scopeType' = scopeType /\ scopeDepts' = scopeDepts /\ dpc' = dpc /\ seen' = seen /\ req' = req
  BY DEF PassTime, treeVars, scopeVars, lockVars, Existing
<1>2. a \in AssignmentRows
  BY DEF DirInv, DirTypeOK
<1>3. PICK b : b = [a EXCEPT !.period = IF @ = "future" THEN "current" ELSE "past"]
  OBVIOUS
<1>4. b \in AssignmentRows
  BY <1>2, <1>3 DEF AssignmentRows, Periods
<1>5. assignments' = [assignments EXCEPT ![u] = (@ \ {a}) \cup {b}]
  BY <1>3 DEF PassTime
<1>6. assignments' \in [Users -> SUBSET AssignmentRows]
  BY <1>4, <1>5 DEF DirInv, DirTypeOK
<1>7. DirTypeOK'
  BY <1>1, <1>6 DEF DirInv, DirTypeOK
<1>8. \A t \in Transactions : RequestGood(t)'
  BY <1>1, RequestFrame DEF DirInv
<1> QED BY <1>1, <1>7, <1>8 DEF DirInv, DirLocks, RowsExist, ParentsExist, Exclusive, Holds, Acyclic,
          PositionsInActive, ActiveUnderActive, AdminWide

LEMMA DirInvStep == DirectoryAssumption /\ DirInv /\ [DirNext]_dirVars => DirInv'
<1> SUFFICES ASSUME DirectoryAssumption, DirInv, [DirNext]_dirVars PROVE DirInv'
  OBVIOUS
<1>1. CASE UNCHANGED dirVars
  <2>1. /\ dstatus' = dstatus /\ parent' = parent /\ position' = position /\ Existing' = Existing
        /\ scopeType' = scopeType /\ scopeDepts' = scopeDepts /\ dpc' = dpc /\ seen' = seen /\ req' = req
        /\ assignments' = assignments
    BY <1>1 DEF dirVars, treeVars, peopleVars, scopeVars, lockVars, Existing
  <2>2. \A t \in Transactions : RequestGood(t)'
    BY <2>1, RequestFrame DEF DirInv
  <2> QED BY <2>1, <2>2 DEF DirInv, DirTypeOK, DirLocks, RowsExist, ParentsExist, Exclusive, Holds, Acyclic,
            PositionsInActive, ActiveUnderActive, AdminWide
<1>2. ASSUME NEW t \in Transactions, BeginList(t) \/ ListDepartmentsForUpdate(t) \/ Rollback(t)
      PROVE  DirInv'
  BY <1>2, DirLockStep
<1>3. ASSUME NEW t \in Transactions, NEW up \in Departments \cup {Root}, NEW status \in DirStatuses,
             \/ CheckCreateDepartment(t, up, status)
             \/ \E d \in Departments : CheckUpdateDepartment(t, d, up, status)
      PROVE  DirInv'
  BY <1>3, DirCheckStep
<1>4. ASSUME NEW t \in Transactions, NEW p \in Positions, NEW d \in Departments, NEW status \in DirStatuses,
             CheckPosition(t, p, d, status)
      PROVE  DirInv'
  <2>1. d \in Departments \cup {Root} /\ \E z \in Positions, e \in Departments : d = e /\ CheckPosition(t, z, e, status)
    BY <1>4
  <2> QED BY <2>1, DirCheckStep
<1>5. ASSUME NEW t \in Transactions,
             \/ \E d \in Departments : WriteDepartment(t, d)
             \/ \E p \in Positions : WritePosition(t, p)
             \/ \E u \in Users, rows \in SUBSET AssignmentRows : ReplaceUserAssignments(t, u, rows)
             \/ \E r \in Roles, type \in ScopeTypes, ids \in SUBSET Departments : UpdateRoleDataScope(t, r, type, ids)
      PROVE  DirInv'
  BY <1>5, DirWriteDepartment, DirWritePosition, DirWritePeople
<1>6. ASSUME NEW u \in Users, NEW a \in assignments[u], PassTime(u, a)
      PROVE  DirInv'
  BY <1>6, DirPassTime
<1> QED BY <1>1, <1>2, <1>3, <1>4, <1>5, <1>6 DEF DirNext

(* However the updates of departments, positions and assignments overlap,   *)
(* with PostgreSQL's phantoms or MySQL's next-key locks: no department is    *)
(* its own ancestor, an active position is in an active department, and,     *)
(* without phantoms, an active department is under an active one.            *)
THEOREM DirectoryStaysATree ==
  DirectoryAssumption => (DirSpec => [](DirTypeOK /\ Acyclic /\ PositionsInActive /\ ActiveUnderActive))
<1> SUFFICES ASSUME DirectoryAssumption
             PROVE  DirSpec => [](DirTypeOK /\ Acyclic /\ PositionsInActive /\ ActiveUnderActive)
  OBVIOUS
<1>1. DirInit => DirInv
  BY DirInitially
<1>2. DirInv /\ [DirNext]_dirVars => DirInv'
  BY DirInvStep
<1>3. DirInv => DirTypeOK /\ Acyclic /\ PositionsInActive /\ ActiveUnderActive
  BY DEF DirInv
<1> QED BY <1>1, <1>2, <1>3, PTL DEF DirSpec

LEMMA VisibilityAgrees ==
  ASSUME DirectoryAssumption, DirTypeOK, AdminWide
  PROVE  SameVisibility
<1> SUFFICES ASSUME NEW actor \in Users, NEW R \in SUBSET Roles, NEW u \in Users
             PROVE  u \in ListUsers(actor, R) <=> userWithinDataScope(actor, R, u)
  BY DEF SameVisibility, ListUsers
<1>1. PICK scope : scope = DataScopeForUser(actor, R)
  OBVIOUS
<1>2. Admin \in R => scope.organizationWide
  BY <1>1 DEF DataScopeForUser, AdminWide
<1>3. u \in ListUsers(actor, R) <=>
        \/ scope.organizationWide
        \/ scope.self /\ u = actor
        \/ \E a \in assignments[u] : a.period = "current" /\ a.department \in scope.departments
  BY <1>1 DEF ListUsers
<1>4. userWithinDataScope(actor, R, u) <=>
        \/ scope.organizationWide \/ Admin \in R \/ (scope.self /\ actor = u)
        \/ \E d \in CurrentUserDepartmentIDs(u) : Allows(scope, u, d, actor)
  BY <1>1 DEF userWithinDataScope
<1>5. \A a \in assignments[u] : a.department \in Departments
  BY DEF DirTypeOK, AssignmentRows
<1>6. (\E d \in CurrentUserDepartmentIDs(u) : d \in scope.departments) <=>
        \E a \in assignments[u] : a.period = "current" /\ a.department \in scope.departments
  BY <1>5 DEF CurrentUserDepartmentIDs
<1> QED BY <1>2, <1>3, <1>4, <1>6 DEF Allows

(* The list of users and the check of every operation on one user show an   *)
(* actor the same users, whatever roles and scopes he has: the administrator *)
(* role, which the check accepts on its own, cannot lose its scope.          *)
THEOREM ListAndCheckAgree ==
  DirectoryAssumption => (DirSpec => []SameVisibility)
<1> SUFFICES ASSUME DirectoryAssumption PROVE DirSpec => []SameVisibility
  OBVIOUS
<1>1. DirInit => DirInv
  BY DirInitially
<1>2. DirInv /\ [DirNext]_dirVars => DirInv'
  BY DirInvStep
<1>3. DirInv => SameVisibility
  BY VisibilityAgrees DEF DirInv
<1> QED BY <1>1, <1>2, <1>3, PTL DEF DirSpec

-----------------------------------------------------------------------------
(***************************************************************************)
(* Access reviews (AccessReview).  RevLocks says what the row lock of       *)
(* DecideAccessReviewItem guarantees to the request that holds it.          *)
(***************************************************************************)
RevLocks ==
  \A q \in Deciders :
    /\ rlock[q] # NoReview =>
         /\ rlock[q] \in Reviews /\ rstatus[rlock[q]] = "OPEN"
         /\ \A p \in Deciders : rlock[p] = rlock[q] => p = q
    /\ chosen[q].keys # {} =>
         /\ rlock[q] # NoReview
         /\ chosen[q].keys \subseteq PendingItems(rlock[q])
         /\ chosen[q].last <=> PendingItems(rlock[q]) \subseteq chosen[q].keys

NoItems == \A v \in Reviews : rstatus[v] = "NONE" => \A i \in ItemKeys : item[v][i] = "NONE"

RevInv ==
  RevTypeOK /\ RevLocks /\ NoItems /\ CompletedWhenDecided /\ IndependentReview /\ EmptyWithoutOverlap

DecisionsKept ==
  \A v \in Reviews :
    /\ rstatus[v] = "COMPLETED" => rstatus'[v] = "COMPLETED"
    /\ \A i \in ItemKeys : item[v][i] \in Decided => item'[v][i] = item[v][i]

LEMMA ReviewInit == ReviewAssumption /\ RevInit => RevInv
<1> SUFFICES ASSUME RevInit PROVE RevInv
  OBVIOUS
<1>1. NoChoice \in [keys : SUBSET ItemKeys, decision : Decided, last : BOOLEAN] /\ NoChoice.keys = {}
  BY DEF NoChoice, Decided
<1>2. RevTypeOK
  BY <1>1 DEF RevInit, RevTypeOK
<1>3. RevLocks /\ NoItems
  BY <1>1 DEF RevInit, RevLocks, NoItems
<1>4. CompletedWhenDecided /\ IndependentReview /\ EmptyWithoutOverlap
  BY DEF RevInit, CompletedWhenDecided, IndependentReview, EmptyWithoutOverlap
<1> QED BY <1>2, <1>3, <1>4 DEF RevInv

LEMMA ReviewEntitlements ==
  ASSUME RevInv, NEW u \in Subjects, NEW r \in RoleKeys, NEW s \in Sources, ChangeEntitlements(u, r, s)
  PROVE  RevInv' /\ DecisionsKept
<1> USE DEF RevInv
<1>1. UNCHANGED <<rstatus, reviewer, creator, item, rlock, chosen>>
  BY DEF ChangeEntitlements, reviewVars, deciderVars
<1>2. active' \in SUBSET Subjects
  BY DEF ChangeEntitlements, RevTypeOK
<1>3. held' \in [Sources -> SUBSET ItemKeys]
  BY DEF ChangeEntitlements, RevTypeOK, ItemKeys
<1>4. RevTypeOK'
  BY <1>1, <1>2, <1>3 DEF RevTypeOK
<1>5. RevLocks' /\ NoItems'
  BY <1>1 DEF RevLocks, PendingItems, NoItems
<1>6. CompletedWhenDecided' /\ IndependentReview' /\ EmptyWithoutOverlap'
  BY <1>1 DEF CompletedWhenDecided, PendingItems, IndependentReview, EmptyWithoutOverlap
<1> QED BY <1>1, <1>4, <1>5, <1>6 DEF DecisionsKept

LEMMA ReviewCreate ==
  ASSUME RevInv, NEW v \in Reviews, NEW actor \in Subjects, NEW who \in Subjects,
         CreateAccessReview(v, actor, who)
  PROVE  RevInv' /\ DecisionsKept
<1> USE DEF RevInv
<1> DEFINE made == [i \in ItemKeys |-> IF i \in EntitlementSnapshot THEN "PENDING" ELSE "NONE"]
<1>1. /\ UNCHANGED <<active, held, rlock, chosen>> /\ rstatus[v] = "NONE" /\ actor # who
      /\ CursorsOverlap \/ EntitlementSnapshot = {}
      /\ rstatus' = [rstatus EXCEPT ![v] = "OPEN"]
      /\ reviewer' = [reviewer EXCEPT ![v] = who]
      /\ creator' = [creator EXCEPT ![v] = actor]
      /\ item' = [item EXCEPT ![v] = made]
  BY DEF CreateAccessReview, entitlementVars, deciderVars
<1>2. made \in [ItemKeys -> {"NONE", "PENDING"} \cup Decided]
  OBVIOUS
<1>3. RevTypeOK'
  BY <1>1, <1>2 DEF RevTypeOK
<1>4. /\ rstatus'[v] = "OPEN" /\ reviewer'[v] = who /\ creator'[v] = actor /\ item'[v] = made
      /\ \A x \in Reviews \ {v} : /\ rstatus'[x] = rstatus[x] /\ reviewer'[x] = reviewer[x]
                                  /\ creator'[x] = creator[x] /\ item'[x] = item[x]
  BY <1>1 DEF RevTypeOK
<1>5. \A i \in ItemKeys : made[i] \in {"PENDING", "NONE"}
  OBVIOUS
<1>6. \A q \in Deciders : rlock[q] # NoReview => rlock[q] \in Reviews \ {v}
  BY <1>1 DEF RevLocks
<1>7. \A x \in Reviews \ {v} : PendingItems(x)' = PendingItems(x)
  BY <1>4 DEF PendingItems
<1>8. RevLocks'
  BY <1>1, <1>4, <1>6, <1>7 DEF RevLocks
<1>9. NoItems' /\ IndependentReview'
  BY <1>1, <1>4 DEF NoItems, IndependentReview
<1>10. CompletedWhenDecided'
  <2> SUFFICES ASSUME NEW x \in Reviews
               PROVE  rstatus'[x] = "COMPLETED" <=>
                        {i \in ItemKeys : item'[x][i] # "NONE"} # {} /\ PendingItems(x)' = {}
    BY DEF CompletedWhenDecided
  <2>1. CASE x # v
    BY <1>4, <1>7, <2>1 DEF CompletedWhenDecided
  <2>2. CASE x = v
    BY <1>4, <1>5, <2>2 DEF PendingItems
  <2> QED BY <2>1, <2>2
<1>11. EmptyWithoutOverlap'
  BY <1>1, <1>4 DEF EmptyWithoutOverlap
<1>12. DecisionsKept
  BY <1>1, <1>4 DEF DecisionsKept, NoItems, Decided
<1> QED BY <1>3, <1>8, <1>9, <1>10, <1>11, <1>12

LEMMA ReviewLock ==
  ASSUME RevInv, NEW q \in Deciders, NEW v \in Reviews, NEW actor \in Subjects, LockReview(q, v, actor)
  PROVE  RevInv' /\ DecisionsKept
<1> USE DEF RevInv
<1>1. /\ UNCHANGED <<active, held, rstatus, reviewer, creator, item, chosen>>
      /\ rlock[q] = NoReview /\ rstatus[v] = "OPEN" /\ \A o \in Deciders : rlock[o] # v
      /\ rlock' = [rlock EXCEPT ![q] = v]
  BY DEF LockReview, entitlementVars, reviewVars
<1>2. RevTypeOK'
  BY <1>1 DEF RevTypeOK
<1>3. chosen[q].keys = {}
  BY <1>1 DEF RevLocks
<1>4. rlock'[q] = v /\ \A p \in Deciders \ {q} : rlock'[p] = rlock[p]
  BY <1>1 DEF RevTypeOK
<1>5. \A x : PendingItems(x)' = PendingItems(x)
  BY <1>1 DEF PendingItems
<1>6. RevLocks'
  BY <1>1, <1>3, <1>4, <1>5 DEF RevLocks
<1>7. NoItems' /\ CompletedWhenDecided' /\ IndependentReview' /\ EmptyWithoutOverlap' /\ DecisionsKept
  BY <1>1, <1>5 DEF NoItems, CompletedWhenDecided, IndependentReview, EmptyWithoutOverlap, DecisionsKept
<1> QED BY <1>2, <1>6, <1>7

LEMMA ReviewDecide ==
  ASSUME RevInv, NEW q \in Deciders, NEW i \in ItemKeys, NEW decision \in Decided, DecideItem(q, i, decision)
  PROVE  RevInv' /\ DecisionsKept
<1> USE DEF RevInv
<1>1. PICK c : c = [keys |-> {i}, decision |-> decision, last |-> PendingItems(rlock[q]) \ {i} = {}]
  OBVIOUS
<1>2. /\ UNCHANGED <<active, held, rstatus, reviewer, creator, item, rlock>>
      /\ rlock[q] # NoReview /\ i \in PendingItems(rlock[q])
      /\ chosen' = [chosen EXCEPT ![q] = c]
  BY <1>1 DEF DecideItem, entitlementVars, reviewVars
<1>3. c \in [keys : SUBSET ItemKeys, decision : Decided, last : BOOLEAN]
  BY <1>1
<1>4. c.keys = {i} /\ (c.last <=> PendingItems(rlock[q]) \ {i} = {})
  BY <1>1
<1>5. RevTypeOK'
  BY <1>2, <1>3 DEF RevTypeOK
<1>6. chosen'[q] = c /\ \A p \in Deciders \ {q} : chosen'[p] = chosen[p]
  BY <1>2 DEF RevTypeOK
<1>7. \A x : PendingItems(x)' = PendingItems(x)
  BY <1>2 DEF PendingItems
<1>8. RevLocks'
  BY <1>2, <1>4, <1>6, <1>7 DEF RevLocks
<1>9. NoItems' /\ CompletedWhenDecided' /\ IndependentReview' /\ EmptyWithoutOverlap' /\ DecisionsKept
  BY <1>2, <1>7 DEF NoItems, CompletedWhenDecided, IndependentReview, EmptyWithoutOverlap, DecisionsKept
<1> QED BY <1>5, <1>8, <1>9

LEMMA ReviewEnd ==
  ASSUME RevInv, NEW q \in Deciders, EndDecision(q)
  PROVE  /\ rlock' \in [Deciders -> Reviews \cup {NoReview}]
         /\ chosen' \in [Deciders -> [keys : SUBSET ItemKeys, decision : Decided, last : BOOLEAN]]
         /\ rlock'[q] = NoReview /\ chosen'[q].keys = {}
         /\ \A p \in Deciders \ {q} : rlock'[p] = rlock[p] /\ chosen'[p] = chosen[p]
<1>1. NoChoice \in [keys : SUBSET ItemKeys, decision : Decided, last : BOOLEAN] /\ NoChoice.keys = {}
  BY DEF NoChoice, Decided
<1> QED BY <1>1 DEF RevInv, RevTypeOK, EndDecision

LEMMA ReviewAbort ==
  ASSUME RevInv, NEW q \in Deciders, AbortDecision(q)
  PROVE  RevInv' /\ DecisionsKept
<1> USE DEF RevInv
<1>1. UNCHANGED <<active, held, rstatus, reviewer, creator, item>> /\ EndDecision(q)
  BY DEF AbortDecision, entitlementVars, reviewVars
<1>2. RevTypeOK'
  BY <1>1, ReviewEnd DEF RevTypeOK
<1>3. \A x : PendingItems(x)' = PendingItems(x)
  BY <1>1 DEF PendingItems
<1>4. RevLocks'
  BY <1>1, <1>3, ReviewEnd DEF RevLocks
<1>5. NoItems' /\ CompletedWhenDecided' /\ IndependentReview' /\ EmptyWithoutOverlap' /\ DecisionsKept
  BY <1>1, <1>3 DEF NoItems, CompletedWhenDecided, IndependentReview, EmptyWithoutOverlap, DecisionsKept
<1> QED BY <1>2, <1>4, <1>5

LEMMA ReviewCommit ==
  ASSUME RevInv, NEW q \in Deciders, NEW v \in Reviews, CommitDecision(q, v)
  PROVE  RevInv' /\ DecisionsKept
<1> USE DEF RevInv
<1> DEFINE keys == chosen[q].keys
           written == [i \in ItemKeys |-> IF i \in keys THEN chosen[q].decision ELSE item[v][i]]
<1>1. /\ UNCHANGED <<active, held, reviewer, creator>> /\ EndDecision(q)
      /\ v = rlock[q] /\ keys # {}
      /\ item' = [item EXCEPT ![v] = written]
      /\ rstatus' = [rstatus EXCEPT ![v] = IF chosen[q].last THEN "COMPLETED" ELSE rstatus[v]]
  BY DEF CommitDecision, entitlementVars
<1>2. chosen[q].decision \in Decided /\ keys \subseteq ItemKeys /\ item[v] \in [ItemKeys -> {"NONE", "PENDING"} \cup Decided]
  BY DEF RevTypeOK
<1>3. /\ v # NoReview /\ rstatus[v] = "OPEN" /\ keys \subseteq PendingItems(v)
      /\ chosen[q].last <=> PendingItems(v) \subseteq keys
      /\ \A p \in Deciders : rlock[p] = v => p = q
  BY <1>1 DEF RevLocks
<1>4. written \in [ItemKeys -> {"NONE", "PENDING"} \cup Decided]
  BY <1>2
<1>5. RevTypeOK'
  BY <1>1, <1>4, ReviewEnd DEF RevTypeOK
<1>6. /\ item'[v] = written /\ rstatus'[v] = IF chosen[q].last THEN "COMPLETED" ELSE "OPEN"
      /\ \A x \in Reviews \ {v} : item'[x] = item[x] /\ rstatus'[x] = rstatus[x]
  BY <1>1, <1>3 DEF RevTypeOK
<1>7. \A x \in Reviews \ {v} : PendingItems(x)' = PendingItems(x)
  BY <1>6 DEF PendingItems
<1>8. PendingItems(v)' = PendingItems(v) \ keys
  BY <1>2, <1>6 DEF PendingItems, Decided
<1>9. RevLocks'
  <2>1. \A p \in Deciders : p # q /\ rlock[p] # NoReview => rlock[p] \in Reviews \ {v}
    BY <1>3 DEF RevLocks
  <2> QED BY <1>1, <1>6, <1>7, <2>1, ReviewEnd DEF RevLocks
<1>10. NoItems' /\ IndependentReview'
  BY <1>1, <1>3, <1>6 DEF NoItems, IndependentReview
<1>11. CompletedWhenDecided'
  <2> SUFFICES ASSUME NEW x \in Reviews
               PROVE  rstatus'[x] = "COMPLETED" <=>
                        {i \in ItemKeys : item'[x][i] # "NONE"} # {} /\ PendingItems(x)' = {}
    BY DEF CompletedWhenDecided
  <2>1. CASE x # v
    BY <1>6, <1>7, <2>1 DEF CompletedWhenDecided
  <2>2. CASE x = v
    <3>1. rstatus'[v] = "COMPLETED" <=> PendingItems(v)' = {}
      BY <1>3, <1>6, <1>8
    <3>2. \E i \in ItemKeys : item'[v][i] # "NONE"
      BY <1>1, <1>2, <1>6 DEF Decided
    <3> QED BY <2>2, <3>1, <3>2
  <2> QED BY <2>1, <2>2
<1>12. EmptyWithoutOverlap'
  <2>1. \E i \in ItemKeys : item[v][i] # "NONE"
    BY <1>1, <1>2, <1>3 DEF PendingItems
  <2> QED BY <2>1 DEF EmptyWithoutOverlap
<1>13. DecisionsKept
  BY <1>3, <1>6 DEF DecisionsKept, PendingItems, Decided
<1> QED BY <1>5, <1>9, <1>10, <1>11, <1>12, <1>13

LEMMA ReviewStep == ReviewAssumption /\ RevInv /\ RevNext => RevInv' /\ DecisionsKept
BY ReviewEntitlements, ReviewCreate, ReviewLock, ReviewDecide, ReviewCommit, ReviewAbort DEF RevNext

LEMMA ReviewStutter == RevInv /\ UNCHANGED revVars => RevInv'
<1> SUFFICES ASSUME RevInv, UNCHANGED revVars PROVE RevInv'
  OBVIOUS
<1>1. UNCHANGED <<active, held, rstatus, reviewer, creator, item, rlock, chosen>>
  BY DEF revVars, entitlementVars, reviewVars, deciderVars
<1>2. RevTypeOK' /\ RevLocks' /\ NoItems'
  BY <1>1 DEF RevInv, RevTypeOK, RevLocks, NoItems, PendingItems
<1>3. CompletedWhenDecided' /\ IndependentReview' /\ EmptyWithoutOverlap'
  BY <1>1 DEF RevInv, CompletedWhenDecided, PendingItems, IndependentReview, EmptyWithoutOverlap
<1> QED BY <1>2, <1>3 DEF RevInv

(***************************************************************************)
(* CompletedWhenDecided, IndependentReview and EmptyWithoutOverlap of       *)
(* CreateAccessReview and DecideAccessReviewItem, for any number of         *)
(* reviews, items and overlapping decisions.                                *)
(***************************************************************************)
THEOREM ReviewsCompleteExactly ==
  ASSUME ReviewAssumption
  PROVE  RevSpec => [](RevTypeOK /\ CompletedWhenDecided /\ IndependentReview /\ EmptyWithoutOverlap)
<1>1. RevInv => RevTypeOK /\ CompletedWhenDecided /\ IndependentReview /\ EmptyWithoutOverlap
  BY DEF RevInv
<1> QED BY <1>1, ReviewInit, ReviewStep, ReviewStutter, PTL DEF RevSpec

(***************************************************************************)
(* DecisionsFinal: the lock and the conditional UPDATE of                   *)
(* DecideAccessReviewItem never let a decision be replaced.                 *)
(***************************************************************************)
THEOREM ReviewDecisionsAreFinal ==
  ASSUME ReviewAssumption
  PROVE  RevSpec => DecisionsFinal
<1>1. RevSpec => []RevInv
  BY ReviewInit, ReviewStep, ReviewStutter, PTL DEF RevSpec
<1>2. RevInv /\ [RevNext]_revVars => [DecisionsKept]_revVars
  BY ReviewStep
<1> QED BY <1>1, <1>2, PTL DEF RevSpec, DecisionsFinal, DecisionsKept

-----------------------------------------------------------------------------
(***************************************************************************)
(* Emergency access (EmergencyAccess).  EmInv keeps what a request and a    *)
(* grant remember of the moment at which they were made.                    *)
(***************************************************************************)
EmTimes ==
  /\ \A o \in Officers : mfaAt[o] <= enow
  /\ \A c \in calls \cup grant : c.requested <= enow
  /\ \A c \in calls : ~c.revoked

EmUnique ==
  /\ \A c, d \in calls \cup grant : c.id = d.id => c = d
  /\ calls \cap grant = {}

EmGranted ==
  \A g \in grant :
    /\ g.approval \in used
    /\ g.requester \in EmergencyAdmins /\ g.target # g.requester /\ g.keys \cap Forbidden = {}
    /\ g.expires <= g.requested + MaxAge
    /\ g.requested <= g.verified + MFAMaxAge

EmInv == EmTypeOK /\ EmTimes /\ EmUnique /\ EmGranted /\ OneGrantPerApproval

LEMMA EmergencyInit == EmergencyAssumption /\ EmInit => EmInv
BY DEF EmergencyAssumption, EmInit, EmInv, EmTypeOK, Times, EmTimes, EmUnique, EmGranted, OneGrantPerApproval

LEMMA EmergencyClock ==
  ASSUME EmergencyAssumption, EmInv, EmTick \/ \E o \in Officers : StepUp(o)
  PROVE  EmInv'
<1> USE DEF EmInv
<1>1. enow' \in Times /\ enow' >= enow /\ UNCHANGED <<used, calls, grant>> /\ enow \in Times
  BY DEF EmTick, StepUp, EmTypeOK, Times, EmergencyAssumption
<1>2. mfaAt' \in [Officers -> Times] /\ \A o \in Officers : mfaAt'[o] <= enow'
  BY DEF EmTick, StepUp, EmTypeOK, EmTimes, Times, EmergencyAssumption
<1>3. \A c \in calls \cup grant : c.requested \in Times
  BY DEF EmTypeOK, GrantRows
<1>4. \A c \in calls \cup grant : c.requested <= enow'
  BY <1>1, <1>3 DEF EmTimes, Times
<1>5. EmTypeOK' /\ EmTimes'
  BY <1>1, <1>2, <1>4 DEF EmTypeOK, EmTimes
<1>6. EmUnique' /\ EmGranted' /\ OneGrantPerApproval'
  BY <1>1 DEF EmUnique, EmGranted, OneGrantPerApproval
<1> QED BY <1>5, <1>6

LEMMA EmergencyBegin ==
  ASSUME EmInv, NEW id \in Grants, NEW o \in Officers, NEW target \in Officers \cup {Nobody},
         NEW scoped \in BOOLEAN, NEW approval \in Approvals, NEW keys \in SUBSET Privileges, NEW expires \in Times,
         BeginEmergency(id, o, target, scoped, approval, keys, expires), EmergencyAssumption
  PROVE  EmInv'
<1> USE DEF EmInv
<1>1. PICK c : c = [id |-> id, requester |-> o, target |-> target, scoped |-> scoped, approval |-> approval,
                    keys |-> keys, requested |-> enow, expires |-> expires, verified |-> mfaAt[o], revoked |-> FALSE]
  OBVIOUS
<1>2. calls' = calls \cup {c} /\ UNCHANGED <<enow, mfaAt, used, grant>>
  BY <1>1 DEF BeginEmergency
<1>3. c \in GrantRows /\ c.id = id /\ c.requested = enow /\ c.revoked = FALSE
  BY <1>1 DEF EmTypeOK, GrantRows
<1>4. \A d \in calls \cup grant : d.id # id
  BY DEF BeginEmergency
<1>5. EmTypeOK'
  BY <1>2, <1>3 DEF EmTypeOK
<1>6. EmTimes'
  BY <1>2, <1>3 DEF EmTimes, EmTypeOK, Times, EmergencyAssumption
<1>7. EmUnique'
  BY <1>2, <1>3, <1>4 DEF EmUnique
<1>8. EmGranted' /\ OneGrantPerApproval'
  BY <1>2 DEF EmGranted, OneGrantPerApproval
<1> QED BY <1>5, <1>6, <1>7, <1>8

LEMMA EmergencyCreate ==
  ASSUME EmergencyAssumption, EmInv, NEW c \in calls, CreateEmergencyAccess(c) \/ RefuseEmergency(c)
  PROVE  EmInv'
<1> USE DEF EmInv
<1>1. calls' = calls \ {c} /\ UNCHANGED <<enow, mfaAt>>
  BY DEF CreateEmergencyAccess, RefuseEmergency
<1>2. \/ grant' = grant /\ used' = used
      \/ /\ grant' = grant \cup {c} /\ used' = used \cup {c.approval} /\ c.approval \notin used
         /\ ValidateGrant(c)
  BY DEF CreateEmergencyAccess, RefuseEmergency
<1>3. c \in GrantRows /\ c.approval \in Approvals /\ enow \in Nat
      /\ c.verified \in Nat /\ c.requested \in Nat /\ c.expires \in Nat
  BY DEF EmTypeOK, GrantRows, Times, EmergencyAssumption
<1>4. EmTypeOK'
  BY <1>1, <1>2, <1>3 DEF EmTypeOK
<1>5. EmTimes'
  BY <1>1, <1>2 DEF EmTimes
<1>6. EmUnique'
  BY <1>1, <1>2 DEF EmUnique
<1>7. ValidateGrant(c) => /\ c.requester \in EmergencyAdmins /\ c.target # c.requester
                          /\ c.keys \cap Forbidden = {}
                          /\ c.expires <= c.requested + MaxAge
                          /\ c.requested <= c.verified + MFAMaxAge
  BY <1>3 DEF ValidateGrant, EmTimes, EmergencyAssumption
<1>8. EmGranted'
  BY <1>1, <1>2, <1>7 DEF EmGranted
<1>9. OneGrantPerApproval'
  BY <1>1, <1>2 DEF OneGrantPerApproval, EmGranted
<1> QED BY <1>4, <1>5, <1>6, <1>8, <1>9

LEMMA EmergencyRevoke ==
  ASSUME EmInv, NEW g \in grant, NEW o \in Officers, RevokeEmergencyAccess(g, o)
  PROVE  EmInv' /\ \A h \in grant' : h \in grant \/ (h.id = g.id /\ h.revoked)
<1> USE DEF EmInv
<1>1. PICK r : r = [g EXCEPT !.revoked = TRUE]
  OBVIOUS
<1>2. grant' = (grant \ {g}) \cup {r} /\ UNCHANGED <<enow, mfaAt, used, calls>>
  BY <1>1 DEF RevokeEmergencyAccess
<1>3. /\ r \in GrantRows /\ r.id = g.id /\ r.requester = g.requester /\ r.target = g.target
      /\ r.approval = g.approval /\ r.keys = g.keys /\ r.requested = g.requested
      /\ r.expires = g.expires /\ r.verified = g.verified /\ r.revoked = TRUE
  BY <1>1 DEF EmTypeOK, GrantRows
<1>4. EmTypeOK'
  BY <1>2, <1>3 DEF EmTypeOK
<1>5. EmTimes'
  BY <1>2, <1>3 DEF EmTimes
<1>6. EmUnique'
  BY <1>2, <1>3 DEF EmUnique
<1>7. EmGranted' /\ OneGrantPerApproval'
  BY <1>2, <1>3 DEF EmGranted, OneGrantPerApproval
<1> QED BY <1>2, <1>3, <1>4, <1>5, <1>6, <1>7

LEMMA EmergencyInvariant ==
  ASSUME EmergencyAssumption
  PROVE  EmSpec => []EmInv
<1>1. EmInv /\ UNCHANGED emVars => EmInv'
  BY DEF emVars, EmInv, EmTypeOK, EmTimes, EmUnique, EmGranted, OneGrantPerApproval
<1>2. EmInv /\ EmNext => EmInv'
  BY EmergencyClock, EmergencyBegin, EmergencyCreate, EmergencyRevoke DEF EmNext
<1> QED BY <1>1, <1>2, EmergencyInit, PTL DEF EmSpec

(***************************************************************************)
(* OneGrantPerApproval, ActiveIsRecent and StatusAgrees, whatever the order *)
(* in which CreateEmergencyAccess reads the clock, the session and the      *)
(* approval.                                                                *)
(***************************************************************************)
THEOREM EmergencyIsBounded ==
  ASSUME EmergencyAssumption
  PROVE  EmSpec => [](EmTypeOK /\ OneGrantPerApproval /\ ActiveIsRecent /\ StatusAgrees)
<1>1. ASSUME EmInv PROVE ActiveIsRecent /\ StatusAgrees
  <2> SUFFICES ASSUME NEW g \in grant
               PROVE  /\ ActiveAt(g, enow) =>
                           /\ enow < g.verified + MFAMaxAge + MaxAge
                           /\ g.requester \in EmergencyAdmins /\ g.target # g.requester
                           /\ g.keys \cap Forbidden = {}
                      /\ enow # g.requested => (StatusAt(g, enow) = "ACTIVE" <=> ActiveAt(g, enow))
    BY DEF ActiveIsRecent, StatusAgrees
  <2>1. /\ g \in GrantRows /\ enow \in Nat /\ g.verified \in Nat /\ g.requested \in Nat /\ g.expires \in Nat
        /\ g.revoked \in BOOLEAN /\ g.requested <= enow
    BY <1>1 DEF EmInv, EmTypeOK, GrantRows, Times, EmTimes, EmergencyAssumption
  <2>2. ActiveAt(g, enow) => enow < g.verified + MFAMaxAge + MaxAge
    BY <1>1, <2>1 DEF EmInv, EmGranted, ActiveAt, EmergencyAssumption
  <2>3. enow # g.requested => (StatusAt(g, enow) = "ACTIVE" <=> ActiveAt(g, enow))
    <3>1. CASE g.revoked
      <4>1. StatusAt(g, enow) = "REVOKED"
        BY <3>1 DEF StatusAt
      <4> QED BY <3>1, <4>1 DEF ActiveAt
    <3>2. CASE ~g.revoked /\ enow >= g.expires
      <4>1. StatusAt(g, enow) = "EXPIRED"
        BY <2>1, <3>2 DEF StatusAt
      <4> QED BY <2>1, <3>2, <4>1 DEF ActiveAt
    <3>3. CASE ~g.revoked /\ enow < g.expires
      <4>1. StatusAt(g, enow) = "ACTIVE"
        BY <2>1, <3>3 DEF StatusAt
      <4> QED BY <2>1, <3>3, <4>1 DEF ActiveAt
    <3> QED BY <2>1, <3>1, <3>2, <3>3
  <2> QED BY <1>1, <2>2, <2>3 DEF EmInv, EmGranted
<1>2. EmInv => EmTypeOK /\ OneGrantPerApproval /\ ActiveIsRecent /\ StatusAgrees
  BY <1>1 DEF EmInv
<1> QED BY <1>2, EmergencyInvariant, PTL

(***************************************************************************)
(* NoRevival: no request and no revocation brings a grant back that         *)
(* RevokeEmergencyAccess or the clock has ended.                            *)
(***************************************************************************)
THEOREM EndedGrantsStayEnded ==
  ASSUME EmergencyAssumption
  PROVE  EmSpec => NoRevival
<1> DEFINE Stays == \A g \in grant :
                      enow > g.requested /\ ~ActiveAt(g, enow) =>
                        \A h \in grant' : h.id = g.id => ~ActiveAt(h, enow')
<1>1. ASSUME EmInv, EmNext PROVE Stays
  <2> SUFFICES ASSUME NEW g \in grant, enow > g.requested, ~ActiveAt(g, enow),
                      NEW h \in grant', h.id = g.id
               PROVE  ~ActiveAt(h, enow')
    OBVIOUS
  <2>1. enow \in Nat /\ g.expires \in Nat /\ g.requested \in Nat
    BY <1>1 DEF EmInv, EmTypeOK, GrantRows, Times, EmergencyAssumption
  <2>2. enow' \in Nat /\ enow' >= enow
    BY <1>1, <2>1 DEF EmNext, EmTick, StepUp, BeginEmergency, CreateEmergencyAccess, RefuseEmergency,
                      RevokeEmergencyAccess
  <2>3. h = g => ~ActiveAt(h, enow')
    BY <2>1, <2>2 DEF ActiveAt
  <2>4. h = g \/ h.revoked
    <3>1. CASE \E r \in grant, o \in Officers : RevokeEmergencyAccess(r, o)
      <4>1. PICK r \in grant, o \in Officers : RevokeEmergencyAccess(r, o)
        BY <3>1
      <4>2. h \in grant \/ h.revoked
        BY <1>1, <4>1, EmergencyRevoke
      <4> QED BY <1>1, <4>2 DEF EmInv, EmUnique
    <3>2. CASE ~\E r \in grant, o \in Officers : RevokeEmergencyAccess(r, o)
      <4>1. h \in calls \cup grant
        BY <1>1, <3>2 DEF EmNext, EmTick, StepUp, BeginEmergency, CreateEmergencyAccess, RefuseEmergency
      <4> QED BY <1>1, <4>1 DEF EmInv, EmUnique
    <3> QED BY <3>1, <3>2
  <2> QED BY <2>3, <2>4 DEF ActiveAt
<1>2. EmInv /\ [EmNext]_emVars => [Stays]_emVars
  BY <1>1
<1> QED BY <1>2, EmergencyInvariant, PTL DEF EmSpec, NoRevival

-----------------------------------------------------------------------------
(***************************************************************************)
(* Controlled jobs (JobControl).                                            *)
(***************************************************************************)

(***************************************************************************)
(* One round of retryDelay's loop stays within the bounds of the            *)
(* definition and never shortens the delay, although MaxDelay / 2 rounds    *)
(* down.                                                                    *)
(***************************************************************************)
THEOREM DelayStaysInBounds ==
  ASSUME JobAssumption, NEW delay \in BaseDelay..MaxDelay
  PROVE  DoubleDelay(delay) \in BaseDelay..MaxDelay /\ DoubleDelay(delay) >= delay
BY DEF JobAssumption, DoubleDelay

\* A run that waits for its first start has used no attempt, a run that was started has.
Used ==
  /\ run.state = "PENDING" => run.attempt = 0
  /\ run.state = "RUNNING" => run.attempt >= 1

Enters(state, approved) == [before |-> run.state, after |-> state, approved |-> approved]

JobInv == JobTypeOK /\ Used /\ AttemptsBounded /\ TrailExplains

\* The states that only approved actions enter.
Sealed ==
  {"COMPENSATION_PENDING", "COMPENSATING", "ROLLBACK_PENDING", "ROLLING_BACK", "ROLLED_BACK", "CANCELLED"}

LEMMA JobTransition ==
  ASSUME JobAssumption, JobInv, NEW next \in Runs, NEW approved \in BOOLEAN, Transition(next, approved),
         next.state \in Sealed => approved,
         next.state = "RUNNING" <=> next.attempt = run.attempt + 1,
         next.state # "RUNNING" => next.attempt = run.attempt,
         next.state # "PENDING",
         next.state = "DEAD_LETTER" => next.attempt = JobMaxAttempts,
         next.state = "FAILED" => next.attempt < JobMaxAttempts
  PROVE  JobInv'
<1> USE DEF JobInv
<1>1. run \in Runs /\ run.state \in JobStates /\ run.attempt \in 0..JobMaxAttempts /\ next.state \in JobStates
      /\ next.attempt \in 0..JobMaxAttempts
  BY DEF JobTypeOK, Runs
<1>2. Enters(next.state, approved) \in Entries
  BY <1>1 DEF Entries, Enters
<1>3. trail' = trail \cup {Enters(next.state, approved)} /\ jnow' = jnow
  BY DEF Transition, Enters
<1>4. Enters(next.state, approved).after = next.state /\ Enters(next.state, approved).approved = approved
  BY DEF Enters
<1>5. CASE run' = next /\ starts' = IF next.state = "RUNNING" THEN starts + 1 ELSE starts
  <2>1. starts' = next.attempt
    BY <1>1, <1>5 DEF AttemptsBounded, JobTypeOK
  <2>2. JobTypeOK'
    BY <1>1, <1>2, <1>3, <1>5, <2>1 DEF JobTypeOK
  <2>3. Used' /\ AttemptsBounded'
    BY <1>1, <1>5, <2>1, <2>2 DEF Used, AttemptsBounded, JobAssumption
  <2>4. TrailExplains'
    BY <1>3, <1>4, <1>5 DEF TrailExplains, Sealed
  <2> QED BY <2>2, <2>3, <2>4
<1>6. CASE UNCHANGED <<run, starts>>
  <2>1. JobTypeOK' /\ Used' /\ AttemptsBounded'
    BY <1>2, <1>3, <1>6 DEF JobTypeOK, Used, AttemptsBounded
  <2>2. TrailExplains'
    BY <1>3, <1>6 DEF TrailExplains
  <2> QED BY <2>1, <2>2
<1> QED BY <1>5, <1>6 DEF Transition

LEMMA JobStart ==
  ASSUME JobAssumption, JobInv, NEW approved \in BOOLEAN, Start(approved) \/ Retry(approved)
  PROVE  JobInv'
<1>1. run \in Runs /\ run.attempt \in 0..JobMaxAttempts
  BY DEF JobInv, JobTypeOK, Runs
<1>3. ASSUME NEW n \in {Started, Retried}, Transition(n, approved), run.attempt < JobMaxAttempts,
             n = Started => run.attempt = 0
      PROVE  JobInv'
  <2>1. n \in Runs /\ n.state = "RUNNING" /\ n.attempt = run.attempt + 1
    <3>1. CASE n = Started
      <4>1. run.attempt = 0
        BY <1>3, <3>1
      <4>2. 1 \in 0..JobMaxAttempts /\ "RUNNING" \in JobStates
        BY DEF JobStates, JobAssumption
      <4>3. n \in Runs /\ n.state = "RUNNING" /\ n.attempt = 1
        BY <1>1, <3>1, <4>2 DEF Started, Runs
      <4> QED BY <4>1, <4>3
    <3>2. CASE n = Retried
      <4>1. run.attempt + 1 \in 0..JobMaxAttempts /\ "RUNNING" \in JobStates /\ 0 \in 0..(JobHorizon + MaxDelay)
        BY <1>1, <1>3 DEF JobStates, JobAssumption
      <4> QED BY <1>1, <3>2, <4>1 DEF Retried, Runs
    <3> QED BY <1>3, <3>1, <3>2
  <2> QED BY <1>1, <1>3, <2>1, JobTransition DEF Sealed
<1>4. CASE Start(approved)
  BY <1>1, <1>3, <1>4 DEF Start, JobInv, Used, JobAssumption
<1>5. CASE Retry(approved)
  <2>1. Started # Retried \/ run.attempt = 0
    <3>1. Retried = Started => Retried.attempt = Started.attempt
      OBVIOUS
    <3>2. Retried.attempt = run.attempt + 1 /\ Started.attempt = 1
      BY <1>1 DEF Started, Retried, Runs
    <3> QED BY <1>1, <3>1, <3>2 DEF JobAssumption
  <2> QED BY <1>3, <1>5, <2>1 DEF Retry
<1> QED BY <1>4, <1>5

LEMMA JobFail ==
  ASSUME JobAssumption, JobInv, NEW approved \in BOOLEAN, NEW delay \in BaseDelay..MaxDelay, Fail(approved, delay)
  PROVE  JobInv'
<1>1. run \in Runs /\ run.attempt \in 0..JobMaxAttempts /\ jnow \in 0..JobHorizon
  BY DEF JobInv, JobTypeOK, Runs
<1>2. PICK n : n = FailedRun(delay)
  OBVIOUS
<1>3. /\ n \in Runs /\ n.attempt = run.attempt
      /\ \/ n.state = "DEAD_LETTER" /\ run.attempt = JobMaxAttempts
         \/ n.state = "FAILED" /\ run.attempt < JobMaxAttempts
  <2>1. CASE run.attempt >= JobMaxAttempts
    <3>1. n = [run EXCEPT !.state = "DEAD_LETTER", !.next = 0]
      BY <1>2, <2>1 DEF FailedRun
    <3>2. "DEAD_LETTER" \in JobStates /\ 0 \in 0..(JobHorizon + MaxDelay) /\ run.attempt = JobMaxAttempts
      BY <1>1, <2>1 DEF JobStates, JobAssumption
    <3> QED BY <1>1, <3>1, <3>2 DEF Runs
  <2>2. CASE run.attempt < JobMaxAttempts
    <3>1. n = [run EXCEPT !.state = "FAILED", !.next = jnow + delay]
      BY <1>1, <1>2, <2>2 DEF FailedRun, JobAssumption
    <3>2. jnow + delay \in 0..(JobHorizon + MaxDelay)
      BY <1>1 DEF JobAssumption
    <3> QED BY <1>1, <2>2, <3>1, <3>2 DEF Runs, JobStates
  <2> QED BY <1>1, <2>1, <2>2 DEF JobAssumption
<1> QED BY <1>1, <1>2, <1>3, JobTransition DEF Fail, Sealed, JobAssumption

LEMMA JobMove ==
  ASSUME JobAssumption, JobInv, NEW approved \in BOOLEAN, NEW s \in Simple, Move(s, approved)
  PROVE  JobInv'
<1>1. run \in Runs /\ run.attempt \in 0..JobMaxAttempts
  BY DEF JobInv, JobTypeOK, Runs
<1>2. /\ s.to \in JobStates \ {"RUNNING", "PENDING", "DEAD_LETTER", "FAILED"}
      /\ s.to \in Sealed => s.action \in ApprovedActions
  BY DEF Simple, JobStates, Sealed, ApprovedActions
<1>3. PICK n : n = [run EXCEPT !.state = s.to]
  OBVIOUS
<1>4. n \in Runs /\ n.state = s.to /\ n.attempt = run.attempt
  BY <1>1, <1>2, <1>3 DEF Runs
<1>5. Transition(n, approved) /\ (n.state \in Sealed => approved)
  BY <1>2, <1>3, <1>4 DEF Move
<1> QED BY <1>1, <1>2, <1>4, <1>5, JobTransition

LEMMA JobInvariant ==
  ASSUME JobAssumption
  PROVE  JobSpec => []JobInv
<1>1. JobInit => JobInv
  <2> SUFFICES ASSUME JobInit PROVE JobInv
    OBVIOUS
  <2>1. JobTypeOK
    BY DEF JobInit, JobTypeOK, Runs, JobStates, JobAssumption
  <2>2. Used /\ AttemptsBounded /\ TrailExplains
    BY DEF JobInit, Used, AttemptsBounded, TrailExplains, JobAssumption
  <2> QED BY <2>1, <2>2 DEF JobInv
<1>2. JobInv /\ UNCHANGED jobVars => JobInv'
  BY DEF jobVars, JobInv, JobTypeOK, Used, AttemptsBounded, TrailExplains
<1>3. JobInv /\ JobTick => JobInv'
  BY DEF JobTick, JobInv, JobTypeOK, Used, AttemptsBounded, TrailExplains, JobAssumption
<1>4. JobInv /\ JobNext => JobInv'
  BY <1>3, JobStart, JobFail, JobMove DEF JobNext
<1> QED BY <1>1, <1>2, <1>4, PTL DEF JobSpec

(***************************************************************************)
(* AttemptsBounded and TrailExplains of Apply and ApplyWithAudit, for every *)
(* definition that ValidateDefinition accepts.                              *)
(***************************************************************************)
THEOREM JobsAreBoundedAndExplained ==
  ASSUME JobAssumption
  PROVE  JobSpec => [](JobTypeOK /\ AttemptsBounded /\ TrailExplains)
<1>1. JobInv => JobTypeOK /\ AttemptsBounded /\ TrailExplains
  BY DEF JobInv
<1> QED BY <1>1, JobInvariant, PTL

(***************************************************************************)
(* NeverRunsAgain: Apply has no action that leaves COMPENSATED, ROLLED_BACK *)
(* or CANCELLED.                                                            *)
(***************************************************************************)
THEOREM JobNeverRunsAgain == JobSpec => NeverRunsAgain
<1> DEFINE Ended == {"COMPENSATED", "ROLLED_BACK", "CANCELLED"}
<1>1. ASSUME JobNext, run.state \in Ended PROVE run' = run
  <2>1. \A s \in Simple : run.state \notin s.from
    BY <1>1 DEF Simple
  <2> QED BY <1>1, <2>1 DEF JobNext, Start, Retry, Fail, Move, JobTick
<1>2. [JobNext]_jobVars => [run.state \in Ended => run' = run]_jobVars
  BY <1>1 DEF jobVars
<1> QED BY <1>2, PTL DEF JobSpec, NeverRunsAgain

-----------------------------------------------------------------------------
(***************************************************************************)
(* The transactional publisher (TransactionalPublisher).  TpInv says how    *)
(* far the half message and the local transaction can be at each step of    *)
(* PublishTransaction.                                                      *)
(***************************************************************************)
TpStage(e) ==
  /\ ppc[e] = "send" => half[e] = "none" /\ local[e] = "none"
  /\ ppc[e] = "local" => local[e] = "running" /\ half[e] # "none"
  /\ ppc[e] = "commit" => local[e] = "committed" /\ half[e] # "none"
  /\ ppc[e] = "rollback" => local[e] \in {"undone", "committed"}
  /\ ppc[e] = "rollback" /\ ErrorIsFinal => local[e] = "undone"
  /\ ppc[e] = "done" => local[e] # "running"
  /\ local[e] = "running" /\ CheckerWaits => half[e] = "half"
  /\ ppc[e] = "commit" /\ CheckerWaits => half[e] \in {"half", "committed"}
  /\ local[e] = "committed" => half[e] # "none"
  /\ ppc[e] # "done" => told[e] = "none"

TpInv ==
  /\ TpTypeOK
  /\ \A e \in Events : TpStage(e)
  /\ VisibleWasCommitted /\ CommittedNotDropped /\ OkIsComplete

LEMMA PublisherStep ==
  ASSUME PublisherAssumption, TpInv, NEW e \in Events,
         SendHalf(e) \/ LocalSucceeds(e) \/ LocalFails(e) \/ Finish(e) \/ PublisherDies(e) \/ CheckBack(e)
  PROVE  TpInv'
<1> USE DEF TpInv
<1>1. TpTypeOK'
  BY DEF TpTypeOK, SendHalf, LocalSucceeds, LocalFails, Finish, Resolve, PublisherDies, CheckBack
<1>2. \A f \in Events \ {e} : half'[f] = half[f] /\ local'[f] = local[f] /\ ppc'[f] = ppc[f] /\ told'[f] = told[f]
  BY DEF TpTypeOK, SendHalf, LocalSucceeds, LocalFails, Finish, Resolve, PublisherDies, CheckBack
<1>3. TpStage(e)'
  BY DEF TpTypeOK, TpStage, SendHalf, LocalSucceeds, LocalFails, Finish, Resolve, PublisherDies, CheckBack,
         PublisherAssumption
<1>4. half'[e] = "committed" => local'[e] = "committed"
  BY DEF TpTypeOK, TpStage, VisibleWasCommitted, SendHalf, LocalSucceeds, LocalFails, Finish, Resolve,
         PublisherDies, CheckBack
<1>5. ErrorIsFinal /\ CheckerWaits /\ local'[e] = "committed" => half'[e] \in {"half", "committed"}
  BY DEF TpTypeOK, TpStage, CommittedNotDropped, SendHalf, LocalSucceeds, LocalFails, Finish, Resolve,
         PublisherDies, CheckBack
<1>6. CheckerWaits /\ told'[e] = "ok" => local'[e] = "committed" /\ half'[e] = "committed"
  BY DEF TpTypeOK, TpStage, OkIsComplete, SendHalf, LocalSucceeds, LocalFails, Finish, Resolve,
         PublisherDies, CheckBack
<1>7. VisibleWasCommitted'
  BY <1>2, <1>4 DEF VisibleWasCommitted
<1>8. CommittedNotDropped'
  BY <1>2, <1>5 DEF CommittedNotDropped
<1>9. OkIsComplete'
  BY <1>2, <1>6 DEF OkIsComplete
<1>10. \A f \in Events : TpStage(f)'
  BY <1>2, <1>3 DEF TpStage
<1> QED BY <1>1, <1>7, <1>8, <1>9, <1>10

LEMMA PublisherInvariant ==
  ASSUME PublisherAssumption
  PROVE  TpSpec => []TpInv
<1>1. TpInit => TpInv
  BY DEF TpInit, TpInv, TpTypeOK, TpStage, VisibleWasCommitted, CommittedNotDropped, OkIsComplete
<1>2. TpInv /\ UNCHANGED tpVars => TpInv'
  BY DEF tpVars, TpInv, TpTypeOK, TpStage, VisibleWasCommitted, CommittedNotDropped, OkIsComplete
<1>3. TpInv /\ TpNext => TpInv'
  BY PublisherStep DEF TpNext
<1> QED BY <1>1, <1>2, <1>3, PTL DEF TpSpec

(***************************************************************************)
(* VisibleWasCommitted and OkIsComplete of PublishTransaction: no consumer  *)
(* sees what was not committed, and success means committed and visible.    *)
(***************************************************************************)
THEOREM VisibleEventsAreCommitted ==
  ASSUME PublisherAssumption
  PROVE  TpSpec => [](TpTypeOK /\ VisibleWasCommitted /\ OkIsComplete)
<1>1. TpInv => TpTypeOK /\ VisibleWasCommitted /\ OkIsComplete
  BY DEF TpInv
<1> QED BY <1>1, PublisherInvariant, PTL

(***************************************************************************)
(* CommittedNotDropped: what the local transaction and the checker have to  *)
(* promise for PublishTransaction never to lose an event.                   *)
(***************************************************************************)
THEOREM CommittedEventsAreKept ==
  ASSUME PublisherAssumption
  PROVE  TpSpec => []CommittedNotDropped
<1>1. TpInv => CommittedNotDropped
  BY DEF TpInv
<1> QED BY <1>1, PublisherInvariant, PTL

-----------------------------------------------------------------------------
(***************************************************************************)
(* The tables of the operations (Operations).                               *)
(***************************************************************************)

(***************************************************************************)
(* EveryOperationHasAPolicy: what NewPlatformAuthorizer registers covers    *)
(* both governed services, so that none of their operations is refused to   *)
(* everybody.                                                               *)
(***************************************************************************)
THEOREM PoliciesAreComplete == EveryOperationHasAPolicy
BY DEF EveryOperationHasAPolicy, PlatformOperations, PlatformReads, PlatformWrites, ApprovalOperations,
       PlatformRules

(***************************************************************************)
(* RulesAreGrantable and PublicIsUngoverned: the rules, the permissions of  *)
(* Bootstrap, the open operations and the protected ones agree.             *)
(***************************************************************************)
THEOREM TablesAgree == RulesAreGrantable /\ PublicIsUngoverned
<1>1. RulesAreGrantable
  BY DEF RulesAreGrantable, PlatformRules, BasePermissions
<1>2. PublicIsUngoverned
  BY DEF PublicIsUngoverned, PublicOperations, Operations, SystemOperations, IdentityOperations, PlatformRules,
         SteppedUpOperations, ProtectedOperations, InteractiveOperations
<1> QED BY <1>1, <1>2

-----------------------------------------------------------------------------
(***************************************************************************)
(* The handlers (AdminHandlers).  Bindings lists which handler asks for     *)
(* which kind of approval; a committed governed effect carries the digest   *)
(* of its own binding.                                                      *)
(***************************************************************************)
Bindings ==
  {<<"UpdateSecurityPolicy", "SECURITY_POLICY_CHANGE", "security.config.update", "security">>,
   <<"UpdateRolePermissions", "ROLE_PERMISSION_CHANGE", "role.permissions.update", "role">>,
   <<"UpdateRoleDataScope", "ROLE_DATA_SCOPE_CHANGE", "role.data_scope.update", "role">>,
   <<"UpdateUserRoles", "USER_ROLE_CHANGE", "user.roles.update", "user">>,
   <<"ResetUserPassword", "USER_PASSWORD_RESET", "user.password.reset", "user">>,
   <<"UpdateMenu", "MENU_CHANGE", "menu.update", "menu">>,
   <<"CreateTemporaryRoleGrant", "TEMPORARY_ROLE_GRANT", "temporary_role_grant.create", "user">>,
   <<"CreateEmergencyAccess", "EMERGENCY_ACCESS", "emergency_access.create", "emergency_access">>,
   <<"LinkFederatedIdentity", "FEDERATED_IDENTITY_LINK", "identity_mapping.link", "identity_mapping">>,
   <<"UpsertDataFieldPolicy", "DATA_POLICY_CHANGE", "data_policy.upsert", "data_field_policy">>,
   <<"AuthorizeDataExport", "DATA_EXPORT", "data.export", "data_field_policy">>,
   <<"RecordDataDeletionEvidence", "DATA_RETENTION", "data_retention.deletion_evidence.record",
     "data_deletion_evidence">>,
   <<"ExportAuditLogs", "AUDIT_LOG_EXPORT", "audit.export", "audit_log">>}

BoundTo(e, b, p) ==
  /\ e.op = b[1] /\ e.digest = Digest(b[2], b[3], b[4], e.id, p)
  /\ e.op # "ResetUserPassword" => p = e.content

HdBound ==
  /\ hdCall \in [Calls -> {"new", "failed", "done"}]
  /\ DOMAIN hdApproval = HdApprovals /\ hdApproval = [a \in HdApprovals |-> hdApproval[a]]
  /\ \A e \in hdEffects : e.call \in Calls /\ hdCall[e.call] # "new"
  /\ \A e \in GovernedEffects :
       /\ e.approval \in hdClaimed /\ e.approval \in HdApprovals
       /\ \E b \in Bindings : \E p : BoundTo(e, b, p)

HdInv == HdBound /\ OneEffectPerApproval /\ EffectsAreAudited

\* What a call that commits adds.
Effect(c, op, id, content, a, digest) ==
  [call |-> c, op |-> op, id |-> id, content |-> content, approval |-> a, digest |-> digest]

LEMMA HandlerCommits ==
  ASSUME HandlerAssumption, HdInv, NEW c \in Calls, NEW op, NEW id, NEW content, NEW a, NEW digest,
         CommitCall(c, op, id, content, a, digest), UNCHANGED hdApproval,
         \/ a = NoApproval /\ UNCHANGED hdClaimed
         \/ /\ a \in HdApprovals /\ hdApproval[a] = {digest} /\ a \notin hdClaimed
            /\ hdClaimed' = hdClaimed \cup {a}
            /\ \E b \in Bindings : \E p : BoundTo(Effect(c, op, id, content, a, digest), b, p)
  PROVE  HdInv'
<1> USE DEF HdInv
<1>1. PICK e : e = Effect(c, op, id, content, a, digest)
  OBVIOUS
<1>2. /\ hdEffects' = hdEffects \cup {e}
      /\ hdAudit' = hdAudit \cup {[call |-> c, op |-> op, result |-> "SUCCESS"]}
      /\ hdCall[c] = "new"
  BY <1>1 DEF CommitCall, Effect
<1>3. e.call = c /\ e.op = op /\ e.approval = a /\ e.digest = digest
  BY <1>1 DEF Effect
<1>4. hdCall' \in [Calls -> {"new", "failed", "done"}] /\ hdCall'[c] # "new"
      /\ \A d \in Calls : hdCall[d] # "new" => hdCall'[d] # "new"
  BY DEF CommitCall, HdBound
<1>5. hdClaimed \subseteq hdClaimed'
  OBVIOUS
<1>6. GovernedEffects \subseteq GovernedEffects' /\ GovernedEffects' \subseteq GovernedEffects \cup {e}
  BY <1>2 DEF GovernedEffects
<1>7. e \in GovernedEffects' => /\ a \in HdApprovals /\ hdApproval[a] = {digest} /\ a \notin hdClaimed
                                /\ a \in hdClaimed'
                                /\ \E b \in Bindings : \E p : BoundTo(e, b, p)
  BY <1>1, <1>3 DEF GovernedEffects
<1>8. \A f \in GovernedEffects' :
        /\ f.approval \in hdClaimed' /\ f.approval \in HdApprovals
        /\ \E b \in Bindings : \E p : BoundTo(f, b, p)
  <2> SUFFICES ASSUME NEW f \in GovernedEffects'
               PROVE  /\ f.approval \in hdClaimed' /\ f.approval \in HdApprovals
                      /\ \E b \in Bindings : \E p : BoundTo(f, b, p)
    OBVIOUS
  <2>1. CASE f \in GovernedEffects
    BY <2>1, <1>5 DEF HdBound
  <2>2. CASE f = e
    BY <2>2, <1>3, <1>7
  <2> QED BY <1>6, <2>1, <2>2
<1>9. HdBound'
  BY <1>2, <1>3, <1>4, <1>8 DEF HdBound
<1>10. OneEffectPerApproval'
  <2>1. \A f \in GovernedEffects' : hdApproval[f.approval] = {f.digest}
    BY <1>3, <1>6, <1>7 DEF OneEffectPerApproval
  <2>2. \A f \in GovernedEffects : f.approval \in hdClaimed
    BY DEF HdBound
  <2>3. \A f, g \in GovernedEffects' : f.approval = g.approval => f = g
    <3>1. \A f, g \in GovernedEffects : f.approval = g.approval => f = g
      BY DEF OneEffectPerApproval
    <3>2. e \in GovernedEffects' => \A f \in GovernedEffects : f.approval # e.approval
      BY <1>3, <1>7, <2>2
    <3> QED BY <1>6, <3>1, <3>2
  <2> QED BY <2>1, <2>3 DEF OneEffectPerApproval
<1>11. EffectsAreAudited'
  <2>1. \A f \in hdEffects : f.call # c
    BY <1>2 DEF HdBound
  <2> QED BY <1>2, <1>3, <2>1 DEF EffectsAreAudited
<1> QED BY <1>9, <1>10, <1>11

LEMMA HandlerGoverned ==
  ASSUME HandlerAssumption, HdInv, NEW c \in Calls, NEW op, NEW a \in HdApprovals, NEW type, NEW action,
         NEW resource, NEW id, NEW payload, NEW content,
         Governed(c, op, a, type, action, resource, id, payload, content),
         <<op, type, action, resource>> \in Bindings,
         op # "ResetUserPassword" => payload = content
  PROVE  HdInv'
<1>1. PICK digest : digest = Digest(type, action, resource, id, payload)
  OBVIOUS
<1>2. /\ hdApproval[a] = {digest} /\ a \notin hdClaimed /\ hdClaimed' = hdClaimed \cup {a}
      /\ CommitCall(c, op, id, content, a, digest) /\ UNCHANGED hdApproval
  BY <1>1 DEF Governed, AuthorizeExecution
<1>3. BoundTo(Effect(c, op, id, content, a, digest), <<op, type, action, resource>>, payload)
  BY <1>1 DEF BoundTo, Effect
<1>4. \E b \in Bindings : \E p : BoundTo(Effect(c, op, id, content, a, digest), b, p)
  BY <1>3
<1> QED BY <1>2, <1>4, HandlerCommits

LEMMA HandlerPlain ==
  ASSUME HandlerAssumption, HdInv, NEW c \in Calls, NEW op, NEW id, NEW content, Plain(c, op, id, content)
  PROVE  HdInv'
BY HandlerCommits DEF Plain

LEMMA HandlerOther ==
  ASSUME HdInv,
         \/ \E a \in HdApprovals : \E digest : ApprovalGranted(a, digest)
         \/ \E c \in Calls : FailCall(c) \/ \E op \in Operations : RecordFailure(c, op)
  PROVE  HdInv'
<1> USE DEF HdInv
<1>1. hdEffects' = hdEffects /\ hdClaimed' = hdClaimed /\ hdAudit \subseteq hdAudit' /\ GovernedEffects' = GovernedEffects
  BY DEF ApprovalGranted, FailCall, RecordFailure, GovernedEffects
<1>2. hdCall' \in [Calls -> {"new", "failed", "done"}] /\ \A d \in Calls : hdCall[d] # "new" => hdCall'[d] # "new"
  BY DEF ApprovalGranted, FailCall, RecordFailure, HdBound
<1>3. DOMAIN hdApproval' = HdApprovals /\ hdApproval' = [a \in HdApprovals |-> hdApproval'[a]]
  BY DEF ApprovalGranted, FailCall, RecordFailure, HdBound
<1>4. \A a \in HdApprovals : hdApproval[a] # {} => hdApproval'[a] = hdApproval[a]
  BY DEF ApprovalGranted, FailCall, RecordFailure, HdBound
<1>5. HdBound'
  BY <1>1, <1>2, <1>3 DEF HdBound
<1>6. OneEffectPerApproval'
  BY <1>1, <1>4 DEF OneEffectPerApproval, HdBound
<1>7. EffectsAreAudited'
  BY <1>1 DEF EffectsAreAudited
<1> QED BY <1>5, <1>6, <1>7

LEMMA HandlersWithApproval ==
  ASSUME HandlerAssumption, HdInv, NEW c \in Calls, NEW a \in HdApprovals, NEW id \in Ids, NEW p \in Contents,
         \/ RolePermissionsHandler(c, a, id, p) \/ RoleDataScopeHandler(c, a, id, p)
         \/ UserRolesHandler(c, a, id, p) \/ PasswordResetHandler(c, a, id, p)
         \/ MenuHandler(c, a, id, p) \/ TemporaryGrantHandler(c, a, id, p)
         \/ EmergencyAccessHandler(c, a, id, p) \/ LinkIdentityHandler(c, a, id, p)
         \/ DataPolicyHandler(c, a, id, p) \/ DataExportHandler(c, a, id, p)
         \/ DeletionEvidenceHandler(c, a, id, p)
  PROVE  HdInv'
<1>0. PICK b \in Bindings : \E payload :
        /\ Governed(c, b[1], a, b[2], b[3], b[4], id, payload, p)
        /\ b[1] # "ResetUserPassword" => payload = p
        /\ b = <<b[1], b[2], b[3], b[4]>>
  BY DEF Bindings, RolePermissionsHandler, RoleDataScopeHandler, UserRolesHandler, PasswordResetHandler, MenuHandler,
         TemporaryGrantHandler, EmergencyAccessHandler, LinkIdentityHandler, DataPolicyHandler, DataExportHandler,
         DeletionEvidenceHandler
<1>1. PICK payload :
        /\ Governed(c, b[1], a, b[2], b[3], b[4], id, payload, p)
        /\ b[1] # "ResetUserPassword" => payload = p
        /\ b = <<b[1], b[2], b[3], b[4]>>
  BY <1>0
<1> QED BY <1>1, HandlerGoverned

LEMMA HandlerSettings ==
  ASSUME HandlerAssumption, HdInv, NEW c \in Calls, NEW a \in HdApprovals, NEW p \in Contents,
         SecurityPolicyHandler(c, a, p) \/ AuditExportHandler(c, a, p)
  PROVE  HdInv'
<1>1. /\ <<"UpdateSecurityPolicy", "SECURITY_POLICY_CHANGE", "security.config.update", "security">> \in Bindings
      /\ <<"ExportAuditLogs", "AUDIT_LOG_EXPORT", "audit.export", "audit_log">> \in Bindings
  BY DEF Bindings
<1> QED BY <1>1, HandlerGoverned DEF SecurityPolicyHandler, AuditExportHandler

LEMMA HandlerStep == HandlerAssumption /\ HdInv /\ HdNext => HdInv'
<1> SUFFICES ASSUME HandlerAssumption, HdInv, HdNext PROVE HdInv'
  OBVIOUS
<1>1. CASE \E c \in Calls, id \in Ids, p \in Contents :
             \/ UserHandlers(c, id, p) \/ DepartmentHandlers(c, id, p) \/ GroupHandlers(c, id, p)
             \/ OrganizationHandlers(c, id, p) \/ RevocationHandlers(c, id, p)
             \/ ReviewHandlers(c, id, p) \/ ApprovalHandlers(c, id, p) \/ IdentityHandlers(c, id, p)
  BY <1>1, HandlerPlain
     DEF UserHandlers, DepartmentHandlers, GroupHandlers, OrganizationHandlers, RevocationHandlers, ReviewHandlers,
         ApprovalHandlers, IdentityHandlers
<1>2. CASE \/ \E a \in HdApprovals : \E digest : ApprovalGranted(a, digest)
           \/ \E c \in Calls : FailCall(c) \/ \E op \in Operations : RecordFailure(c, op)
  BY <1>2, HandlerOther
<1>3. CASE \E c \in Calls, a \in HdApprovals, p \in Contents :
             SecurityPolicyHandler(c, a, p) \/ AuditExportHandler(c, a, p)
  BY <1>3, HandlerSettings
<1>4. CASE \E c \in Calls, a \in HdApprovals, id \in Ids, p \in Contents :
             \/ RolePermissionsHandler(c, a, id, p) \/ RoleDataScopeHandler(c, a, id, p)
             \/ UserRolesHandler(c, a, id, p) \/ PasswordResetHandler(c, a, id, p)
             \/ MenuHandler(c, a, id, p) \/ TemporaryGrantHandler(c, a, id, p)
             \/ EmergencyAccessHandler(c, a, id, p) \/ LinkIdentityHandler(c, a, id, p)
             \/ DataPolicyHandler(c, a, id, p) \/ DataExportHandler(c, a, id, p)
             \/ DeletionEvidenceHandler(c, a, id, p)
  BY <1>4, HandlersWithApproval
<1> QED BY <1>1, <1>2, <1>3, <1>4 DEF HdNext

LEMMA HandlerInvariant ==
  ASSUME HandlerAssumption
  PROVE  HdSpec => []HdInv
<1>1. HdInit => HdInv
  BY DEF HdInit, HdInv, HdBound, OneEffectPerApproval, EffectsAreAudited, GovernedEffects
<1>2. HdInv /\ UNCHANGED hdVars => HdInv'
  BY DEF hdVars, HdInv, HdBound, OneEffectPerApproval, EffectsAreAudited, GovernedEffects
<1> QED BY <1>1, <1>2, HandlerStep, PTL DEF HdSpec

(***************************************************************************)
(* OneEffectPerApproval and EffectsAreAudited: the claim of                 *)
(* AuthorizeExecution, the work and its audit event commit together in      *)
(* every handler, so that no number of calls spends an approval twice.      *)
(***************************************************************************)
THEOREM ApprovalsAreSpentOnce ==
  ASSUME HandlerAssumption
  PROVE  HdSpec => [](OneEffectPerApproval /\ EffectsAreAudited)
<1>1. HdInv => OneEffectPerApproval /\ EffectsAreAudited
  BY DEF HdInv
<1> QED BY <1>1, HandlerInvariant, PTL

(***************************************************************************)
(* ApprovalNamesTheEffect: the parts that the handlers put into             *)
(* requestDigest tell all of them apart.                                    *)
(***************************************************************************)
THEOREM ApprovalsAreNotExchangeable ==
  ASSUME HandlerAssumption
  PROVE  HdSpec => []ApprovalNamesTheEffect
<1>1. \A a, b \in Bindings : a[2] = b[2] => a = b
  BY DEF Bindings
<1>2. ASSUME HdInv PROVE ApprovalNamesTheEffect
  <2> SUFFICES ASSUME NEW e \in GovernedEffects, NEW f \in GovernedEffects, e.digest = f.digest
               PROVE  e.op = f.op /\ e.id = f.id /\ (e.content = f.content \/ e.op = "ResetUserPassword")
    BY DEF ApprovalNamesTheEffect
  <2>a. PICK a \in Bindings : \E p : BoundTo(e, a, p)
    BY <1>2 DEF HdInv, HdBound
  <2>1. PICK p : BoundTo(e, a, p)
    BY <2>a
  <2>b. PICK b \in Bindings : \E q : BoundTo(f, b, q)
    BY <1>2 DEF HdInv, HdBound
  <2>2. PICK q : BoundTo(f, b, q)
    BY <2>b
  <2>3. a[2] = b[2] /\ e.id = f.id /\ p = q
    <3>1. <<a[2], a[3], a[4], e.id, p>> = <<b[2], b[3], b[4], f.id, q>>
      BY <2>1, <2>2, Zenon DEF BoundTo, Digest
    <3> QED BY <3>1
  <2> QED BY <1>1, <2>1, <2>2, <2>3 DEF BoundTo
<1>3. HdInv => ApprovalNamesTheEffect
  BY <1>2
<1> QED BY <1>3, HandlerInvariant, PTL

-----------------------------------------------------------------------------
(***************************************************************************)
(* The routes (Routes).                                                     *)
(***************************************************************************)

(***************************************************************************)
(* EveryOperationIsRouted: the generated servers register a route for every *)
(* operation, and none for anything else.                                   *)
(***************************************************************************)
THEOREM OperationsAreRouted == EveryOperationIsRouted
BY DEF EveryOperationIsRouted, Operations, SystemOperations, IdentityOperations, PlatformOperations, PlatformReads,
       PlatformWrites, ApprovalOperations, AllRoutes, PlatformRoutes, SystemRoutes, LoginRoutes, AccountRoutes,
       TokenRoutes, DepartmentRoutes, GroupRoutes, MembershipRoutes, SettingsRoutes, DataRoutes, RightsRoutes,
       AuditRoutes, GrantRoutes, ReviewRoutes, ConfigRoutes, ApprovalRoutes, Route

Alone(r) == \A s \in AllRoutes : Meet(r, s) => r = s

(***************************************************************************)
(* RoutesAreUnambiguous: no path of the generated servers matches two       *)
(* routes of one method.                                                    *)
(***************************************************************************)
THEOREM RoutesDoNotMeet == RoutesAreUnambiguous
<1>1. \A r \in SystemRoutes : Alone(r)
  BY SMTT(60) DEF Alone, Meet, AllRoutes, PlatformRoutes, SystemRoutes, LoginRoutes, AccountRoutes, TokenRoutes, DepartmentRoutes, GroupRoutes, MembershipRoutes,
         SettingsRoutes, DataRoutes, RightsRoutes, AuditRoutes, GrantRoutes, ReviewRoutes, ConfigRoutes, ApprovalRoutes, Route, Variables
<1>2. \A r \in LoginRoutes : Alone(r)
  BY SMTT(60) DEF Alone, Meet, AllRoutes, PlatformRoutes, SystemRoutes, LoginRoutes, AccountRoutes, TokenRoutes, DepartmentRoutes, GroupRoutes, MembershipRoutes,
         SettingsRoutes, DataRoutes, RightsRoutes, AuditRoutes, GrantRoutes, ReviewRoutes, ConfigRoutes, ApprovalRoutes, Route, Variables
<1>3. \A r \in AccountRoutes : Alone(r)
  BY SMTT(60) DEF Alone, Meet, AllRoutes, PlatformRoutes, SystemRoutes, LoginRoutes, AccountRoutes, TokenRoutes, DepartmentRoutes, GroupRoutes, MembershipRoutes,
         SettingsRoutes, DataRoutes, RightsRoutes, AuditRoutes, GrantRoutes, ReviewRoutes, ConfigRoutes, ApprovalRoutes, Route, Variables
<1>4. \A r \in TokenRoutes : Alone(r)
  BY SMTT(60) DEF Alone, Meet, AllRoutes, PlatformRoutes, SystemRoutes, LoginRoutes, AccountRoutes, TokenRoutes, DepartmentRoutes, GroupRoutes, MembershipRoutes,
         SettingsRoutes, DataRoutes, RightsRoutes, AuditRoutes, GrantRoutes, ReviewRoutes, ConfigRoutes, ApprovalRoutes, Route, Variables
<1>5. \A r \in DepartmentRoutes : Alone(r)
  BY SMTT(60) DEF Alone, Meet, AllRoutes, PlatformRoutes, SystemRoutes, LoginRoutes, AccountRoutes, TokenRoutes, DepartmentRoutes, GroupRoutes, MembershipRoutes,
         SettingsRoutes, DataRoutes, RightsRoutes, AuditRoutes, GrantRoutes, ReviewRoutes, ConfigRoutes, ApprovalRoutes, Route, Variables
<1>6. \A r \in GroupRoutes : Alone(r)
  BY SMTT(60) DEF Alone, Meet, AllRoutes, PlatformRoutes, SystemRoutes, LoginRoutes, AccountRoutes, TokenRoutes, DepartmentRoutes, GroupRoutes, MembershipRoutes,
         SettingsRoutes, DataRoutes, RightsRoutes, AuditRoutes, GrantRoutes, ReviewRoutes, ConfigRoutes, ApprovalRoutes, Route, Variables
<1>7. \A r \in MembershipRoutes : Alone(r)
  BY SMTT(60) DEF Alone, Meet, AllRoutes, PlatformRoutes, SystemRoutes, LoginRoutes, AccountRoutes, TokenRoutes, DepartmentRoutes, GroupRoutes, MembershipRoutes,
         SettingsRoutes, DataRoutes, RightsRoutes, AuditRoutes, GrantRoutes, ReviewRoutes, ConfigRoutes, ApprovalRoutes, Route, Variables
<1>8. \A r \in SettingsRoutes : Alone(r)
  BY SMTT(60) DEF Alone, Meet, AllRoutes, PlatformRoutes, SystemRoutes, LoginRoutes, AccountRoutes, TokenRoutes, DepartmentRoutes, GroupRoutes, MembershipRoutes,
         SettingsRoutes, DataRoutes, RightsRoutes, AuditRoutes, GrantRoutes, ReviewRoutes, ConfigRoutes, ApprovalRoutes, Route, Variables
<1>9. \A r \in DataRoutes : Alone(r)
  BY SMTT(60) DEF Alone, Meet, AllRoutes, PlatformRoutes, SystemRoutes, LoginRoutes, AccountRoutes, TokenRoutes, DepartmentRoutes, GroupRoutes, MembershipRoutes,
         SettingsRoutes, DataRoutes, RightsRoutes, AuditRoutes, GrantRoutes, ReviewRoutes, ConfigRoutes, ApprovalRoutes, Route, Variables
<1>10. \A r \in RightsRoutes : Alone(r)
  BY SMTT(60) DEF Alone, Meet, AllRoutes, PlatformRoutes, SystemRoutes, LoginRoutes, AccountRoutes, TokenRoutes, DepartmentRoutes, GroupRoutes, MembershipRoutes,
         SettingsRoutes, DataRoutes, RightsRoutes, AuditRoutes, GrantRoutes, ReviewRoutes, ConfigRoutes, ApprovalRoutes, Route, Variables
<1>11. \A r \in AuditRoutes : Alone(r)
  BY SMTT(60) DEF Alone, Meet, AllRoutes, PlatformRoutes, SystemRoutes, LoginRoutes, AccountRoutes, TokenRoutes, DepartmentRoutes, GroupRoutes, MembershipRoutes,
         SettingsRoutes, DataRoutes, RightsRoutes, AuditRoutes, GrantRoutes, ReviewRoutes, ConfigRoutes, ApprovalRoutes, Route, Variables
<1>12. \A r \in GrantRoutes : Alone(r)
  BY SMTT(60) DEF Alone, Meet, AllRoutes, PlatformRoutes, SystemRoutes, LoginRoutes, AccountRoutes, TokenRoutes, DepartmentRoutes, GroupRoutes, MembershipRoutes,
         SettingsRoutes, DataRoutes, RightsRoutes, AuditRoutes, GrantRoutes, ReviewRoutes, ConfigRoutes, ApprovalRoutes, Route, Variables
<1>13. \A r \in ReviewRoutes : Alone(r)
  BY SMTT(60) DEF Alone, Meet, AllRoutes, PlatformRoutes, SystemRoutes, LoginRoutes, AccountRoutes, TokenRoutes, DepartmentRoutes, GroupRoutes, MembershipRoutes,
         SettingsRoutes, DataRoutes, RightsRoutes, AuditRoutes, GrantRoutes, ReviewRoutes, ConfigRoutes, ApprovalRoutes, Route, Variables
<1>14. \A r \in ConfigRoutes : Alone(r)
  BY SMTT(60) DEF Alone, Meet, AllRoutes, PlatformRoutes, SystemRoutes, LoginRoutes, AccountRoutes, TokenRoutes, DepartmentRoutes, GroupRoutes, MembershipRoutes,
         SettingsRoutes, DataRoutes, RightsRoutes, AuditRoutes, GrantRoutes, ReviewRoutes, ConfigRoutes, ApprovalRoutes, Route, Variables
<1>15. \A r \in ApprovalRoutes : Alone(r)
  BY SMTT(60) DEF Alone, Meet, AllRoutes, PlatformRoutes, SystemRoutes, LoginRoutes, AccountRoutes, TokenRoutes, DepartmentRoutes, GroupRoutes, MembershipRoutes,
         SettingsRoutes, DataRoutes, RightsRoutes, AuditRoutes, GrantRoutes, ReviewRoutes, ConfigRoutes, ApprovalRoutes, Route, Variables
<1> QED BY <1>1, <1>2, <1>3, <1>4, <1>5, <1>6, <1>7, <1>8, <1>9, <1>10, <1>11, <1>12, <1>13, <1>14, <1>15
     DEF RoutesAreUnambiguous, Alone, AllRoutes, PlatformRoutes

(***************************************************************************)
(* ClientIsUnderstood: what the generated client sends, the generated       *)
(* handler binds, except for UpdateSecurityPolicy.                          *)
(***************************************************************************)
THEOREM ClientAndServerAgree ==
  ASSUME MessageAssumption
  PROVE  ClientIsUnderstood
<1> SUFFICES ASSUME NEW r \in AllRoutes, NEW in \in Messages
             PROVE  Bound(r, ClientRequest(r, in)) =
                      IF r.op = "UpdateSecurityPolicy" THEN Only(in, {"policy"}) ELSE in
  BY DEF ClientIsUnderstood
<1> DEFINE vs == PathVars(r)
<1>1. vs \subseteq Fields
  BY DEF PathVars, MessageAssumption
<1>2. /\ ClientRequest(r, in).path = Only(in, vs)
      /\ ClientRequest(r, in).query =
           IF r.method \in {"GET", "DELETE"} THEN Only(in, Fields \ vs) ELSE Nothing
      /\ ClientRequest(r, in).body = Only(in, BodyFields(r))
  BY DEF ClientRequest
<1>3. Only(Only(in, vs), vs) = Only(in, vs) /\ Only(Only(in, BodyFields(r)), BodyFields(r)) = Only(in, BodyFields(r))
  BY DEF Only
<1>4. Bound(r, ClientRequest(r, in)) =
        Over(Only(in, vs),
             Over(IF r.method \in {"GET", "DELETE"} THEN Only(in, Fields \ vs) ELSE Nothing, Only(in, BodyFields(r))))
  BY <1>2, <1>3 DEF Bound
<1>5. r.op = "UpdateSecurityPolicy" => vs = {} /\ r.method = "PUT"
  <2>1. r.op = "UpdateSecurityPolicy" => r = Route("PUT", "UpdateSecurityPolicy", <<"admin", "security-config">>)
    BY DEF AllRoutes, PlatformRoutes, SystemRoutes, LoginRoutes, AccountRoutes,
       TokenRoutes, DepartmentRoutes, GroupRoutes, MembershipRoutes, SettingsRoutes, DataRoutes, RightsRoutes,
       AuditRoutes, GrantRoutes, ReviewRoutes, ConfigRoutes, ApprovalRoutes, Route
  <2>2. ASSUME r = Route("PUT", "UpdateSecurityPolicy", <<"admin", "security-config">>)
        PROVE  vs = {} /\ r.method = "PUT"
    <3>1. r.path = <<"admin", "security-config">> /\ r.method = "PUT"
      BY <2>2 DEF Route
    <3>2. {r.path[i] : i \in DOMAIN r.path} = {"admin", "security-config"}
      BY <3>1
    <3> QED BY <3>1, <3>2 DEF PathVars, Variables
  <2> QED BY <2>1, <2>2
<1>6. CASE r.method \in {"GET", "DELETE"}
  <2>2. r.op # "UpdateSecurityPolicy"
    BY <1>5, <1>6
  <2>1. BodyFields(r) = {}
    BY <1>6, <2>2 DEF BodyFields
  <2>3. Over(Only(in, vs), Over(Only(in, Fields \ vs), Only(in, {}))) = in
    BY DEF Over, Only, Messages
  <2> QED BY <1>4, <1>6, <2>1, <2>2, <2>3
<1>7. CASE r.method \notin {"GET", "DELETE"} /\ r.op # "UpdateSecurityPolicy"
  <2>1. BodyFields(r) = Fields
    BY <1>7 DEF BodyFields
  <2>2. Over(Only(in, vs), Over(Nothing, Only(in, Fields))) = in
    BY DEF Over, Only, Nothing, Messages
  <2> QED BY <1>4, <1>7, <2>1, <2>2
<1>8. CASE r.op = "UpdateSecurityPolicy"
  <2>1. BodyFields(r) = {"policy"} /\ vs = {}
    BY <1>5, <1>8 DEF BodyFields
  <2>2. PICK low : low = Only(in, {"policy"})
    OBVIOUS
  <2>3. \A f \in Fields : Over(Nothing, low)[f] = low[f] /\ Only(in, {})[f] = Unset
    BY DEF Over, Only, Nothing
  <2>4. Over(Only(in, {}), Over(Nothing, low)) = [f \in Fields |-> low[f]]
    BY <2>3 DEF Over
  <2>5. low = [f \in Fields |-> low[f]]
    BY <2>2 DEF Only
  <2> QED BY <1>4, <1>5, <1>8, <2>1, <2>2, <2>4, <2>5
<1> QED BY <1>6, <1>7, <1>8

(***************************************************************************)
(* PathWins: the generated handlers bind the variables of the path last.    *)
(***************************************************************************)
THEOREM PathDecides ==
  ASSUME MessageAssumption
  PROVE  PathWins
<1> SUFFICES ASSUME NEW r \in AllRoutes, NEW p \in Messages, NEW q \in Messages, NEW b \in Messages,
                    NEW v \in PathVars(r), p[v] # Unset
             PROVE  Bound(r, [path |-> p, query |-> q, body |-> b])[v] = p[v]
  BY DEF PathWins
<1>1. v \in Fields
  BY DEF PathVars, MessageAssumption
<1>2. Only(p, PathVars(r))[v] = p[v]
  BY <1>1 DEF Only
<1>3. \A top, below : top[v] # Unset => Over(top, below)[v] = top[v]
  BY <1>1 DEF Over
<1> QED BY <1>2, <1>3 DEF Bound

-----------------------------------------------------------------------------
(***************************************************************************)
(* A request on its way (Gateway).  Facts(q, S) lists what each stage of a  *)
(* request q relies on, as having held in some state of S, the states since *)
(* it arrived; a larger S only makes it easier.                             *)
(***************************************************************************)
Checked == {"authorised", "handled"}
Resolved == Checked \cup {"principal", "csrf"}
WithOrg == Resolved \cup {"org"}
WithGrants == WithOrg \cup {"grants"}
WithRoles == WithGrants \cup {"roles"}
WithMFA == WithRoles \cup {"mfa"}
WithRow == WithMFA \cup {"row"}

Facts(q, S) ==
  q.op \notin PublicOperations =>
    /\ q.at \in {"bound", "row"} => q.mfa = Never
    /\ q.at \in WithRow =>
         /\ q.by \in Credentials
         /\ \E w \in S : q.by \in w.live /\ w.active /\ q.must = w.must /\ q.changed = w.changed
         /\ q.by \in GwTokens => \E w \in S : q.scopes = w.scopes[q.by]
    /\ q.at \in WithMFA => /\ q.by \in GwSessions => \E w \in S : q.mfa = w.mfa[q.by]
                           /\ q.by \in GwTokens => q.mfa = Never
    /\ q.at \in WithRoles /\ q.admin => \E w \in S : w.admin
    /\ q.at \in WithGrants /\ q.grants # {} => \E w \in S : q.grants = w.grants
    /\ q.at \in WithOrg => \E w \in S : w.org
    /\ q.at \in Resolved => /\ q.by \in GwTokens => ~q.due
                            /\ ~q.due => \E row, later \in S :
                                 /\ q.by \in row.live /\ row.active /\ ~row.must /\ row.now <= later.now
                                 /\ ~PasswordExpired(row.changed, later.maxAge, later.now)
    /\ q.at \in Checked => /\ q.due => q.op \in AllowedBeforePasswordChange
                           /\ PlatformRules(q.op) # {} => HasPermission(q, PlatformRules(q.op))
    /\ q.at = "handled" /\ q.op \in SteppedUpOperations => q.mfa # Never /\ q.when - q.mfa \in 0..MfaWindow

InSight(r) == gwReq[r].at # "new" => gwWorld \in gwSeen[r] /\ \A w \in gwSeen[r] : w.now <= gwWorld.now

GwInv ==
  /\ GwTypeOK
  /\ \A r \in GwRequests : InSight(r) /\ Facts(gwReq[r], gwSeen[r])

LEMMA FactsGrow ==
  ASSUME NEW q, NEW S, NEW T, Facts(q, S), S \subseteq T
  PROVE  Facts(q, T)
BY DEF Facts

\* Others, and the clock: every request sees one more state.
LEMMA GatewayWorld ==
  ASSUME GwInv, NEW w \in Worlds, w.now >= gwWorld.now, Become(w), UNCHANGED gwReq
  PROVE  GwInv'
<1>1. GwTypeOK' /\ \A r \in GwRequests : gwSeen'[r] = gwSeen[r] \cup {w}
  BY DEF GwInv, GwTypeOK, Become
<1>2. \A r \in GwRequests : Facts(gwReq[r], gwSeen'[r])
  BY <1>1, FactsGrow DEF GwInv
<1>3. \A r \in GwRequests : InSight(r)'
  <2>1. \A r \in GwRequests : \A v \in gwSeen[r] : v.now \in Nat
    BY DEF GwInv, GwTypeOK, Worlds
  <2>2. w.now \in Nat /\ gwWorld.now \in Nat /\ gwWorld' = w
    BY DEF GwInv, GwTypeOK, Worlds, Become
  <2> QED BY <1>1, <2>1, <2>2 DEF GwInv, InSight
<1> QED BY <1>1, <1>2, <1>3 DEF GwInv

\* A request moves on while the rows stay as they are.
LEMMA GatewayRequest ==
  ASSUME GwInv, NEW r \in GwRequests, NEW q \in GwRows, gwReq' = [gwReq EXCEPT ![r] = q],
         UNCHANGED <<gwWorld, gwSeen>>, gwReq[r].at # "new", Facts(q, gwSeen[r])
  PROVE  GwInv'
<1>1. GwTypeOK'
  BY DEF GwInv, GwTypeOK
<1>2. gwReq'[r] = q /\ \A p \in GwRequests \ {r} : gwReq'[p] = gwReq[p]
  BY DEF GwInv, GwTypeOK
<1>3. gwWorld \in gwSeen[r] /\ \A w \in gwSeen[r] : w.now <= gwWorld.now
  BY DEF GwInv, InSight
<1>4. \A p \in GwRequests : InSight(p)'
  BY <1>2, <1>3 DEF GwInv, InSight
<1>5. \A p \in GwRequests : Facts(gwReq'[p], gwSeen[p])
  BY <1>2 DEF GwInv
<1> QED BY <1>1, <1>4, <1>5 DEF GwInv

\* A handler that also changes the account.
LEMMA GatewayBoth ==
  ASSUME GwInv, NEW r \in GwRequests, NEW q \in GwRows, NEW w \in Worlds,
         w.now >= gwWorld.now, gwReq' = [gwReq EXCEPT ![r] = q], Become(w), gwReq[r].at # "new",
         Facts(q, gwSeen[r])
  PROVE  GwInv'
<1>1. GwTypeOK' /\ \A p \in GwRequests : gwSeen'[p] = gwSeen[p] \cup {w}
  BY DEF GwInv, GwTypeOK, Become
<1>2. gwReq'[r] = q /\ \A p \in GwRequests \ {r} : gwReq'[p] = gwReq[p]
  BY DEF GwInv, GwTypeOK
<1>3. \A p \in GwRequests : InSight(p)'
  <2>1. \A p \in GwRequests : \A v \in gwSeen[p] : v.now \in Nat
    BY DEF GwInv, GwTypeOK, Worlds
  <2>2. w.now \in Nat /\ gwWorld.now \in Nat /\ gwWorld' = w
    BY DEF GwInv, GwTypeOK, Worlds, Become
  <2> QED BY <1>1, <1>2, <2>1, <2>2 DEF GwInv, InSight
<1>4. \A p \in GwRequests : Facts(gwReq'[p], gwSeen[p])
  BY <1>2 DEF GwInv
<1>5. \A p \in GwRequests : Facts(gwReq'[p], gwSeen'[p])
  BY <1>1, <1>4, FactsGrow
<1> QED BY <1>1, <1>3, <1>5 DEF GwInv

LEMMA GatewayReceive ==
  ASSUME GwInv, NEW r \in GwRequests, NEW op \in Operations, NEW by \in Credentials \cup {NoCredential},
         ReceiveGRPC(r, op, by) \/ \E twin \in BOOLEAN : ReceiveHTTP(r, op, by, twin)
  PROVE  GwInv'
<1>1. PICK q \in GwRows : q.at = "bound" /\ q.mfa = Never /\ gwReq' = [gwReq EXCEPT ![r] = q]
  <2>1. NewRequest \in GwRows
    BY DEF NewRequest, GwRows, Stages, Operations, SystemOperations, NoCredential, Never
  <2>2. CASE ReceiveGRPC(r, op, by)
    <3>1. PICK q : q = [NewRequest EXCEPT !.at = "bound", !.op = op, !.by = by, !.http = FALSE]
      OBVIOUS
    <3>2. q \in GwRows /\ q.at = "bound" /\ q.mfa = Never
      BY <2>1, <3>1 DEF NewRequest, GwRows, Stages
    <3> QED BY <2>2, <3>1, <3>2 DEF ReceiveGRPC
  <2>3. CASE \E twin \in BOOLEAN : ReceiveHTTP(r, op, by, twin)
    <3>1. PICK twin \in BOOLEAN : ReceiveHTTP(r, op, by, twin)
      BY <2>3
    <3>2. PICK q : q = [NewRequest EXCEPT !.at = "bound", !.op = op, !.by = by, !.twin = twin]
      OBVIOUS
    <3>3. q \in GwRows /\ q.at = "bound" /\ q.mfa = Never
      BY <2>1, <3>2 DEF NewRequest, GwRows, Stages
    <3> QED BY <3>1, <3>2, <3>3 DEF ReceiveHTTP
  <2> QED BY <2>2, <2>3
<1>2. gwSeen' = [gwSeen EXCEPT ![r] = {gwWorld}] /\ gwWorld' = gwWorld
  BY DEF ReceiveGRPC, ReceiveHTTP
<1>3. q \in GwRows /\ q.at = "bound" /\ q.mfa = Never
  BY <1>1
<1>4. gwReq'[r] = q /\ \A p \in GwRequests \ {r} : gwReq'[p] = gwReq[p]
  BY <1>1 DEF GwInv, GwTypeOK
<1>5. gwSeen'[r] = {gwWorld} /\ \A p \in GwRequests \ {r} : gwSeen'[p] = gwSeen[p]
  BY <1>2 DEF GwInv, GwTypeOK
<1>6. GwTypeOK'
  BY <1>1, <1>2, <1>3 DEF GwInv, GwTypeOK
<1>7. \A p \in GwRequests : InSight(p)'
  <2>1. gwWorld.now \in Nat
    BY DEF GwInv, GwTypeOK, Worlds
  <2> QED BY <1>2, <1>4, <1>5, <2>1 DEF GwInv, InSight
<1>8. Facts(q, {gwWorld})
  BY <1>3 DEF Facts, WithRow, WithMFA, WithRoles, WithGrants, WithOrg, Resolved, Checked
<1> QED BY <1>4, <1>5, <1>6, <1>7, <1>8 DEF GwInv

\* The stages, one by one.
LEMMA GatewayRefuse ==
  ASSUME GwInv, NEW r \in GwRequests, RefuseRequest(r)
  PROVE  GwInv'
<1>1. PICK q : q = [gwReq[r] EXCEPT !.at = "refused"]
  OBVIOUS
<1>2. gwReq[r] \in GwRows
  BY DEF GwInv, GwTypeOK
<1>3. q \in GwRows /\ q.at = "refused"
  BY <1>1, <1>2 DEF GwRows, Stages
<1>4. Facts(q, gwSeen[r])
  BY <1>3 DEF Facts, WithRow, WithMFA, WithRoles, WithGrants, WithOrg, Resolved, Checked
<1>5. gwReq' = [gwReq EXCEPT ![r] = q] /\ UNCHANGED <<gwWorld, gwSeen>> /\ gwReq[r].at # "new"
  BY <1>1 DEF RefuseRequest
<1> QED BY <1>3, <1>4, <1>5, GatewayRequest

LEMMA GatewayGoes ==
  ASSUME GwInv, NEW r \in GwRequests, NEW from, from # "new", NEW q \in GwRows, Goes(r, from, q),
         Facts(gwReq[r], gwSeen[r]) /\ gwWorld \in gwSeen[r] /\ (\A w \in gwSeen[r] : w.now <= gwWorld.now)
           => Facts(q, gwSeen[r])
  PROVE  GwInv'
BY GatewayRequest DEF Goes, GwInv, InSight

LEMMA GatewayCredential ==
  ASSUME GatewayAssumption, GwInv, NEW r \in GwRequests, ReadCredential(r)
  PROVE  GwInv'
<1> DEFINE old == gwReq[r]
<1>1. PICK q : q = [old EXCEPT !.at = "row", !.must = gwWorld.must, !.changed = gwWorld.changed,
                               !.scopes = IF old.by \in GwTokens THEN gwWorld.scopes[old.by] ELSE {}]
  OBVIOUS
<1>2. old \in GwRows /\ gwWorld \in Worlds
  BY DEF GwInv, GwTypeOK
<1>3. /\ gwWorld.must \in BOOLEAN /\ gwWorld.changed \in Nat /\ gwWorld.live \subseteq Credentials
      /\ (IF old.by \in GwTokens THEN gwWorld.scopes[old.by] ELSE {}) \in SUBSET (GwPermissions \cup {"*"})
  BY <1>2 DEF Worlds
<1>4. q \in GwRows
  BY <1>1, <1>2, <1>3 DEF GwRows, Stages
<1>5. /\ q.at = "row" /\ q.op = old.op /\ q.by = old.by /\ q.mfa = old.mfa
      /\ q.must = gwWorld.must /\ q.changed = gwWorld.changed
      /\ q.by \in GwTokens => q.scopes = gwWorld.scopes[q.by]
  BY <1>1, <1>2 DEF GwRows
<1>6. old.by \in gwWorld.live /\ gwWorld.active /\ Goes(r, "bound", q)
  BY <1>1 DEF ReadCredential
<1>7. Facts(old, gwSeen[r]) /\ gwWorld \in gwSeen[r] => Facts(q, gwSeen[r])
  <2> SUFFICES ASSUME Facts(old, gwSeen[r]), gwWorld \in gwSeen[r] PROVE Facts(q, gwSeen[r])
    OBVIOUS
  <2>1. /\ q.at \notin WithMFA /\ q.at \notin WithRoles /\ q.at \notin WithGrants /\ q.at \notin WithOrg
        /\ q.at \notin Resolved /\ q.at \notin Checked /\ q.at # "handled"
    BY <1>5 DEF WithRow, WithMFA, WithRoles, WithGrants, WithOrg, Resolved, Checked
  <2>2. /\ q.by \in Credentials
        /\ \E w \in gwSeen[r] : q.by \in w.live /\ w.active /\ q.must = w.must /\ q.changed = w.changed
        /\ q.by \in GwTokens => \E w \in gwSeen[r] : q.scopes = w.scopes[q.by]
    BY <1>3, <1>5, <1>6
  <2>3. q.op \notin PublicOperations => q.mfa = Never
    BY <1>5, <1>6 DEF Facts, Goes
  <2> QED BY <2>1, <2>2, <2>3 DEF Facts
<1> QED BY <1>4, <1>6, <1>7, GatewayGoes

LEMMA GatewayMFA ==
  ASSUME GatewayAssumption, GwInv, NEW r \in GwRequests, ReadMFA(r)
  PROVE  GwInv'
<1> DEFINE old == gwReq[r]
<1>1. PICK q : /\ Goes(r, "row", q)
               /\ \/ /\ q = [old EXCEPT !.at = "mfa", !.mfa = gwWorld.mfa[old.by]]
                     /\ old.by \in gwWorld.live \cap GwSessions
                  \/ q = [old EXCEPT !.at = "mfa"] /\ old.by \in GwTokens
  BY DEF ReadMFA
<1>2. old \in GwRows /\ gwWorld \in Worlds /\ old.at = "row"
  BY <1>1 DEF GwInv, GwTypeOK, Goes
<1>3. old.by \in GwSessions => gwWorld.mfa[old.by] \in Nat \cup {Never}
  BY <1>2 DEF Worlds
<1>4. q \in GwRows
  <2>1. CASE q = [old EXCEPT !.at = "mfa"]
    BY <1>2, <2>1 DEF GwRows, Stages
  <2>2. CASE q = [old EXCEPT !.at = "mfa", !.mfa = gwWorld.mfa[old.by]] /\ old.by \in GwSessions
    <3>1. PICK m \in Nat \cup {Never} : m = gwWorld.mfa[old.by]
      BY <1>3, <2>2
    <3>2. q = [old EXCEPT !.at = "mfa", !.mfa = m]
      BY <2>2, <3>1
    <3> QED BY <1>2, <3>2 DEF GwRows, Stages
  <2> QED BY <1>1, <2>1, <2>2
<1>5. /\ q.at = "mfa" /\ q.op = old.op /\ q.by = old.by /\ q.scopes = old.scopes
      /\ q.must = old.must /\ q.changed = old.changed
      /\ \/ old.by \in GwSessions /\ q.mfa = gwWorld.mfa[old.by]
         \/ old.by \in GwTokens /\ q.mfa = old.mfa
  BY <1>1, <1>2 DEF GwRows
<1>6. Facts(old, gwSeen[r]) /\ gwWorld \in gwSeen[r] => Facts(q, gwSeen[r])
  BY <1>2, <1>5 DEF Facts, WithRow, WithMFA, WithRoles, WithGrants, WithOrg, Resolved, Checked, GatewayAssumption
<1> QED BY <1>1, <1>4, <1>6, GatewayGoes

LEMMA GatewayRoles ==
  ASSUME GwInv, NEW r \in GwRequests, ReadRoles(r)
  PROVE  GwInv'
<1> DEFINE old == gwReq[r]
<1>6. PICK admin \in {gwWorld.admin, FALSE} : Goes(r, "mfa", [old EXCEPT !.at = "roles", !.admin = admin])
  BY DEF ReadRoles
<1>1. PICK q : q = [old EXCEPT !.at = "roles", !.admin = admin] /\ Goes(r, "mfa", q)
  BY <1>6
<1>2. old \in GwRows /\ gwWorld \in Worlds /\ old.at = "mfa" /\ admin \in BOOLEAN
  BY <1>1 DEF GwInv, GwTypeOK, Goes, Worlds
<1>3. q \in GwRows
  BY <1>1, <1>2 DEF GwRows, Stages
<1>4. /\ q.at = "roles" /\ q.op = old.op /\ q.by = old.by /\ q.scopes = old.scopes
      /\ q.must = old.must /\ q.changed = old.changed
      /\ q.mfa = old.mfa /\ (q.admin => gwWorld.admin)
  BY <1>1, <1>2 DEF GwRows
<1>5. Facts(old, gwSeen[r]) /\ gwWorld \in gwSeen[r] => Facts(q, gwSeen[r])
  BY <1>2, <1>4 DEF Facts, WithRow, WithMFA, WithRoles, WithGrants, WithOrg, Resolved, Checked
<1> QED BY <1>1, <1>3, <1>5, GatewayGoes

LEMMA GatewayPermissions ==
  ASSUME GwInv, NEW r \in GwRequests, ReadPermissions(r)
  PROVE  GwInv'
<1> DEFINE old == gwReq[r]
<1>6. PICK grants \in {gwWorld.grants, {}} : Goes(r, "roles", [old EXCEPT !.at = "grants", !.grants = grants])
  BY DEF ReadPermissions
<1>1. PICK q : q = [old EXCEPT !.at = "grants", !.grants = grants] /\ Goes(r, "roles", q)
  BY <1>6
<1>2. old \in GwRows /\ gwWorld \in Worlds /\ old.at = "roles" /\ grants \in SUBSET GwPermissions
  BY <1>1 DEF GwInv, GwTypeOK, Goes, Worlds
<1>3. q \in GwRows
  BY <1>1, <1>2 DEF GwRows, Stages
<1>4. /\ q.at = "grants" /\ q.op = old.op /\ q.by = old.by /\ q.scopes = old.scopes
      /\ q.must = old.must /\ q.changed = old.changed
      /\ q.mfa = old.mfa /\ q.admin = old.admin /\ q.grants \in {gwWorld.grants, {}}
  BY <1>1, <1>2 DEF GwRows
<1>5. Facts(old, gwSeen[r]) /\ gwWorld \in gwSeen[r] => Facts(q, gwSeen[r])
  BY <1>2, <1>4 DEF Facts, WithRow, WithMFA, WithRoles, WithGrants, WithOrg, Resolved, Checked
<1> QED BY <1>1, <1>3, <1>5, GatewayGoes

LEMMA GatewayOrganization ==
  ASSUME GwInv, NEW r \in GwRequests, ReadOrganization(r)
  PROVE  GwInv'
<1> DEFINE old == gwReq[r]
<1>1. PICK q : q = [old EXCEPT !.at = "org"] /\ Goes(r, "grants", q)
  BY DEF ReadOrganization
<1>2. old \in GwRows /\ old.at = "grants" /\ gwWorld.org
  BY <1>1 DEF GwInv, GwTypeOK, Goes, ReadOrganization
<1>3. q \in GwRows
  BY <1>1, <1>2 DEF GwRows, Stages
<1>4. /\ q.at = "org" /\ q.op = old.op /\ q.by = old.by /\ q.scopes = old.scopes
      /\ q.must = old.must /\ q.changed = old.changed
      /\ q.mfa = old.mfa /\ q.admin = old.admin /\ q.grants = old.grants
  BY <1>1, <1>2 DEF GwRows
<1>5. Facts(old, gwSeen[r]) /\ gwWorld \in gwSeen[r] => Facts(q, gwSeen[r])
  BY <1>2, <1>4 DEF Facts, WithRow, WithMFA, WithRoles, WithGrants, WithOrg, Resolved, Checked
<1> QED BY <1>1, <1>3, <1>5, GatewayGoes

\* The policy read now meets the row read first: row is the state that row is from, and it is not later.
LEMMA GatewayPolicy ==
  ASSUME GwInv, NEW r \in GwRequests, ReadPolicy(r)
  PROVE  GwInv'
<1> DEFINE old == gwReq[r]
<1>1. PICK due : due = (old.must \/ PasswordExpired(old.changed, gwWorld.maxAge, gwWorld.now))
  OBVIOUS
<1>2. PICK q : q = [old EXCEPT !.at = "principal", !.due = due] /\ Goes(r, "org", q)
  BY <1>1 DEF ReadPolicy
<1>3. old \in GwRows /\ old.at = "org" /\ due \in BOOLEAN /\ (old.by \in GwTokens => ~due)
  BY <1>1, <1>2 DEF GwInv, GwTypeOK, Goes, ReadPolicy
<1>4. q \in GwRows
  BY <1>2, <1>3 DEF GwRows, Stages
<1>5. /\ q.at = "principal" /\ q.op = old.op /\ q.by = old.by /\ q.scopes = old.scopes
      /\ q.must = old.must /\ q.changed = old.changed /\ q.due = due
      /\ q.mfa = old.mfa /\ q.admin = old.admin /\ q.grants = old.grants
  BY <1>2, <1>3 DEF GwRows
<1>6. ASSUME Facts(old, gwSeen[r]), gwWorld \in gwSeen[r], \A w \in gwSeen[r] : w.now <= gwWorld.now
      PROVE  Facts(q, gwSeen[r])
  <2> SUFFICES ASSUME q.op \notin PublicOperations PROVE Facts(q, gwSeen[r])
    BY DEF Facts
  <2>1. /\ old.at \in WithOrg \cap WithGrants \cap WithRoles \cap WithMFA \cap WithRow
        /\ q.at \notin {"bound", "row", "handled"} /\ q.at \notin Checked
    BY <1>3, <1>5 DEF WithRow, WithMFA, WithRoles, WithGrants, WithOrg, Resolved, Checked
  <2>2. PICK row \in gwSeen[r] : q.by \in row.live /\ row.active /\ q.must = row.must /\ q.changed = row.changed
    BY <1>5, <1>6, <2>1 DEF Facts
  <2>3. ~q.due => /\ ~row.must /\ row.now <= gwWorld.now
                  /\ ~PasswordExpired(row.changed, gwWorld.maxAge, gwWorld.now)
    BY <1>1, <1>5, <1>6, <2>2
  <2>4. q.by \in GwTokens => ~q.due
    BY <1>3, <1>5
  <2> QED BY <1>5, <1>6, <2>1, <2>2, <2>3, <2>4 DEF Facts
<1> QED BY <1>2, <1>4, <1>6, GatewayGoes

LEMMA GatewayChecks ==
  ASSUME GwInv, NEW r \in GwRequests, CheckCSRF(r) \/ Authorize(r)
  PROVE  GwInv'
<1> DEFINE old == gwReq[r]
<1>7. PICK from \in {"principal", "csrf"}, to \in {"csrf", "authorised"} :
        /\ Goes(r, from, [old EXCEPT !.at = to])
        /\ to = "authorised" =>
             /\ old.due => old.op \in AllowedBeforePasswordChange
             /\ PlatformRules(old.op) # {} => HasPermission(old, PlatformRules(old.op))
  BY DEF CheckCSRF, Authorize
<1>1. PICK q : q = [old EXCEPT !.at = to] /\ Goes(r, from, q)
  BY <1>7
<1>2. old \in GwRows /\ old.at = from
  BY <1>1 DEF GwInv, GwTypeOK, Goes
<1>3. q \in GwRows
  BY <1>1, <1>2 DEF GwRows, Stages
<1>4. /\ q.at = to /\ q.op = old.op /\ q.by = old.by /\ q.due = old.due /\ q.scopes = old.scopes
      /\ q.must = old.must /\ q.changed = old.changed
      /\ q.mfa = old.mfa /\ q.admin = old.admin /\ q.grants = old.grants
  BY <1>1, <1>2 DEF GwRows
<1>5. \A keys : HasPermission(old, keys) => HasPermission(q, keys)
  BY <1>4 DEF HasPermission
<1>6. Facts(old, gwSeen[r]) => Facts(q, gwSeen[r])
  <2> SUFFICES ASSUME Facts(old, gwSeen[r]), q.op \notin PublicOperations PROVE Facts(q, gwSeen[r])
    BY DEF Facts
  <2>1. old.at \in Resolved \cap WithOrg \cap WithGrants \cap WithRoles \cap WithMFA \cap WithRow
    BY <1>1, <1>2 DEF WithRow, WithMFA, WithRoles, WithGrants, WithOrg, Resolved, Checked
  <2>2. q.at \notin {"bound", "row", "handled"} /\ (q.at \in Checked => to = "authorised")
    BY <1>1, <1>4 DEF Checked
  <2> QED BY <1>7, <1>4, <1>5, <2>1, <2>2 DEF Facts
<1> QED BY <1>1, <1>3, <1>6, GatewayGoes

\* The handler runs: the request keeps what it relied on, and remembers when.
LEMMA GatewayAdmitted ==
  ASSUME GatewayAssumption, GwInv, NEW r \in GwRequests, Admitted(r), Handled(r)
  PROVE  \E q \in GwRows : /\ gwReq' = [gwReq EXCEPT ![r] = q]
                           /\ gwReq[r].at # "new" /\ Facts(q, gwSeen[r])
<1> DEFINE old == gwReq[r]
<1>1. PICK q : q = [old EXCEPT !.at = "handled", !.when = gwWorld.now]
  OBVIOUS
<1>2. old \in GwRows /\ gwWorld \in Worlds /\ gwWorld.now \in Nat
  BY DEF GwInv, GwTypeOK, Worlds
<1>3. q \in GwRows
  BY <1>1, <1>2 DEF GwRows, Stages
<1>4. /\ q.at = "handled" /\ q.op = old.op /\ q.by = old.by /\ q.due = old.due /\ q.scopes = old.scopes
      /\ q.must = old.must /\ q.changed = old.changed
      /\ q.mfa = old.mfa /\ q.admin = old.admin /\ q.grants = old.grants /\ q.when = gwWorld.now
  BY <1>1, <1>2 DEF GwRows
<1>5. \A keys : HasPermission(old, keys) => HasPermission(q, keys)
  BY <1>4 DEF HasPermission
<1>6. Facts(q, gwSeen[r])
  <2> SUFFICES ASSUME q.op \notin PublicOperations PROVE Facts(q, gwSeen[r])
    BY DEF Facts
  <2>1. old.at = "authorised" /\ (old.op \in SteppedUpOperations => RecentMFA(old))
    BY <1>4 DEF Admitted
  <2>2. old.at \in Checked \cap Resolved \cap WithOrg \cap WithGrants \cap WithRoles \cap WithMFA \cap WithRow
    BY <2>1 DEF WithRow, WithMFA, WithRoles, WithGrants, WithOrg, Resolved, Checked
  <2>3. Facts(old, gwSeen[r])
    BY DEF GwInv
  <2>4. q.at \notin {"bound", "row"}
    BY <1>4
  <2>5. q.op \in SteppedUpOperations => q.mfa # Never /\ q.when - q.mfa \in 0..MfaWindow
    BY <1>4, <2>1 DEF RecentMFA
  <2> QED BY <1>4, <1>5, <2>2, <2>3, <2>4, <2>5 DEF Facts
<1>7. gwReq' = [gwReq EXCEPT ![r] = q] /\ old.at # "new"
  <2>1. gwReq' = [gwReq EXCEPT ![r] = q]
    BY <1>1 DEF Handled
  <2> QED BY <2>1 DEF Admitted
<1> QED BY <1>3, <1>6, <1>7

\* The rows as they may be next: time does not run backwards.
LaterWorlds == {w \in Worlds : w.now >= gwWorld.now}

LEMMA GatewayHandle ==
  ASSUME GatewayAssumption, GwInv, NEW r \in GwRequests, Admitted(r), Handled(r),
         UNCHANGED <<gwWorld, gwSeen>> \/ \E w \in LaterWorlds : Become(w)
  PROVE  GwInv'
BY GatewayAdmitted, GatewayRequest, GatewayBoth DEF LaterWorlds

\* What the handlers and the others make of the rows is well-formed.
LEMMA GatewayRows ==
  ASSUME GatewayAssumption, GwInv
  PROVE  /\ \A act, org, admin \in BOOLEAN, maxAge \in GwMaxAges, grants \in SUBSET GwPermissions, gone \in SUBSET Credentials,
               later \in 0..1 :
              [gwWorld EXCEPT !.active = act, !.org = org, !.maxAge = maxAge, !.admin = admin, !.grants = grants,
                              !.live = gwWorld.live \ gone, !.now = gwWorld.now + later] \in LaterWorlds
         /\ \A s \in GwSessions, at \in Nat \cup {Never} :
              [gwWorld EXCEPT !.live = gwWorld.live \cup {s}, !.mfa = [gwWorld.mfa EXCEPT ![s] = at]] \in LaterWorlds
         /\ \A s \in GwSessions :
              [gwWorld EXCEPT !.mfa = [gwWorld.mfa EXCEPT ![s] = gwWorld.now]] \in LaterWorlds
         /\ \A gone \in SUBSET Credentials :
              /\ [gwWorld EXCEPT !.live = gwWorld.live \ gone] \in LaterWorlds
              /\ \A must \in BOOLEAN : [gwWorld EXCEPT !.must = must, !.changed = gwWorld.now,
                                                      !.live = gwWorld.live \ gone] \in LaterWorlds
         /\ \A t \in GwTokens, scopes \in SUBSET (GwPermissions \cup {"*"}) :
              [gwWorld EXCEPT !.live = gwWorld.live \cup {t},
                              !.scopes = [gwWorld.scopes EXCEPT ![t] = scopes]] \in LaterWorlds
<1>1. gwWorld \in Worlds
  BY DEF GwInv, GwTypeOK
<1>2. /\ gwWorld.now \in Nat /\ gwWorld.live \in SUBSET Credentials
      /\ gwWorld.mfa \in [GwSessions -> Nat \cup {Never}]
      /\ gwWorld.scopes \in [GwTokens -> SUBSET (GwPermissions \cup {"*"})]
  BY <1>1 DEF Worlds
<1>3. \A act, org, admin \in BOOLEAN, maxAge \in GwMaxAges, grants \in SUBSET GwPermissions, gone \in SUBSET Credentials,
         later \in 0..1 :
        [gwWorld EXCEPT !.active = act, !.org = org, !.maxAge = maxAge, !.admin = admin, !.grants = grants,
                        !.live = gwWorld.live \ gone, !.now = gwWorld.now + later] \in LaterWorlds
  <2> TAKE act, org, admin \in BOOLEAN, maxAge \in GwMaxAges, grants \in SUBSET GwPermissions, gone \in SUBSET Credentials,
           later \in 0..1
  <2>1. gwWorld.live \ gone \in SUBSET Credentials /\ gwWorld.now + later \in Nat
    BY <1>2
  <2>2. PICK w : w = [gwWorld EXCEPT !.active = act, !.org = org, !.maxAge = maxAge, !.admin = admin, !.grants = grants,
                                     !.live = gwWorld.live \ gone, !.now = gwWorld.now + later]
    OBVIOUS
  <2>3. w \in Worlds /\ w.now = gwWorld.now + later
    BY <1>1, <2>1, <2>2 DEF Worlds
  <2>4. w \in LaterWorlds
    BY <1>2, <2>3 DEF LaterWorlds
  <2> QED BY <2>2, <2>4, Zenon
<1>4. \A s \in GwSessions, at \in Nat \cup {Never} :
        [gwWorld EXCEPT !.live = gwWorld.live \cup {s}, !.mfa = [gwWorld.mfa EXCEPT ![s] = at]] \in LaterWorlds
  <2> TAKE s \in GwSessions, at \in Nat \cup {Never}
  <2>1. /\ gwWorld.live \cup {s} \in SUBSET Credentials
        /\ [gwWorld.mfa EXCEPT ![s] = at] \in [GwSessions -> Nat \cup {Never}]
    BY <1>2 DEF Credentials
  <2>2. PICK w : w = [gwWorld EXCEPT !.live = gwWorld.live \cup {s}, !.mfa = [gwWorld.mfa EXCEPT ![s] = at]]
    OBVIOUS
  <2>3. w \in Worlds /\ w.now = gwWorld.now
    BY <1>1, <2>1, <2>2 DEF Worlds
  <2>4. w \in LaterWorlds
    BY <1>2, <2>3 DEF LaterWorlds
  <2> QED BY <2>2, <2>4, Zenon
<1>5. \A s \in GwSessions : [gwWorld EXCEPT !.mfa = [gwWorld.mfa EXCEPT ![s] = gwWorld.now]] \in LaterWorlds
  <2> TAKE s \in GwSessions
  <2>1. [gwWorld.mfa EXCEPT ![s] = gwWorld.now] \in [GwSessions -> Nat \cup {Never}]
    BY <1>2
  <2>2. PICK w : w = [gwWorld EXCEPT !.mfa = [gwWorld.mfa EXCEPT ![s] = gwWorld.now]]
    OBVIOUS
  <2>3. w \in Worlds /\ w.now = gwWorld.now
    BY <1>1, <2>1, <2>2 DEF Worlds
  <2>4. w \in LaterWorlds
    BY <1>2, <2>3 DEF LaterWorlds
  <2> QED BY <2>2, <2>4, Zenon
<1>6. \A gone \in SUBSET Credentials :
        /\ [gwWorld EXCEPT !.live = gwWorld.live \ gone] \in LaterWorlds
        /\ \A must \in BOOLEAN : [gwWorld EXCEPT !.must = must, !.changed = gwWorld.now,
                                                      !.live = gwWorld.live \ gone] \in LaterWorlds
  <2> TAKE gone \in SUBSET Credentials
  <2>1. gwWorld.live \ gone \in SUBSET Credentials
    BY <1>2
  <2>2. [gwWorld EXCEPT !.live = gwWorld.live \ gone] \in LaterWorlds
    <3>1. PICK w : w = [gwWorld EXCEPT !.live = gwWorld.live \ gone]
      OBVIOUS
    <3>2. w \in Worlds /\ w.now = gwWorld.now
      BY <1>1, <2>1, <3>1 DEF Worlds
    <3>3. w \in LaterWorlds
      BY <1>2, <3>2 DEF LaterWorlds
    <3> QED BY <3>1, <3>3, Zenon
  <2>3. ASSUME NEW must \in BOOLEAN
        PROVE  [gwWorld EXCEPT !.must = must, !.changed = gwWorld.now, !.live = gwWorld.live \ gone] \in LaterWorlds
    <3>1. PICK w : w = [gwWorld EXCEPT !.must = must, !.changed = gwWorld.now, !.live = gwWorld.live \ gone]
      OBVIOUS
    <3>2. w \in Worlds /\ w.now = gwWorld.now
      BY <1>1, <1>2, <2>1, <3>1 DEF Worlds
    <3>3. w \in LaterWorlds
      BY <1>2, <3>2 DEF LaterWorlds
    <3> QED BY <3>1, <3>3, Zenon
  <2> QED BY <2>2, <2>3
<1>7. \A t \in GwTokens, scopes \in SUBSET (GwPermissions \cup {"*"}) :
        [gwWorld EXCEPT !.live = gwWorld.live \cup {t}, !.scopes = [gwWorld.scopes EXCEPT ![t] = scopes]] \in LaterWorlds
  <2> TAKE t \in GwTokens, scopes \in SUBSET (GwPermissions \cup {"*"})
  <2>1. /\ gwWorld.live \cup {t} \in SUBSET Credentials
        /\ [gwWorld.scopes EXCEPT ![t] = scopes] \in [GwTokens -> SUBSET (GwPermissions \cup {"*"})]
    BY <1>2 DEF Credentials
  <2>2. PICK w : w = [gwWorld EXCEPT !.live = gwWorld.live \cup {t}, !.scopes = [gwWorld.scopes EXCEPT ![t] = scopes]]
    OBVIOUS
  <2>3. w \in Worlds /\ w.now = gwWorld.now
    BY <1>1, <2>1, <2>2 DEF Worlds
  <2>4. w \in LaterWorlds
    BY <1>2, <2>3 DEF LaterWorlds
  <2> QED BY <2>2, <2>4, Zenon
<1> QED BY <1>3, <1>4, <1>5, <1>6, <1>7

LEMMA GatewayOthers ==
  ASSUME GatewayAssumption, GwInv,
         \/ \E act, org, admin \in BOOLEAN, maxAge \in GwMaxAges, grants \in SUBSET GwPermissions, gone \in SUBSET Credentials,
               later \in 0..1 : OthersAct(act, org, maxAge, admin, grants, gone, later)
         \/ \E s \in GwSessions, verified \in BOOLEAN : NewSession(s, verified)
         \/ ResetPassword
  PROVE  GwInv'
<1>1. CASE \E act, org, admin \in BOOLEAN, maxAge \in GwMaxAges, grants \in SUBSET GwPermissions, gone \in SUBSET Credentials,
              later \in 0..1 : OthersAct(act, org, maxAge, admin, grants, gone, later)
  <2>1. PICK act, org, admin \in BOOLEAN, maxAge \in GwMaxAges, grants \in SUBSET GwPermissions, gone \in SUBSET Credentials,
             later \in 0..1 : OthersAct(act, org, maxAge, admin, grants, gone, later)
    BY <1>1
  <2>2. PICK w : w = [gwWorld EXCEPT !.active = act, !.org = org, !.maxAge = maxAge, !.admin = admin, !.grants = grants,
                                     !.live = gwWorld.live \ gone, !.now = gwWorld.now + later]
    OBVIOUS
  <2>3. w \in LaterWorlds
    BY <2>2, GatewayRows, Zenon
  <2>4. Become(w) /\ UNCHANGED gwReq
    BY <2>1, <2>2 DEF OthersAct
  <2> QED BY <2>3, <2>4, GatewayWorld DEF LaterWorlds
<1>2. CASE \E s \in GwSessions, verified \in BOOLEAN : NewSession(s, verified)
  <2>1. PICK s \in GwSessions, verified \in BOOLEAN : NewSession(s, verified)
    BY <1>2
  <2>2. PICK at : at = IF verified THEN gwWorld.now ELSE Never
    OBVIOUS
  <2>3. at \in Nat \cup {Never}
    BY <2>2 DEF GwInv, GwTypeOK, Worlds
  <2>4. PICK w : w = [gwWorld EXCEPT !.live = gwWorld.live \cup {s}, !.mfa = [gwWorld.mfa EXCEPT ![s] = at]]
    OBVIOUS
  <2>5. w \in LaterWorlds
    BY <2>3, <2>4, GatewayRows, Zenon
  <2>6. Become(w) /\ UNCHANGED gwReq
    BY <2>1, <2>2, <2>4 DEF NewSession
  <2> QED BY <2>5, <2>6, GatewayWorld DEF LaterWorlds
<1>3. CASE ResetPassword
  <2>1. PICK w : w = [gwWorld EXCEPT !.must = TRUE, !.changed = gwWorld.now, !.live = gwWorld.live \ GwSessions]
    OBVIOUS
  <2>2. GwSessions \in SUBSET Credentials
    BY DEF Credentials
  <2>3. w \in LaterWorlds
    BY <2>1, <2>2, GatewayRows, Zenon
  <2>4. Become(w) /\ UNCHANGED gwReq
    BY <1>3, <2>1 DEF ResetPassword
  <2> QED BY <2>3, <2>4, GatewayWorld DEF LaterWorlds
<1> QED BY <1>1, <1>2, <1>3

LEMMA GatewayHandlers ==
  ASSUME GatewayAssumption, GwInv, NEW r \in GwRequests,
         \/ Handle(r) \/ StepUpAuthentication(r) \/ ChangePassword(r) \/ Logout(r)
         \/ \E t \in GwTokens, scopes \in SUBSET (GwPermissions \cup {"*"}) : CreateAPIToken(r, t, scopes)
         \/ \E t \in GwTokens : RevokeAPIToken(r, t)
  PROVE  GwInv'
<1>1. CASE Handle(r)
  BY <1>1, GatewayHandle DEF Handle
<1>2. CASE StepUpAuthentication(r)
  <2>1. gwReq[r].by \in GwSessions
    BY <1>2 DEF StepUpAuthentication, Admitted, InteractiveOperations, PublicOperations
  <2>2. [gwWorld EXCEPT !.mfa = [gwWorld.mfa EXCEPT ![gwReq[r].by] = gwWorld.now]] \in LaterWorlds
    BY <2>1, GatewayRows, Zenon
  <2> QED BY <1>2, <2>2, GatewayHandle DEF StepUpAuthentication
<1>3. CASE ChangePassword(r)
  <2>1. GwSessions \ {gwReq[r].by} \in SUBSET Credentials
    BY DEF Credentials
  <2>2. [gwWorld EXCEPT !.must = FALSE, !.changed = gwWorld.now, !.live = gwWorld.live \ (GwSessions \ {gwReq[r].by})] \in LaterWorlds
    BY <2>1, GatewayRows, Zenon
  <2> QED BY <1>3, <2>2, GatewayHandle DEF ChangePassword
<1>4. CASE Logout(r)
  <2>1. gwReq[r].by \in Credentials
    BY <1>4 DEF Logout, Admitted, InteractiveOperations, PublicOperations, Credentials
  <2>2. {gwReq[r].by} \in SUBSET Credentials
    BY <2>1
  <2>3. [gwWorld EXCEPT !.live = gwWorld.live \ {gwReq[r].by}] \in LaterWorlds
    BY <2>2, GatewayRows, Zenon
  <2> QED BY <1>4, <2>3, GatewayHandle DEF Logout
<1>5. CASE \E t \in GwTokens, scopes \in SUBSET (GwPermissions \cup {"*"}) : CreateAPIToken(r, t, scopes)
  <2>1. PICK t \in GwTokens, scopes \in SUBSET (GwPermissions \cup {"*"}) : CreateAPIToken(r, t, scopes)
    BY <1>5
  <2>2. [gwWorld EXCEPT !.live = gwWorld.live \cup {t}, !.scopes = [gwWorld.scopes EXCEPT ![t] = scopes]] \in LaterWorlds
    BY GatewayRows, Zenon
  <2> QED BY <2>1, <2>2, GatewayHandle DEF CreateAPIToken
<1>6. CASE \E t \in GwTokens : RevokeAPIToken(r, t)
  <2>1. PICK t \in GwTokens : RevokeAPIToken(r, t)
    BY <1>6
  <2>2. {t} \in SUBSET Credentials
    BY DEF Credentials
  <2>3. [gwWorld EXCEPT !.live = gwWorld.live \ {t}] \in LaterWorlds
    BY <2>2, GatewayRows, Zenon
  <2> QED BY <2>1, <2>3, GatewayHandle DEF RevokeAPIToken
<1> QED BY <1>1, <1>2, <1>3, <1>4, <1>5, <1>6

LEMMA GatewayInvariant ==
  ASSUME GatewayAssumption
  PROVE  GwSpec => []GwInv
<1>1. GwInit => GwInv
  <2> SUFFICES ASSUME GwInit PROVE GwInv
    OBVIOUS
  <2>1. NewRequest \in GwRows /\ NewRequest.at = "new" /\ NewRequest.op \in PublicOperations
    BY DEF NewRequest, GwRows, Stages, Operations, SystemOperations, NoCredential, Never, PublicOperations
  <2>2. gwWorld \in Worlds
    <3>1. PICK m, sc : m = [s \in GwSessions |-> Never] /\ sc = [t \in GwTokens |-> {}]
      OBVIOUS
    <3>2. m \in [GwSessions -> Nat \cup {Never}] /\ sc \in [GwTokens -> SUBSET (GwPermissions \cup {"*"})]
      BY <3>1
    <3>3. PICK must \in BOOLEAN, maxAge \in GwMaxAges :
            gwWorld = [active |-> TRUE, org |-> TRUE, must |-> must, changed |-> 0, maxAge |-> maxAge,
                       admin |-> FALSE, grants |-> {}, live |-> {}, mfa |-> m, scopes |-> sc, now |-> 0]
      BY <3>1 DEF GwInit
    <3> QED BY <3>2, <3>3 DEF Worlds
  <2>3. GwTypeOK
    BY <2>1, <2>2 DEF GwInit, GwTypeOK
  <2>4. \A r \in GwRequests : gwReq[r] = NewRequest
    BY DEF GwInit
  <2> QED BY <2>1, <2>3, <2>4 DEF GwInv, InSight, Facts
<1>2. GwInv /\ UNCHANGED gwVars => GwInv'
  BY DEF gwVars, GwInv, GwTypeOK, InSight
<1>3. GwInv /\ GwNext => GwInv'
  BY GatewayOthers, GatewayReceive, GatewayRefuse, GatewayCredential, GatewayMFA, GatewayRoles, GatewayPermissions,
     GatewayOrganization, GatewayPolicy, GatewayChecks, GatewayHandlers DEF GwNext
<1> QED BY <1>1, <1>2, <1>3, PTL DEF GwSpec

(***************************************************************************)
(* OnlyLiveCredentials and OnlyAsGranted: however roles, sessions, tokens   *)
(* and the organisation change between the statements of authn, csrf and    *)
(* authz, a handler runs only for somebody who was let in by rows that      *)
(* existed while the request was on its way.                                *)
(***************************************************************************)
THEOREM RequestsAreAuthorised ==
  ASSUME GatewayAssumption
  PROVE  GwSpec => [](GwTypeOK /\ OnlyLiveCredentials /\ OnlyAsGranted)
<1>1. ASSUME GwInv, NEW r \in GwRequests, Ran(r)
      PROVE  /\ \E w \in gwSeen[r] : gwReq[r].by \in w.live /\ w.active
             /\ \E w \in gwSeen[r] : w.org
  BY <1>1 DEF GwInv, Ran, Facts, WithRow, WithMFA, WithRoles, WithGrants, WithOrg, Resolved, Checked
<1>2. ASSUME GwInv, NEW r \in GwRequests, Ran(r), PlatformRules(gwReq[r].op) # {}
      PROVE  /\ \E w \in gwSeen[r] : w.admin \/ PlatformRules(gwReq[r].op) \cap w.grants # {}
             /\ gwReq[r].by \in GwTokens =>
                  \E w \in gwSeen[r] : \/ PlatformRules(gwReq[r].op) \subseteq w.scopes[gwReq[r].by]
                                       \/ "*" \in w.scopes[gwReq[r].by]
  <2> DEFINE q == gwReq[r]
             rules == PlatformRules(q.op)
  <2>1. /\ HasPermission(q, rules)
        /\ q.admin => \E w \in gwSeen[r] : w.admin
        /\ q.grants # {} => \E w \in gwSeen[r] : q.grants = w.grants
        /\ q.by \in GwTokens => \E w \in gwSeen[r] : q.scopes = w.scopes[q.by]
    BY <1>2 DEF GwInv, Ran, Facts, WithRow, WithMFA, WithRoles, WithGrants, WithOrg, Resolved, Checked
  <2>2. q.admin \/ rules \cap q.grants # {}
    BY <2>1 DEF HasPermission
  <2>3. q.by \in GwTokens => rules \subseteq q.scopes \/ "*" \in q.scopes
    BY <2>1 DEF HasPermission
  <2> QED BY <2>1, <2>2, <2>3
<1>3. GwInv => GwTypeOK /\ OnlyLiveCredentials /\ OnlyAsGranted
  BY <1>1, <1>2 DEF GwInv, OnlyLiveCredentials, OnlyAsGranted
<1> QED BY <1>3, GatewayInvariant, PTL

(***************************************************************************)
(* OnlySteppedUp and OnlyWithCurrentPassword: RequireRecentMFA judges what  *)
(* authn read; a row that demands a change, or a password past the limit of *)
(* the policy read after it, lets nothing but the three operations through, *)
(* however passwords are reset and policies changed between the two reads.  *)
(***************************************************************************)
THEOREM RequestsAreSteppedUp ==
  ASSUME GatewayAssumption
  PROVE  GwSpec => [](OnlySteppedUp /\ OnlyWithCurrentPassword)
<1>1. ASSUME GwInv, NEW r \in GwRequests, Ran(r), gwReq[r].op \in SteppedUpOperations
      PROVE  /\ gwReq[r].by \in GwSessions
             /\ \E w \in gwSeen[r] : /\ w.mfa[gwReq[r].by] # Never
                                     /\ gwReq[r].when - w.mfa[gwReq[r].by] \in 0..MfaWindow
  <2>1. /\ gwReq[r].by \in Credentials
        /\ gwReq[r].by \in GwSessions => \E w \in gwSeen[r] : gwReq[r].mfa = w.mfa[gwReq[r].by]
        /\ gwReq[r].by \in GwTokens => gwReq[r].mfa = Never
        /\ gwReq[r].mfa # Never /\ gwReq[r].when - gwReq[r].mfa \in 0..MfaWindow
    BY <1>1 DEF GwInv, Ran, Facts, WithRow, WithMFA, WithRoles, WithGrants, WithOrg, Resolved, Checked
  <2> QED BY <2>1 DEF Credentials
<1>2. ASSUME GwInv, NEW r \in GwRequests, Ran(r),
             gwReq[r].op \notin AllowedBeforePasswordChange \/ gwReq[r].by \in GwTokens
      PROVE  /\ \E row, later \in gwSeen[r] :
                  /\ gwReq[r].by \in row.live /\ row.active /\ ~row.must
                  /\ row.now <= later.now /\ ~PasswordExpired(row.changed, later.maxAge, later.now)
             /\ (\A v, w \in gwSeen[r] : v.maxAge = w.maxAge) => \E w \in gwSeen[r] : ~Due(w)
  <2>1. PICK row \in gwSeen[r], later \in gwSeen[r] :
               /\ gwReq[r].by \in row.live /\ row.active /\ ~row.must /\ row.now <= later.now
               /\ ~PasswordExpired(row.changed, later.maxAge, later.now)
    BY <1>2 DEF GwInv, Ran, Facts, WithRow, WithMFA, WithRoles, WithGrants, WithOrg, Resolved, Checked
  <2>2. row \in Worlds /\ later \in Worlds
    BY <1>2 DEF GwInv, GwTypeOK
  <2>3. row.now \in Nat /\ row.changed \in Nat /\ later.now \in Nat /\ later.maxAge \in Nat
    BY <2>2 DEF Worlds, GatewayAssumption
  <2>4. row.maxAge = later.maxAge => ~Due(row)
    BY <2>1, <2>3 DEF Due, PasswordExpired
  <2> QED BY <2>1, <2>4
<1>3. GwInv => OnlySteppedUp /\ OnlyWithCurrentPassword
  BY <1>1, <1>2 DEF OnlySteppedUp, OnlyWithCurrentPassword
<1> QED BY <1>3, GatewayInvariant, PTL

-----------------------------------------------------------------------------
LEMMA SmallRemainder ==
  ASSUME NEW y \in Nat, NEW d \in Nat, y < d
  PROVE  y % d = y
OBVIOUS

LEMMA ExactQuotient ==
  ASSUME NEW v \in Nat, NEW d \in Nat \ {0}
  PROVE  (v * d) \div d = v
OBVIOUS

LEMMA QuotientBounds ==
  ASSUME NEW x \in Nat, NEW d \in Nat \ {0}
  PROVE  x \div d \in Nat /\ (x \div d) * d <= x /\ x < ((x \div d) + 1) * d
OBVIOUS

LEMMA WrapIdentity ==
  ASSUME SettingsAssumption, NEW x \in Int, -HalfRange <= x, x < HalfRange
  PROVE  Wrap(x) = x
<1>1. x + HalfRange \in Nat /\ 2 * HalfRange \in Nat /\ x + HalfRange < 2 * HalfRange
  BY DEF SettingsAssumption
<1>2. (x + HalfRange) % (2 * HalfRange) = x + HalfRange
  BY <1>1, SmallRemainder
<1> QED BY <1>2 DEF Wrap, SettingsAssumption

LEMMA Monotone ==
  ASSUME NEW a \in Int, NEW b \in Int, NEW d \in Nat, a <= b
  PROVE  a * d <= b * d
OBVIOUS

-----------------------------------------------------------------------------
(* The rows and the administrator of Bootstrap.                             *)

\* What a Bootstrap that has come to row stRow[r] has left behind.
RowsEnsured ==
  \A r \in Replicas :
    stPc[r] \in Booting \ {"ready", "registerGrpc", "rollback"} =>
      \A i \in (1..SeedRows) \ SeedGrants : i < stRow[r] => Present(i)

AtTheFirstRow == \A r \in Replicas : stPc[r] \in Opening => stRow[r] = 1

\* What a replica holds at each place.
HeldAt(s) ==
  CASE s = "trace"                                    -> {}
    [] s = "database"                                 -> {"trace"}
    [] s \in {"migrate", "cache"}                     -> {"trace", "database"}
    [] s = "bus"                                      -> {"trace", "database", "cache"}
    [] OTHER                                          -> {"trace", "database", "cache", "bus"}

HeldInPlace ==
  \A r \in Replicas :
    /\ stPc[r] \notin {"down", "ended"} => stHeld[r] = HeldAt(stPc[r])
    /\ stPc[r] = "ended" => stHeld[r] \subseteq {"trace"}
    /\ stPc[r] = "registerGrpc" => "http" \in stEndpoints[r]
    /\ stPc[r] = "up" => stEndpoints[r] = BothEndpoints /\ stFlag[r]

StShape ==
  /\ stPc \in [Replicas -> StPlaces]
  /\ stRow \in [Replicas -> 1..SeedRows]
  /\ stRows \in [1..SeedRows -> {"absent", "seeded", "edited"}]
  /\ stAdmin \in {"absent", "plain", "admin"}
  /\ stSeen \in [Replicas -> SUBSET PolicyFields]
  /\ stFlag \in [Replicas -> BOOLEAN]
  /\ stCut \in BOOLEAN

StResources ==
  /\ stHeld \in [Replicas -> SUBSET {"trace", "database", "cache", "bus"}]
  /\ stEndpoints \in [Replicas -> SUBSET BothEndpoints]

LEMMA StepsPlace ==
  ASSUME StartupAssumption, StShape, NEW r \in Replicas,
         \/ Launch(r) \/ OpenResource(r) \/ FailToOpen(r)
         \/ EnsureRead(r) \/ EnsureNothingToGrant(r) \/ EnsureInsert(r) \/ EnsureReread(r)
  PROVE  StShape' /\ UNCHANGED <<stAdmin, stSeen, stStored, stCut>>
<1> USE DEF StShape
<1>1. CASE Launch(r)
  BY <1>1 DEF Launch, StPlaces, Opening, StartupAssumption
<1>2. CASE OpenResource(r)
  <2>1. NextStage(stPc[r]) \in StPlaces
    BY <1>2 DEF OpenResource, NextStage, StPlaces, Opening, Booting
  <2> QED BY <1>2, <2>1 DEF OpenResource
<1>3. CASE FailToOpen(r)
  BY <1>3 DEF FailToOpen, StPlaces
<1>4. AfterRow(r) \in StPlaces /\ (stRow[r] < SeedRows => stRow[r] + 1 \in 1..SeedRows)
  BY DEF AfterRow, StPlaces, Booting, StartupAssumption
<1>5. {"insert", "reread", "down"} \subseteq StPlaces
  BY DEF StPlaces, Booting
<1>6. Advance(r) => stPc' \in [Replicas -> StPlaces] /\ stRow' \in [Replicas -> 1..SeedRows]
  BY <1>4 DEF Advance
<1>7. CASE EnsureRead(r)
  BY <1>5, <1>6, <1>7 DEF EnsureRead
<1>8. CASE EnsureNothingToGrant(r)
  BY <1>5, <1>8 DEF EnsureNothingToGrant
<1>9. CASE EnsureInsert(r)
  BY <1>5, <1>6, <1>9 DEF EnsureInsert
<1>10. CASE EnsureReread(r)
  BY <1>5, <1>6, <1>10 DEF EnsureReread
<1> QED BY <1>1, <1>2, <1>3, <1>7, <1>8, <1>9, <1>10

LEMMA StepsBoot ==
  ASSUME StartupAssumption, StShape, NEW r \in Replicas,
         \/ LookupAdmin(r) \/ CreateAdmin(r) \/ RereadAdmin(r) \/ GrantAdminRole(r)
         \/ ReadStored(r) \/ WriteStored(r) \/ BreakOff(r)
         \/ RegisterFirst(r) \/ RegisterSecond(r) \/ RollbackRegistration(r)
         \/ StopServing(r) \/ DeregisterEndpoints(r) \/ CloseAll(r),
         DOMAIN stStored \subseteq PolicyFields
  PROVE  StShape' /\ UNCHANGED <<stRow, stRows>>
<1> USE DEF StShape
<1>1. {"create", "settings", "grant", "again", "down", "grantOnly", "ready", "write",
       "registerGrpc", "stopping", "up", "rollback", "ended"} \subseteq StPlaces
  BY DEF StPlaces, Booting
<1>2. CASE LookupAdmin(r)
  BY <1>1, <1>2 DEF LookupAdmin
<1>3. CASE CreateAdmin(r)
  BY <1>1, <1>3 DEF CreateAdmin
<1>4. CASE RereadAdmin(r)
  BY <1>1, <1>4 DEF RereadAdmin
<1>5. CASE GrantAdminRole(r)
  BY <1>1, <1>5 DEF GrantAdminRole
<1>6. CASE ReadStored(r)
  BY <1>1, <1>6 DEF ReadStored
<1>7. CASE WriteStored(r)
  BY <1>1, <1>7 DEF WriteStored
<1>8. CASE BreakOff(r)
  BY <1>1, <1>8 DEF BreakOff
<1>9. CASE RegisterFirst(r)
  BY <1>1, <1>9 DEF RegisterFirst
<1>10. CASE RegisterSecond(r)
  BY <1>1, <1>10 DEF RegisterSecond
<1>11. CASE RollbackRegistration(r)
  BY <1>1, <1>11 DEF RollbackRegistration
<1>12. CASE StopServing(r)
  BY <1>1, <1>12 DEF StopServing
<1>13. CASE DeregisterEndpoints(r)
  <2>1. stPc' = stPc /\ stRow' = stRow /\ stRows' = stRows /\ stAdmin' = stAdmin /\ stSeen' = stSeen /\ stCut' = stCut
    BY <1>13 DEF DeregisterEndpoints
  <2>2. PICK b \in BOOLEAN : stFlag' = [stFlag EXCEPT ![r] = b]
    BY <1>13, Zenon DEF DeregisterEndpoints
  <2>3. stFlag' \in [Replicas -> BOOLEAN]
    BY <2>2
  <2> QED BY <2>1, <2>3
<1>14. CASE CloseAll(r)
  BY <1>1, <1>14 DEF CloseAll
<1> QED BY <1>2, <1>3, <1>4, <1>5, <1>6, <1>7, <1>8, <1>9, <1>10, <1>11, <1>12, <1>13, <1>14

\* An Ensure call that goes on to the next row leaves its own row present.
LEMMA EnsureKeepsRows ==
  ASSUME StartupAssumption, StShape, RowsEnsured, NEW r \in Replicas,
         EnsureRead(r) \/ EnsureNothingToGrant(r) \/ EnsureInsert(r) \/ EnsureReread(r)
  PROVE  RowsEnsured'
<1> SUFFICES ASSUME NEW o \in Replicas,
                    stPc'[o] \in Booting \ {"ready", "registerGrpc", "rollback"},
                    NEW i \in (1..SeedRows) \ SeedGrants, i < stRow'[o]
             PROVE  Present(i)'
  BY DEF RowsEnsured
<1>1. \A j \in 1..SeedRows : Present(j) => Present(j)'
  BY DEF EnsureRead, EnsureNothingToGrant, EnsureInsert, EnsureReread, Present, StShape
<1>2. CASE o # r
  <2>1. stPc'[o] = stPc[o] /\ stRow'[o] = stRow[o]
    BY <1>2 DEF EnsureRead, EnsureNothingToGrant, EnsureInsert, EnsureReread, Advance, StShape
  <2> QED BY <1>1, <2>1 DEF RowsEnsured
<1>3. CASE o = r
  <2>1. stPc[r] \in Booting \ {"ready", "registerGrpc", "rollback"}
    BY DEF EnsureRead, EnsureNothingToGrant, EnsureInsert, EnsureReread, Booting
  <2>2. CASE stRow'[r] = stRow[r]
    BY <1>1, <1>3, <2>1, <2>2 DEF RowsEnsured
  <2>3. CASE stRow'[r] # stRow[r]
    <3>1. stRows'[stRow[r]] # "absent"
      BY <2>3 DEF EnsureRead, EnsureNothingToGrant, EnsureInsert, EnsureReread, Present, StShape
    <3>2. stRow'[r] = stRow[r] + 1
      BY <2>3 DEF EnsureRead, EnsureNothingToGrant, EnsureInsert, EnsureReread, Advance, StShape
    <3>3. i < stRow[r] \/ i = stRow[r]
      BY <1>3, <3>2 DEF StShape, StartupAssumption
    <3> QED BY <1>1, <2>1, <3>1, <3>3 DEF RowsEnsured, Present
  <2> QED BY <2>2, <2>3
<1> QED BY <1>2, <1>3

\* The rows and the account that Bootstrap makes.
StSeeds == StShape /\ RowsEnsured /\ AtTheFirstRow /\ AdminGetsRole /\ DOMAIN stStored \subseteq PolicyFields

LEMMA SeedsInit == StartupAssumption /\ StInit => StSeeds
<1> SUFFICES ASSUME StartupAssumption, StInit PROVE StSeeds
  OBVIOUS
<1>1. "down" \in StPlaces /\ "down" \notin Booting /\ "down" \notin Opening
  BY DEF StPlaces, Booting, Opening
<1>2. 1 \in 1..SeedRows
  BY DEF StartupAssumption
<1>3. StShape
  BY <1>1, <1>2 DEF StInit, StShape
<1>4. DOMAIN stStored = {}
  BY DEF StInit
<1> QED BY <1>1, <1>3, <1>4 DEF StInit, StSeeds, RowsEnsured, AtTheFirstRow, AdminGetsRole

LEMMA SeedsStep ==
  ASSUME StartupAssumption, StSeeds, StNext
  PROVE  StSeeds'
<1> USE DEF StSeeds
<1> DEFINE Early == Booting \ {"ready", "registerGrpc", "rollback"}
<1>1. ASSUME NEW r \in Replicas, EnsureRead(r) \/ EnsureNothingToGrant(r) \/ EnsureInsert(r) \/ EnsureReread(r)
      PROVE  StSeeds'
  <2>1. StShape' /\ UNCHANGED <<stAdmin, stSeen, stStored, stCut>>
    BY <1>1, StepsPlace
  <2>2. \A o \in Replicas : stPc[o] \in {"grant", "grantOnly"} => stPc'[o] = stPc[o]
    BY <1>1 DEF EnsureRead, EnsureNothingToGrant, EnsureInsert, EnsureReread, Advance, StShape
  <2>3. AdminGetsRole'
    BY <2>1, <2>2 DEF AdminGetsRole
  <2>4. AfterRow(r) \notin Opening /\ {"insert", "reread", "down"} \cap Opening = {}
    BY DEF AfterRow, Opening
  <2>5. AtTheFirstRow'
    BY <1>1, <2>4 DEF AtTheFirstRow, EnsureRead, EnsureNothingToGrant, EnsureInsert, EnsureReread, Advance, StShape
  <2> QED BY <1>1, <2>1, <2>3, <2>5, EnsureKeepsRows
<1>2. ASSUME NEW r \in Replicas, Launch(r) \/ OpenResource(r) \/ FailToOpen(r)
      PROVE  StSeeds'
  <2>1. StShape' /\ UNCHANGED <<stAdmin, stSeen, stStored, stCut, stRows>>
    BY <1>2, StepsPlace DEF Launch, OpenResource, FailToOpen
  <2>2. \A o \in Replicas : o # r => stPc'[o] = stPc[o] /\ stRow'[o] = stRow[o]
    BY <1>2 DEF Launch, OpenResource, FailToOpen, StShape
  <2>3. stPc[r] \notin {"grant", "grantOnly"}
    BY <1>2 DEF Launch, OpenResource, FailToOpen, Opening
  <2>4. stRow'[r] = 1 \/ stPc'[r] = "ended"
    BY <1>2 DEF Launch, OpenResource, FailToOpen, StShape, AtTheFirstRow
  <2>5. "ended" \notin Booting /\ "ended" \notin Opening
    BY DEF Booting, Opening
  <2>6. AtTheFirstRow'
    BY <2>2, <2>4, <2>5 DEF AtTheFirstRow
  <2>7. RowsEnsured'
    BY <2>1, <2>2, <2>4, <2>5 DEF RowsEnsured, Present
  <2>8. AdminGetsRole'
    BY <2>1, <2>2, <2>3 DEF AdminGetsRole
  <2> QED BY <2>1, <2>6, <2>7, <2>8
<1>3. ASSUME NEW r \in Replicas,
             \/ LookupAdmin(r) \/ CreateAdmin(r) \/ RereadAdmin(r) \/ GrantAdminRole(r)
             \/ ReadStored(r) \/ WriteStored(r) \/ BreakOff(r)
             \/ RegisterFirst(r) \/ RegisterSecond(r) \/ RollbackRegistration(r)
             \/ StopServing(r) \/ DeregisterEndpoints(r) \/ CloseAll(r)
      PROVE  StSeeds'
  <2>1. StShape' /\ UNCHANGED <<stRow, stRows>>
    BY <1>3, StepsBoot
  <2>2. \A o \in Replicas : o # r => stPc'[o] = stPc[o]
    BY <1>3 DEF LookupAdmin, CreateAdmin, RereadAdmin, GrantAdminRole, ReadStored, WriteStored, BreakOff,
         RegisterFirst, RegisterSecond, RollbackRegistration, StopServing, DeregisterEndpoints, CloseAll, StShape
  <2>3. stPc'[r] \notin Opening /\ (stPc'[r] \in Early => stPc[r] \in Early)
    BY <1>3 DEF LookupAdmin, CreateAdmin, RereadAdmin, GrantAdminRole, ReadStored, WriteStored, BreakOff,
         RegisterFirst, RegisterSecond, RollbackRegistration, StopServing, DeregisterEndpoints, CloseAll, StShape,
         Opening, Booting
  <2>4. AtTheFirstRow' /\ RowsEnsured'
    BY <2>1, <2>2, <2>3 DEF AtTheFirstRow, RowsEnsured, Present
  <2>5. stAdmin' = "plain" => stCut' \/ \E o \in Replicas : stPc'[o] \in {"grant", "grantOnly"}
    <3>1. CASE stAdmin' # stAdmin
      BY <1>3, <3>1 DEF LookupAdmin, CreateAdmin, RereadAdmin, GrantAdminRole, ReadStored, WriteStored, BreakOff,
         RegisterFirst, RegisterSecond, RollbackRegistration, StopServing, DeregisterEndpoints, CloseAll, StShape
    <3>2. CASE stAdmin' = stAdmin
      <4>1. stAdmin = "plain" /\ stPc[r] \in {"grant", "grantOnly"} => stCut'
        BY <1>3, <3>2 DEF LookupAdmin, CreateAdmin, RereadAdmin, GrantAdminRole, ReadStored, WriteStored, BreakOff,
           RegisterFirst, RegisterSecond, RollbackRegistration, StopServing, DeregisterEndpoints, CloseAll, StShape
      <4>2. stCut => stCut'
        BY <1>3 DEF LookupAdmin, CreateAdmin, RereadAdmin, GrantAdminRole, ReadStored, WriteStored, BreakOff,
           RegisterFirst, RegisterSecond, RollbackRegistration, StopServing, DeregisterEndpoints, CloseAll, StShape
      <4> QED BY <2>2, <3>2, <4>1, <4>2 DEF AdminGetsRole
    <3> QED BY <3>1, <3>2
  <2>6. DOMAIN stStored' \subseteq PolicyFields
    BY <1>3 DEF LookupAdmin, CreateAdmin, RereadAdmin, GrantAdminRole, ReadStored, WriteStored, BreakOff, Upserted,
         RegisterFirst, RegisterSecond, RollbackRegistration, StopServing, DeregisterEndpoints, CloseAll
  <2> QED BY <2>1, <2>4, <2>5, <2>6 DEF AdminGetsRole
<1>4. ASSUME NEW r \in Replicas, NEW p \in StPolicies, ChangePolicy(r, p)
      PROVE  StSeeds'
  <2>1. DOMAIN stStored' \subseteq PolicyFields
    BY <1>4 DEF ChangePolicy, Upserted, StPolicies
  <2> QED BY <1>4, <2>1 DEF ChangePolicy, StShape, RowsEnsured, AtTheFirstRow, AdminGetsRole, Present
<1>5. ASSUME NEW i \in 1..SeedRows, EditRow(i) \/ RevokeGrant(i)
      PROVE  StSeeds'
  <2>1. /\ stRows' \in [1..SeedRows -> {"absent", "seeded", "edited"}]
        /\ \A j \in (1..SeedRows) \ SeedGrants : Present(j) => Present(j)'
        /\ UNCHANGED <<stPc, stRow, stHeld, stAdmin, stSeen, stStored, stEndpoints, stFlag, stCut>>
    BY <1>5 DEF EditRow, RevokeGrant, Present, StShape
  <2> QED BY <2>1 DEF StShape, RowsEnsured, AtTheFirstRow, AdminGetsRole
<1>6. ASSUME NEW r \in Replicas, MissHeartbeats(r)
      PROVE  StSeeds'
  BY <1>6 DEF MissHeartbeats, StShape, RowsEnsured, AtTheFirstRow, AdminGetsRole, Present
<1> QED BY <1>1, <1>2, <1>3, <1>4, <1>5, <1>6 DEF StNext

-----------------------------------------------------------------------------
(* The resources and the registration.                                      *)

StHeldInv == stPc \in [Replicas -> StPlaces] /\ StResources /\ HeldInPlace

\* A step that leaves what replica r holds, and moves it to a place with the same resources.
LEMMA SameHeld ==
  ASSUME StHeldInv, NEW r \in Replicas, stPc[r] \in StPlaces \ (Opening \cup {"down", "ended"}),
         NEW s \in {"down", "stopping"} \cup (Booting \ {"registerGrpc"}),
         stPc' = [stPc EXCEPT ![r] = s], UNCHANGED stHeld,
         stEndpoints' \in [Replicas -> SUBSET BothEndpoints],
         \A o \in Replicas : o # r => stEndpoints'[o] = stEndpoints[o] /\ stFlag'[o] = stFlag[o]
  PROVE  StHeldInv'
<1>1. s \in StPlaces /\ s \notin {"ended", "up", "registerGrpc"} /\ (s = "down" \/ s \notin Opening)
  BY DEF StPlaces, Opening, Booting
<1>2. stHeld[r] = HeldAt(stPc[r]) /\ (s # "down" => HeldAt(s) = HeldAt(stPc[r]))
  BY <1>1 DEF StHeldInv, HeldInPlace, HeldAt, Opening
<1>3. stPc' \in [Replicas -> StPlaces] /\ stPc'[r] = s /\ \A o \in Replicas : o # r => stPc'[o] = stPc[o]
  BY <1>1 DEF StHeldInv
<1>4. ASSUME NEW o \in Replicas
      PROVE  /\ stPc'[o] \notin {"down", "ended"} => stHeld'[o] = HeldAt(stPc'[o])
             /\ stPc'[o] = "ended" => stHeld'[o] \subseteq {"trace"}
             /\ stPc'[o] = "registerGrpc" => "http" \in stEndpoints'[o]
             /\ stPc'[o] = "up" => stEndpoints'[o] = BothEndpoints /\ stFlag'[o]
  <2>1. CASE o = r
    BY <1>1, <1>2, <1>3, <2>1
  <2>2. CASE o # r
    BY <1>3, <2>2 DEF StHeldInv, HeldInPlace
  <2> QED BY <2>1, <2>2
<1> QED BY <1>3, <1>4 DEF StHeldInv, StResources, HeldInPlace

LEMMA HeldInit == StInit => StHeldInv
BY DEF StInit, StHeldInv, StResources, HeldInPlace, StPlaces

LEMMA HeldOpening ==
  ASSUME StHeldInv, NEW r \in Replicas, Launch(r) \/ OpenResource(r) \/ FailToOpen(r),
         stFlag \in [Replicas -> BOOLEAN]
  PROVE  StHeldInv'
<1>1. /\ \A o \in Replicas : o # r => stPc'[o] = stPc[o] /\ stHeld'[o] = stHeld[o] /\ stFlag'[o] = stFlag[o]
      /\ UNCHANGED stEndpoints
  BY DEF StHeldInv, StResources, Launch, OpenResource, FailToOpen
<1>2. stPc'[r] \in StPlaces /\ stHeld'[r] \in SUBSET {"trace", "database", "cache", "bus"}
      /\ (stPc'[r] # "ended" => stHeld'[r] = HeldAt(stPc'[r]))
      /\ (stPc'[r] = "ended" => stHeld'[r] \subseteq {"trace"})
      /\ stPc'[r] \notin {"registerGrpc", "up"}
  <2>1. CASE Launch(r)
    BY <2>1 DEF Launch, StHeldInv, StResources, HeldAt, StPlaces, Opening
  <2>2. CASE OpenResource(r)
    <3>1. stPc[r] \in Opening /\ stHeld[r] = HeldAt(stPc[r])
      BY <2>2 DEF OpenResource, StHeldInv, HeldInPlace, Opening
    <3>2. stPc'[r] = NextStage(stPc[r]) /\ stHeld'[r] = stHeld[r] \cup OpenedBy(stPc[r])
      BY <2>2 DEF OpenResource, StHeldInv, StResources
    <3>3. \A s \in Opening : /\ NextStage(s) \in StPlaces \ {"ended", "registerGrpc", "up"}
                             /\ HeldAt(s) \cup OpenedBy(s) = HeldAt(NextStage(s))
      BY DEF Opening, Booting, StPlaces, NextStage, HeldAt, OpenedBy
    <3>4. \A s \in StPlaces : HeldAt(s) \in SUBSET {"trace", "database", "cache", "bus"}
      BY DEF HeldAt
    <3> QED BY <3>1, <3>2, <3>3, <3>4
  <2>3. CASE FailToOpen(r)
    <3>1. stPc[r] \in Opening /\ stHeld[r] = HeldAt(stPc[r])
      BY <2>3 DEF FailToOpen, StHeldInv, HeldInPlace, Opening
    <3>2. stPc'[r] = "ended" /\ stHeld'[r] = stHeld[r] \ ClosedOnFailure(stPc[r])
      BY <2>3 DEF FailToOpen, StHeldInv, StResources
    <3>3. \A s \in Opening : HeldAt(s) \ ClosedOnFailure(s) \subseteq {"trace"}
      BY DEF Opening, HeldAt, ClosedOnFailure
    <3> QED BY <3>1, <3>2, <3>3 DEF StPlaces
  <2> QED BY <2>1, <2>2, <2>3
<1>3. stPc' \in [Replicas -> StPlaces] /\ stHeld' \in [Replicas -> SUBSET {"trace", "database", "cache", "bus"}]
  BY <1>1, <1>2 DEF StHeldInv, StResources, Launch, OpenResource, FailToOpen
<1>4. HeldInPlace'
  BY <1>1, <1>2 DEF StHeldInv, HeldInPlace
<1> QED BY <1>1, <1>3, <1>4 DEF StHeldInv, StResources

LEMMA HeldSeeding ==
  ASSUME StHeldInv, NEW r \in Replicas,
         \/ EnsureRead(r) \/ EnsureNothingToGrant(r) \/ EnsureInsert(r) \/ EnsureReread(r)
         \/ LookupAdmin(r) \/ CreateAdmin(r) \/ RereadAdmin(r) \/ GrantAdminRole(r)
         \/ ReadStored(r) \/ WriteStored(r)
  PROVE  StHeldInv'
<1>1. UNCHANGED <<stHeld, stEndpoints, stFlag>>
  BY DEF EnsureRead, EnsureNothingToGrant, EnsureInsert, EnsureReread, LookupAdmin, CreateAdmin, RereadAdmin,
         GrantAdminRole, ReadStored, WriteStored
<1>2. stPc[r] \in StPlaces \ (Opening \cup {"down", "ended"})
  BY DEF EnsureRead, EnsureNothingToGrant, EnsureInsert, EnsureReread, LookupAdmin, CreateAdmin, RereadAdmin,
         GrantAdminRole, ReadStored, WriteStored, StPlaces, Booting, Opening
<1>3. AfterRow(r) \in Booting \ {"registerGrpc"}
      /\ {"insert", "reread", "settings", "create", "grant", "again", "grantOnly", "write", "ready"}
           \subseteq Booting \ {"registerGrpc"}
  BY DEF AfterRow, Booting
<1>4. PICK s \in {"down", "stopping"} \cup (Booting \ {"registerGrpc"}) :
        stPc' = [stPc EXCEPT ![r] = s]
  <2>1. CASE EnsureRead(r) \/ EnsureNothingToGrant(r) \/ EnsureInsert(r) \/ EnsureReread(r)
    BY <1>3, <2>1 DEF EnsureRead, EnsureNothingToGrant, EnsureInsert, EnsureReread, Advance
  <2>2. CASE LookupAdmin(r) \/ CreateAdmin(r) \/ RereadAdmin(r)
    BY <1>3, <2>2 DEF LookupAdmin, CreateAdmin, RereadAdmin
  <2>3. CASE GrantAdminRole(r) \/ ReadStored(r) \/ WriteStored(r)
    BY <1>3, <2>3 DEF GrantAdminRole, ReadStored, WriteStored, StHeldInv
  <2> QED BY <2>1, <2>2, <2>3
<1>5. stEndpoints' \in [Replicas -> SUBSET BothEndpoints]
  BY <1>1 DEF StHeldInv, StResources
<1> QED BY <1>1, <1>2, <1>4, <1>5, SameHeld

LEMMA HeldServing ==
  ASSUME StHeldInv, NEW r \in Replicas,
         \/ BreakOff(r) \/ RegisterFirst(r) \/ RegisterSecond(r) \/ RollbackRegistration(r)
         \/ StopServing(r) \/ DeregisterEndpoints(r) \/ CloseAll(r),
         stFlag \in [Replicas -> BOOLEAN]
  PROVE  StHeldInv'
<1>1. stPc[r] \in StPlaces \ (Opening \cup {"down", "ended"})
  BY DEF BreakOff, RegisterFirst, RegisterSecond, RollbackRegistration, StopServing, DeregisterEndpoints, CloseAll,
         StPlaces, Booting, Opening
<1>2. stEndpoints' \in [Replicas -> SUBSET BothEndpoints]
  <2>1. stEndpoints \in [Replicas -> SUBSET BothEndpoints] /\ stEndpoints[r] \subseteq BothEndpoints
    BY DEF StHeldInv, StResources
  <2>2. CASE BreakOff(r) \/ StopServing(r) \/ CloseAll(r)
    BY <2>1, <2>2 DEF BreakOff, StopServing, CloseAll
  <2>3. CASE RegisterFirst(r)
    <3>1. PICK e \in SUBSET BothEndpoints : stEndpoints' = [stEndpoints EXCEPT ![r] = e]
      BY <2>1, <2>3 DEF RegisterFirst, BothEndpoints
    <3> QED BY <2>1, <3>1
  <2>4. CASE RegisterSecond(r)
    <3>1. PICK e \in SUBSET BothEndpoints : stEndpoints' = [stEndpoints EXCEPT ![r] = e]
      BY <2>1, <2>4 DEF RegisterSecond, BothEndpoints
    <3> QED BY <2>1, <3>1
  <2>5. CASE RollbackRegistration(r)
    BY <2>1, <2>5 DEF RollbackRegistration
  <2>6. CASE DeregisterEndpoints(r)
    <3>1. PICK e \in SUBSET stEndpoints[r] : stEndpoints' = [stEndpoints EXCEPT ![r] = e]
      BY <2>6, Zenon DEF DeregisterEndpoints
    <3> QED BY <2>1, <3>1
  <2> QED BY <2>2, <2>3, <2>4, <2>5, <2>6
<1>3. \A o \in Replicas : o # r => stEndpoints'[o] = stEndpoints[o] /\ stFlag'[o] = stFlag[o]
  <2>1. \A o \in Replicas : o # r => stEndpoints'[o] = stEndpoints[o]
    BY DEF BreakOff, RegisterFirst, RegisterSecond, RollbackRegistration, StopServing, DeregisterEndpoints, CloseAll,
           StHeldInv, StResources
  <2>2. UNCHANGED stFlag \/ \E b \in BOOLEAN : stFlag' = [stFlag EXCEPT ![r] = b]
    BY ZenonT(30) DEF BreakOff, RegisterFirst, RegisterSecond, RollbackRegistration, StopServing, DeregisterEndpoints, CloseAll
  <2> QED BY <2>1, <2>2 DEF StHeldInv, StResources
<1>0. "rollback" \in Booting \ {"registerGrpc"}
  BY DEF Booting
<1>4. CASE \E s \in {"down", "stopping", "rollback"} : stPc' = [stPc EXCEPT ![r] = s] /\ UNCHANGED stHeld
  BY <1>0, <1>1, <1>2, <1>3, <1>4, SameHeld
<1>5. CASE RegisterFirst(r) /\ stPc' = [stPc EXCEPT ![r] = "registerGrpc"]
           /\ stEndpoints' = [stEndpoints EXCEPT ![r] = @ \cup {"http"}]
  <2>1. stHeld' = stHeld /\ stHeld[r] = HeldAt(stPc[r]) /\ HeldAt(stPc[r]) = HeldAt("registerGrpc")
    BY <1>1, <1>5 DEF RegisterFirst, StHeldInv, HeldInPlace, HeldAt, Opening
  <2>2. stPc'[r] = "registerGrpc" /\ "http" \in stEndpoints'[r] /\ \A o \in Replicas : o # r => stPc'[o] = stPc[o]
    BY <1>5 DEF StHeldInv, StResources
  <2>3. stPc' \in [Replicas -> StPlaces]
    BY <1>5 DEF StHeldInv, StPlaces, Booting
  <2>4. HeldInPlace'
    BY <1>3, <2>1, <2>2 DEF StHeldInv, HeldInPlace
  <2> QED BY <1>2, <2>1, <2>3, <2>4 DEF StHeldInv, StResources
<1>6. CASE /\ RegisterSecond(r) /\ stPc' = [stPc EXCEPT ![r] = "up"]
           /\ stEndpoints' = [stEndpoints EXCEPT ![r] = @ \cup {"grpc"}] /\ stFlag' = [stFlag EXCEPT ![r] = TRUE]
  <2>1. stHeld' = stHeld /\ stHeld[r] = HeldAt(stPc[r]) /\ HeldAt(stPc[r]) = HeldAt("up")
    BY <1>1, <1>6 DEF RegisterSecond, StHeldInv, HeldInPlace, HeldAt, Opening
  <2>2. stPc'[r] = "up" /\ stEndpoints'[r] = BothEndpoints /\ \A o \in Replicas : o # r => stPc'[o] = stPc[o]
    <3>1. stPc[r] = "registerGrpc" /\ stEndpoints'[r] = stEndpoints[r] \cup {"grpc"}
      BY <1>6 DEF RegisterSecond, StHeldInv, StResources
    <3>2. "http" \in stEndpoints[r] /\ stEndpoints[r] \subseteq BothEndpoints
      BY <3>1 DEF StHeldInv, StResources, HeldInPlace
    <3> QED BY <1>6, <3>1, <3>2 DEF StHeldInv, StResources, BothEndpoints
  <2>3. stPc' \in [Replicas -> StPlaces] /\ stFlag'[r]
    BY <1>6 DEF StHeldInv, StPlaces, Booting
  <2>4. HeldInPlace'
    BY <1>3, <2>1, <2>2, <2>3 DEF StHeldInv, HeldInPlace
  <2> QED BY <1>2, <2>1, <2>3, <2>4 DEF StHeldInv, StResources
<1>7. CASE DeregisterEndpoints(r)
  <2>1. stPc' = stPc /\ stHeld' = stHeld /\ stPc[r] = "stopping"
    BY <1>7 DEF DeregisterEndpoints
  <2>2. HeldInPlace'
    BY <1>3, <2>1 DEF StHeldInv, HeldInPlace
  <2> QED BY <1>2, <2>1, <2>2 DEF StHeldInv, StResources
<1>8. CASE CloseAll(r)
  <2>1. stPc'[r] = "ended" /\ stHeld'[r] = {} /\ stHeld' \in [Replicas -> SUBSET {"trace", "database", "cache", "bus"}]
    BY <1>8 DEF CloseAll, StHeldInv, StResources
  <2>2. \A o \in Replicas : o # r => stPc'[o] = stPc[o] /\ stHeld'[o] = stHeld[o]
    BY <1>8 DEF CloseAll, StHeldInv, StResources
  <2>3. stPc' \in [Replicas -> StPlaces]
    BY <1>8 DEF CloseAll, StHeldInv, StPlaces
  <2>4. HeldInPlace'
    BY <1>3, <2>1, <2>2 DEF StHeldInv, HeldInPlace
  <2> QED BY <1>2, <2>1, <2>3, <2>4 DEF StHeldInv, StResources
<1> QED BY <1>4, <1>5, <1>6, <1>7, <1>8 DEF BreakOff, RegisterFirst, RegisterSecond, RollbackRegistration, StopServing

\* The registry drops only what no running process has registered.
LEMMA HeldHeartbeats ==
  ASSUME StHeldInv, NEW r \in Replicas, MissHeartbeats(r)
  PROVE  StHeldInv'
<1>1. /\ stEndpoints \in [Replicas -> SUBSET BothEndpoints]
      /\ stEndpoints' = [stEndpoints EXCEPT ![r] = stEndpoints[r] \cap Beating(r)]
      /\ UNCHANGED <<stPc, stHeld, stFlag>>
  BY DEF StHeldInv, StResources, MissHeartbeats
<1>2. /\ stPc[r] = "registerGrpc" => Beating(r) = {"http"}
      /\ stPc[r] = "up" => Beating(r) = BothEndpoints
  BY DEF Beating
<1>3. /\ stEndpoints' \in [Replicas -> SUBSET BothEndpoints]
      /\ stEndpoints'[r] = stEndpoints[r] \cap Beating(r)
      /\ \A o \in Replicas : o # r => stEndpoints'[o] = stEndpoints[o]
  BY <1>1
<1>4. HeldInPlace'
  BY <1>1, <1>2, <1>3 DEF StHeldInv, HeldInPlace
<1> QED BY <1>1, <1>3, <1>4 DEF StHeldInv, StResources

-----------------------------------------------------------------------------
(* The settings.                                                            *)

\* A stored value that any replica reads back as a valid one.
Readable(k, v) == Parsed(k, v) /\ FieldValid(k, Shown(k, v))

ValidConfigs == \A r \in Replicas : validateSecurityPolicy(StConfig[r])

StSettings ==
  /\ DOMAIN stStored \subseteq PolicyFields
  /\ \A k \in DOMAIN stStored : stStored[k] \in FieldValues(k)
  /\ ValidConfigs => \A k \in DOMAIN stStored : Readable(k, stStored[k])

\* A number of a valid policy that fits the machine's word is read back as it was written.
LEMMA RoundTrip ==
  ASSUME SettingsAssumption, NEW v \in Nat, NEW unit \in Nat \ {0}, v * unit < HalfRange
  PROVE  Whole(Wrap(v * unit), unit) = v
<1>1. v * unit \in Nat
  OBVIOUS
<1>2. Wrap(v * unit) = v * unit
  BY <1>1, WrapIdentity DEF SettingsAssumption
<1>3. (v * unit) \div unit = v
  BY ExactQuotient
<1> QED BY <1>1, <1>2, <1>3 DEF Whole

LEMMA Units ==
  ASSUME SettingsAssumption
  PROVE  /\ Second \in Nat \ {0} /\ Day \in Nat \ {0} /\ Minute \in Nat \ {0} /\ Hour \in Nat \ {0}
         /\ Day = 86400 * Second /\ Hour = 3600 * Second /\ Minute = 60 * Second
BY DEF SettingsAssumption, Day, Hour, Minute

LEMMA DefaultsReadable ==
  ASSUME StartupAssumption, NEW r \in Replicas, validateSecurityPolicy(StConfig[r]), NEW k \in PolicyFields
  PROVE  Readable(k, StConfig[r][k])
<1> DEFINE v == StConfig[r][k]
<1>1. SettingsAssumption /\ FieldValid(k, v) /\ v \in FieldValues(k)
  BY DEF StartupAssumption, validateSecurityPolicy
<1>2. CASE k \in {"min_length", "upper", "lower", "digit", "symbol", "history", "max_failures", "max_sessions"}
  BY <1>1, <1>2 DEF Readable, Parsed, Shown, FieldValid, FieldValues
<1>3. CASE k = "max_age_days"
  <2>1. v \in Int /\ 1 <= v /\ v <= 90
    BY <1>1, <1>3 DEF FieldValid, FieldValues
  <2>2. v * Day <= 90 * Day
    BY <1>1, <2>1, Monotone, Units
  <2>3. v * Day < HalfRange
    BY <1>1, <2>1, <2>2, Units DEF SettingsAssumption
  <2>4. Whole(Wrap(v * Day), Day) = v
    BY <1>1, <2>1, <2>3, Units, RoundTrip
  <2> QED BY <1>1, <1>3, <2>1, <2>4 DEF Readable, Parsed, Shown
<1>4. CASE k \in {"lock_seconds", "ttl_seconds"}
  <2>1. v \in Int /\ v * Second \in -HalfRange..(HalfRange - 1)
    BY <1>1, <1>4 DEF FieldValues, StartupAssumption
  <2>2. Wrap(v * Second) = v * Second
    BY <1>1, <2>1, WrapIdentity DEF SettingsAssumption
  <2>3. v >= 1
    <3>1. CASE k = "ttl_seconds"
      BY <1>1, <3>1 DEF FieldValid
    <3>2. CASE k = "lock_seconds"
      <4>1. v * Second >= 15 * Minute
        BY <1>1, <2>2, <3>2 DEF FieldValid
      <4>2. v * Second > 0
        BY <1>1, <2>1, <4>1, Units
      <4>3. v <= 0 => v * Second <= 0 * Second
        BY <1>1, <2>1, Monotone, Units
      <4> QED BY <1>1, <2>1, <4>2, <4>3, Units
    <3> QED BY <1>4, <3>1, <3>2
  <2>4. Whole(Wrap(v * Second), Second) = v
    BY <1>1, <2>1, <2>3, Units, RoundTrip DEF SettingsAssumption
  <2> QED BY <1>1, <1>4, <2>1, <2>3, <2>4 DEF Readable, Parsed, Shown
<1> QED BY <1>2, <1>3, <1>4 DEF PolicyFields

LEMMA SettingsStep ==
  ASSUME StartupAssumption, StSettings, StNext
  PROVE  StSettings'
<1>1. CASE UNCHANGED stStored
  BY <1>1 DEF StSettings
<1>2. ASSUME NEW r \in Replicas, WriteStored(r)
      PROVE  StSettings'
  <2> DEFINE values == [k \in PolicyFields \ stSeen[r] |-> StConfig[r][k]]
  <2>1. stStored' = Upserted(stStored, values) /\ DOMAIN values \subseteq PolicyFields
        /\ \A k \in DOMAIN values : values[k] = StConfig[r][k]
    BY <1>2 DEF WriteStored
  <2> HIDE DEF values
  <2>2. DOMAIN stStored' = DOMAIN stStored \cup DOMAIN values
        /\ \A k \in DOMAIN stStored' : stStored'[k] = IF k \in DOMAIN values THEN values[k] ELSE stStored[k]
    BY <2>1 DEF Upserted
  <2>3. \A k \in DOMAIN values : values[k] \in FieldValues(k)
    BY <2>1 DEF StartupAssumption
  <2>4. ValidConfigs => \A k \in DOMAIN values : Readable(k, values[k])
    BY <2>1, DefaultsReadable DEF ValidConfigs
  <2> QED BY <2>1, <2>2, <2>3, <2>4 DEF StSettings
<1>3. ASSUME NEW r \in Replicas, NEW p \in StPolicies, ChangePolicy(r, p)
      PROVE  StSettings'
  <2>1. DOMAIN p = PolicyFields /\ \A k \in PolicyFields : p[k] \in FieldValues(k)
    BY DEF StPolicies
  <2>2. stStored' = Upserted(stStored, p) /\ Resolves(StConfig[r], Upserted(stStored, p))
    BY <1>3 DEF ChangePolicy, UpdateAccepted
  <2>3. DOMAIN stStored' = PolicyFields /\ \A k \in PolicyFields : stStored'[k] = p[k]
    BY <2>1, <2>2 DEF Upserted, StSettings
  <2>4. \A k \in PolicyFields : Readable(k, stStored'[k])
    BY <2>2, <2>3 DEF Resolves, Readable
  <2> QED BY <2>1, <2>3, <2>4 DEF StSettings
<1>4. ASSUME ~(\E r \in Replicas : WriteStored(r) \/ \E p \in StPolicies : ChangePolicy(r, p))
      PROVE  UNCHANGED stStored
  BY <1>4 DEF StNext, Launch, OpenResource, FailToOpen, EnsureRead, EnsureNothingToGrant, EnsureInsert, EnsureReread,
       LookupAdmin, CreateAdmin, RereadAdmin, GrantAdminRole, ReadStored, BreakOff, RegisterFirst, RegisterSecond,
       RollbackRegistration, StopServing, DeregisterEndpoints, CloseAll, MissHeartbeats, EditRow, RevokeGrant
<1> QED BY <1>1, <1>2, <1>3, <1>4

-----------------------------------------------------------------------------
StInv == StSeeds /\ StHeldInv /\ StSettings

LEMMA StInvStep == StartupAssumption /\ StInv /\ [StNext]_stVars => StInv'
<1> SUFFICES ASSUME StartupAssumption, StInv, [StNext]_stVars PROVE StInv'
  OBVIOUS
<1>1. CASE UNCHANGED stVars
  BY <1>1 DEF stVars, StInv, StSeeds, StShape, RowsEnsured, Present, AtTheFirstRow, AdminGetsRole, StHeldInv,
       StResources, HeldInPlace, StSettings
<1>2. CASE StNext
  <2>1. StSeeds' /\ StSettings'
    BY <1>2, SeedsStep, SettingsStep DEF StInv
  <2>2. stFlag \in [Replicas -> BOOLEAN]
    BY DEF StInv, StSeeds, StShape
  <2>3. CASE \E r \in Replicas : Launch(r) \/ OpenResource(r) \/ FailToOpen(r)
    BY <2>1, <2>2, <2>3, HeldOpening DEF StInv
  <2>4. CASE \E r \in Replicas :
               \/ EnsureRead(r) \/ EnsureNothingToGrant(r) \/ EnsureInsert(r) \/ EnsureReread(r)
               \/ LookupAdmin(r) \/ CreateAdmin(r) \/ RereadAdmin(r) \/ GrantAdminRole(r)
               \/ ReadStored(r) \/ WriteStored(r)
    BY <2>1, <2>4, HeldSeeding DEF StInv
  <2>5. CASE \E r \in Replicas :
               \/ BreakOff(r) \/ RegisterFirst(r) \/ RegisterSecond(r) \/ RollbackRegistration(r)
               \/ StopServing(r) \/ DeregisterEndpoints(r) \/ CloseAll(r)
    BY <2>1, <2>2, <2>5, HeldServing DEF StInv
  <2>6. CASE \/ \E r \in Replicas, p \in StPolicies : ChangePolicy(r, p)
             \/ \E i \in 1..SeedRows : EditRow(i) \/ RevokeGrant(i)
    <3>1. UNCHANGED <<stPc, stHeld, stEndpoints, stFlag>>
      BY <2>6 DEF ChangePolicy, EditRow, RevokeGrant
    <3> QED BY <2>1, <3>1 DEF StInv, StHeldInv, StResources, HeldInPlace
  <2>7. CASE \E r \in Replicas : MissHeartbeats(r)
    BY <2>1, <2>7, HeldHeartbeats DEF StInv
  <2> QED BY <1>2, <2>3, <2>4, <2>5, <2>6, <2>7 DEF StNext
<1> QED BY <1>1, <1>2

LEMMA StInvInit == StartupAssumption /\ StInit => StInv
<1> SUFFICES ASSUME StartupAssumption, StInit PROVE StInv
  OBVIOUS
<1>1. StSeeds /\ StHeldInv
  BY SeedsInit, HeldInit
<1>2. DOMAIN stStored = {}
  BY DEF StInit
<1> QED BY <1>1, <1>2 DEF StInv, StSettings

LEMMA StInvImplies ==
  ASSUME StartupAssumption, StInv
  PROVE  StTypeOK /\ GrantsFindTheirRows /\ AdminGetsRole /\ PolicyResolves /\ ServingIsRegistered
<1>1. StTypeOK
  BY DEF StInv, StSeeds, StShape, StHeldInv, StResources, StSettings, StTypeOK
<1>2. GrantsFindTheirRows
  <2> SUFFICES ASSUME NEW r \in Replicas, stPc[r] \in Booting \ {"ready", "registerGrpc", "rollback"},
                      NEW i \in Needed(stRow[r])
               PROVE  Present(i)
    BY DEF GrantsFindTheirRows
  <2>1. stRow[r] \in SeedGrants /\ i \in Needs[stRow[r]]
    BY DEF Needed
  <2>2. i \in (1..SeedRows) \ SeedGrants /\ i < stRow[r]
    BY <2>1 DEF StartupAssumption
  <2> QED BY <2>2 DEF StInv, StSeeds, RowsEnsured
<1>3. PolicyResolves
  <2> SUFFICES ASSUME ValidConfigs, NEW r \in Replicas
               PROVE  Resolves(StConfig[r], stStored)
    BY DEF PolicyResolves, ValidConfigs
  <2>1. \A k \in DOMAIN stStored : Readable(k, stStored[k])
    BY DEF StInv, StSettings
  <2>2. \A k \in PolicyFields : FieldValid(k, StConfig[r][k])
    BY DEF ValidConfigs, validateSecurityPolicy
  <2> QED BY <2>1, <2>2 DEF Resolves, Readable
<1>4. ServingIsRegistered
  BY DEF StInv, StHeldInv, HeldInPlace, HeldAt, ServingIsRegistered
<1> QED BY <1>1, <1>2, <1>3, <1>4 DEF StInv, StSeeds

(* However many replicas start against one database, in whatever order and *)
(* wherever they break off: every grant of Bootstrap finds its role and its *)
(* permission, the administrator gets the role unless a start is cut        *)
(* between CreateUser and GrantRole, and a replica that serves has opened   *)
(* its resources and registered both endpoints.                             *)
THEOREM StartsDoNotCollide ==
  StartupAssumption => (StSpec => [](StTypeOK /\ GrantsFindTheirRows /\ AdminGetsRole /\ ServingIsRegistered))
<1> SUFFICES ASSUME StartupAssumption
             PROVE  StSpec => [](StTypeOK /\ GrantsFindTheirRows /\ AdminGetsRole /\ ServingIsRegistered)
  OBVIOUS
<1>1. StInit => StInv
  BY StInvInit
<1>2. StInv /\ [StNext]_stVars => StInv'
  BY StInvStep
<1>3. StInv => StTypeOK /\ GrantsFindTheirRows /\ AdminGetsRole /\ ServingIsRegistered
  BY StInvImplies
<1> QED BY <1>1, <1>2, <1>3, PTL DEF StSpec

(* Valid configurations keep a valid policy: the defaults that a start      *)
(* mixes into a policy an administrator is changing, and the numbers that   *)
(* wrap on their way through a Duration, never make the stored settings     *)
(* unreadable (resolveSecurityPolicy) on any replica.                       *)
THEOREM StoredPolicyAlwaysResolves ==
  StartupAssumption => (StSpec => []PolicyResolves)
<1> SUFFICES ASSUME StartupAssumption PROVE StSpec => []PolicyResolves
  OBVIOUS
<1>1. StInit => StInv
  BY StInvInit
<1>2. StInv /\ [StNext]_stVars => StInv'
  BY StInvStep
<1>3. StInv => PolicyResolves
  BY StInvImplies
<1> QED BY <1>1, <1>2, <1>3, PTL DEF StSpec

(* A start never overwrites a role, a menu or the organisation that an      *)
(* administrator has edited, also when its Ensure call read before the row  *)
(* existed.                                                                 *)
THEOREM EditsAreKept ==
  StartupAssumption => (StSpec => EditsKept)
<1> SUFFICES ASSUME StartupAssumption PROVE StSpec => EditsKept
  OBVIOUS
<1> DEFINE Kept == \A i \in 1..SeedRows : stRows[i] = "edited" => stRows'[i] = "edited"
             Unedited == \A i \in SeedGrants : stRows[i] # "edited"
<1>1. StInit => StInv
  BY StInvInit
<1>2. StInv /\ [StNext]_stVars => StInv'
  BY StInvStep
<1>3. StInit => Unedited
  BY DEF StInit, StartupAssumption
<1>4. StInv /\ Unedited /\ [StNext]_stVars => Unedited' /\ [Kept]_stVars
  <2> SUFFICES ASSUME StInv, Unedited, [StNext]_stVars PROVE Unedited' /\ Kept
    OBVIOUS
  <2>0. SeedGrants \subseteq 1..SeedRows /\ stRows \in [1..SeedRows -> {"absent", "seeded", "edited"}]
    BY DEF StartupAssumption, StInv, StSeeds, StShape
  <2>1. CASE UNCHANGED stRows
    BY <2>1
  <2>2. CASE \E r \in Replicas : EnsureInsert(r) /\ ~Present(stRow[r])
    BY <2>0, <2>2 DEF EnsureInsert, Present
  <2>3. CASE \E i \in 1..SeedRows : EditRow(i) \/ RevokeGrant(i)
    BY <2>0, <2>3 DEF EditRow, RevokeGrant
  <2>4. CASE UNCHANGED stVars
    BY <2>1, <2>4 DEF stVars
  <2> QED BY <2>1, <2>2, <2>3, <2>4 DEF StNext, Launch, OpenResource, FailToOpen, EnsureRead, EnsureNothingToGrant,
       EnsureInsert, EnsureReread, LookupAdmin, CreateAdmin, RereadAdmin, GrantAdminRole, ReadStored, WriteStored,
       BreakOff, RegisterFirst, RegisterSecond, RollbackRegistration, StopServing, DeregisterEndpoints, CloseAll,
       MissHeartbeats, ChangePolicy
<1> QED BY <1>1, <1>2, <1>3, <1>4, PTL DEF StSpec, EditsKept

-----------------------------------------------------------------------------
(* The configuration (Settings).                                            *)

(* A remote document cannot change what the environment gives: neither a    *)
(* secret, set or not, nor a field that a variable overrides.               *)
THEOREM EnvironmentWins ==
  ASSUME NEW default, NEW file, NEW env, NEW remote,
         NEW f \in ConfigFields, f \in SecretFields \/ f \in DOMAIN env
  PROVE  Merged(default, file, env, remote)[f] = Loaded(default, file, env)[f]
<1> DEFINE over(c) == [g \in ConfigFields |->
                         IF g \in SecretFields THEN SecretOf(env, g)
                         ELSE IF g \in DOMAIN env THEN env[g] ELSE c[g]]
<1>1. \A c, d : over(c)[f] = over(d)[f] /\ DOMAIN over(c) = ConfigFields
  OBVIOUS
<1>2. \A c : ApplyEnvironment(c, env) = [over(c) EXCEPT !["storage.provider"] = normalizeStorageProvider(@)]
  BY DEF ApplyEnvironment
<1>3. \A c, d : ApplyEnvironment(c, env)[f] = ApplyEnvironment(d, env)[f]
  <2> TAKE c, d
  <2> HIDE DEF over
  <2>1. CASE f = "storage.provider"
    BY <1>1, <1>2, <2>1
  <2>2. CASE f # "storage.provider"
    BY <1>1, <1>2, <2>2
  <2> QED BY <2>1, <2>2
<1> QED BY <1>3 DEF Merged, Loaded

(* What Validate accepts in production is a policy the server can resolve:  *)
(* a start on an empty table finds a valid policy.  (Sessions of less than  *)
(* a second, which Validate accepts, are the exception.)                    *)
THEOREM ProductionPolicyIsValid ==
  ASSUME SettingsAssumption, NEW c, SecurityTyped(c), SecurityValid(c), isProduction(c),
         c["security.session_ttl"] >= Second, c["security.lock_duration"] < HalfRange
  PROVE  validateSecurityPolicy(defaultPolicy(c))
<1>1. productionSecurityFloor(c)
  BY DEF SecurityValid
<1> DEFINE p == defaultPolicy(c)
           L == c["security.lock_duration"]
           T == c["security.session_ttl"]
           A == c["security.max_age_days"]
<1>2. /\ p["min_length"] = c["security.min_length"] /\ p["upper"] = c["security.upper"]
      /\ p["lower"] = c["security.lower"] /\ p["digit"] = c["security.digit"] /\ p["symbol"] = c["security.symbol"]
      /\ p["history"] = c["security.history"] /\ p["max_age_days"] = Whole(Wrap(A * Day), Day)
      /\ p["max_failures"] = c["security.max_failures"] /\ p["lock_seconds"] = Whole(L, Second)
      /\ p["ttl_seconds"] = Whole(T, Second) /\ p["max_sessions"] = 5
  BY DEF defaultPolicy, PolicyFields
<1>3. L \in Int /\ T \in Int /\ A \in Int /\ L >= 15 * Minute /\ T >= Second /\ T <= 12 * Hour /\ A \in 1..90
  BY <1>1 DEF SecurityTyped, productionSecurityFloor
<1>4. /\ \A k \in {"min_length", "upper", "lower", "digit", "symbol", "history", "max_failures", "max_sessions"} :
           FieldValid(k, p[k])
  <2>1. \A k \in {"upper", "lower", "digit", "symbol"} : FieldValid(k, p[k])
    BY <1>1, <1>2 DEF FieldValid, productionSecurityFloor
  <2>2. FieldValid("min_length", p["min_length"]) /\ FieldValid("history", p["history"])
    BY <1>1, <1>2 DEF FieldValid, productionSecurityFloor
  <2>3. FieldValid("max_failures", p["max_failures"])
    BY <1>1, <1>2 DEF FieldValid, productionSecurityFloor
  <2>4. FieldValid("max_sessions", p["max_sessions"])
    BY <1>2 DEF FieldValid
  <2> QED BY <2>1, <2>2, <2>3, <2>4
<1>5. FieldValid("max_age_days", p["max_age_days"])
  <2>1. A * Day <= 90 * Day
    BY <1>3, Monotone, Units
  <2>2. A * Day < HalfRange
    BY <1>3, <2>1, Units DEF SettingsAssumption
  <2>3. p["max_age_days"] = A
    BY <1>2, <1>3, <2>2, Units, RoundTrip
  <2> QED BY <1>3, <2>3 DEF FieldValid
<1>6. ASSUME NEW x \in Nat, NEW n \in Nat, x >= n * Second, x < HalfRange
      PROVE  /\ Whole(x, Second) \in Nat /\ Whole(x, Second) >= n
             /\ Wrap(Whole(x, Second) * Second) = Whole(x, Second) * Second
             /\ Whole(x, Second) * Second <= x /\ Whole(x, Second) * Second >= n * Second
  <2>1. Whole(x, Second) = x \div Second /\ Second \in Nat \ {0}
    BY <1>6, Units DEF Whole
  <2>2. x \div Second \in Nat /\ (x \div Second) * Second <= x /\ x < ((x \div Second) + 1) * Second
    BY <1>6, <2>1, QuotientBounds
  <2>3. x \div Second >= n
    <3>1. SUFFICES ASSUME (x \div Second) + 1 <= n PROVE FALSE
      BY <2>2
    <3>2. ((x \div Second) + 1) * Second <= n * Second
      BY <2>1, <2>2, <3>1, Monotone
    <3> QED BY <1>6, <2>1, <2>2, <3>2
  <2>4. (x \div Second) * Second >= n * Second
    BY <2>1, <2>2, <2>3, Monotone
  <2>5. (x \div Second) * Second \in Int /\ -HalfRange <= (x \div Second) * Second
        /\ (x \div Second) * Second < HalfRange
    <3>1. (x \div Second) * Second \in Nat
      BY <2>1, <2>2
    <3> QED BY <1>6, <2>2, <3>1 DEF SettingsAssumption
  <2>6. Wrap((x \div Second) * Second) = (x \div Second) * Second
    BY <2>5, WrapIdentity
  <2> QED BY <2>1, <2>2, <2>3, <2>4, <2>6
<1>7. FieldValid("lock_seconds", p["lock_seconds"])
  <2>1. L \in Nat /\ L >= 900 * Second
    BY <1>3, Units
  <2>2. Wrap(Whole(L, Second) * Second) >= 900 * Second
    BY <1>6, <2>1
  <2> QED BY <1>2, <2>2, Units DEF FieldValid
<1>8. FieldValid("ttl_seconds", p["ttl_seconds"])
  <2>1. T \in Nat /\ T >= 1 * Second /\ T < HalfRange
    BY <1>3, Units DEF SettingsAssumption
  <2>2. Whole(T, Second) >= 1 /\ Wrap(Whole(T, Second) * Second) <= 12 * Hour
    <3>1. Whole(T, Second) \in Nat /\ Whole(T, Second) * Second <= T
          /\ Whole(T, Second) >= 1 /\ Wrap(Whole(T, Second) * Second) = Whole(T, Second) * Second
      BY <1>6, <2>1
    <3> QED BY <1>3, <3>1, Units
  <2> QED BY <1>2, <2>2 DEF FieldValid
<1> QED BY <1>4, <1>5, <1>7, <1>8 DEF validateSecurityPolicy, PolicyFields

-----------------------------------------------------------------------------
(***************************************************************************)
(* Federated login (FederatedLogin).  FlInv says what each place of a       *)
(* request has established, and that a consumed state belongs to one        *)
(* request or one session.                                                  *)
(***************************************************************************)
FlTypes ==
  /\ flState \in [FlStates -> {"unused", "stored", "gone"}]
  /\ flPayload \in [FlStates -> FlPayloads]
  /\ flPc \in [FlCallbacks -> FlPlaces]
  /\ flHeld \in [FlCallbacks -> FlHolds]
  /\ flLinks \subseteq flEver /\ flEver \subseteq FlLinkRows
  /\ DOMAIN flBegun = FlCallbacks

\* Places of a request that has spent its state, if it has one.
Spent == {"consumed", "known", "linked", "user", "checked"}

Established(c) ==
  LET h == flHeld[c] IN
  /\ flPc[c] = "got" => h.state \in FlStates /\ flState[h.state] # "unused" /\ flPayload[h.state] = AskedBy(h)
  /\ flPc[c] = "consumed" => h.state # NoState
  /\ flPc[c] \in Spent /\ h.state # NoState => flState[h.state] = "gone" /\ flPayload[h.state] = AskedBy(h)
  /\ flPc[c] \in {"known", "linked", "user", "checked"} => TokenOf(h) \in flVouched
  /\ flPc[c] \in {"linked", "user", "checked"} => LinkOf(h) \in flEver
  /\ flPc[c] \in {"user", "checked"} => h.user \in flBegun[c]
  /\ flPc[c] = "checked" => h.org \in flBegun[c]
  /\ flPc[c] \in {"got"} \cup Spent => flActive \subseteq flBegun[c]

OneSpender ==
  /\ \A c, d \in FlCallbacks :
       flPc[c] \in Spent /\ flPc[d] \in Spent /\ flHeld[c].state = flHeld[d].state /\ flHeld[c].state # NoState
         => c = d
  /\ \A x \in flSessions : \A c \in FlCallbacks :
       flPc[c] \in Spent /\ flHeld[c].state = x.by.state => x.by.state = NoState

SessionsKnown ==
  \A x \in flSessions :
    /\ x.call \in FlCallbacks /\ flPc[x.call] = "done" /\ x.by \in FlHolds
    /\ x.by.state # NoState => flState[x.by.state] = "gone"

FlInv ==
  /\ FlTypes /\ (\A c \in FlCallbacks : Established(c)) /\ OneSpender /\ SessionsKnown
  /\ StateLogsInOnce /\ LoginIsVouchedFor

LEMMA FlInitInv ==
  ASSUME FlInit
  PROVE  FlInv
BY DEF FlInit, FlInv, FlTypes, FlPlaces, Established, Spent, OneSpender, SessionsKnown, StateLogsInOnce,
   LoginIsVouchedFor

\* Steps that are not of a request.
LEMMA AroundStep ==
  ASSUME FederatedAssumption, FlInv,
         \/ \E s \in FlStates, p \in FlProviders, o \in FlOrgs : BeginOIDCLogin(s, p, o)
         \/ \E s \in FlStates : ExpireState(s)
         \/ \E t \in FlTokens : Vouch(t)
         \/ \E l \in FlLinkRows, actor \in FlUsers : LinkFederatedIdentity(l, actor)
         \/ \E l \in flLinks : UnlinkFederatedIdentity(l)
         \/ \E a \in SUBSET (FlUsers \cup FlOrgs) : SetActive(a)
  PROVE  FlInv'
<1>1. UNCHANGED <<flPc, flHeld, flSessions>>
  BY DEF BeginOIDCLogin, ExpireState, Vouch, LinkFederatedIdentity, UnlinkFederatedIdentity, SetActive
<1>2. /\ flState' \in [FlStates -> {"unused", "stored", "gone"}] /\ flPayload' \in [FlStates -> FlPayloads]
      /\ \A s \in FlStates : /\ flState[s] # "unused" => flPayload'[s] = flPayload[s] /\ flState'[s] # "unused"
                             /\ flState[s] = "gone" => flState'[s] = "gone"
  BY DEF FlInv, FlTypes, FlPayloads, BeginOIDCLogin, ExpireState, Vouch, LinkFederatedIdentity,
     UnlinkFederatedIdentity, SetActive, Others
<1>3. flVouched \subseteq flVouched' /\ flEver \subseteq flEver' /\ flLinks' \subseteq flEver' /\ flEver' \subseteq FlLinkRows
  BY DEF FlInv, FlTypes, BeginOIDCLogin, ExpireState, Vouch, LinkFederatedIdentity, UnlinkFederatedIdentity,
     SetActive, Others
<1>4. /\ DOMAIN flBegun' = FlCallbacks
      /\ \A c \in FlCallbacks :
           /\ flPc[c] # "new" => flBegun[c] \subseteq flBegun'[c]
           /\ flPc[c] # "new" /\ flActive \subseteq flBegun[c] => flActive' \subseteq flBegun'[c]
  BY DEF FlInv, FlTypes, BeginOIDCLogin, ExpireState, Vouch, LinkFederatedIdentity, UnlinkFederatedIdentity,
     SetActive, Others
<1>5. FlTypes'
  BY <1>1, <1>2, <1>3, <1>4 DEF FlInv, FlTypes
<1>6. ASSUME NEW c \in FlCallbacks PROVE Established(c)'
  <2>1. flPc' = flPc /\ flHeld' = flHeld /\ flHeld[c].state \in FlStates \cup {NoState}
    BY <1>1 DEF FlInv, FlTypes, FlHolds
  <2>2. Established(c)
    BY DEF FlInv
  <2>3. flPc[c] \in {"got"} \cup Spent => flPc[c] # "new"
    BY DEF Spent
  <2> QED BY <1>2, <1>3, <1>4, <2>1, <2>2, <2>3 DEF Established, Spent
<1>7. OneSpender' /\ StateLogsInOnce'
  BY <1>1 DEF FlInv, OneSpender, StateLogsInOnce
<1>8. SessionsKnown'
  BY <1>1, <1>2 DEF FlInv, SessionsKnown, FlHolds
<1>9. LoginIsVouchedFor'
  <2> SUFFICES ASSUME NEW x \in flSessions
               PROVE  /\ TokenOf(x.by) \in flVouched' /\ LinkOf(x.by) \in flEver'
                      /\ x.by.state # NoState => flPayload'[x.by.state] = AskedBy(x.by)
                      /\ {x.by.user, x.by.org} \subseteq flBegun'[x.call]
    BY <1>1 DEF LoginIsVouchedFor
  <2>1. /\ TokenOf(x.by) \in flVouched /\ LinkOf(x.by) \in flEver
        /\ x.by.state # NoState => flPayload[x.by.state] = AskedBy(x.by)
        /\ {x.by.user, x.by.org} \subseteq flBegun[x.call]
    BY DEF FlInv, LoginIsVouchedFor
  <2>2. /\ x.call \in FlCallbacks /\ flPc[x.call] # "new" /\ x.by.state \in FlStates \cup {NoState}
        /\ x.by.state # NoState => flState[x.by.state] # "unused"
    BY DEF FlInv, SessionsKnown, FlHolds
  <2> QED BY <1>2, <1>3, <1>4, <2>1, <2>2
<1> QED BY <1>5, <1>6, <1>7, <1>8, <1>9 DEF FlInv

(* A step of request c that changes nothing of the others keeps what is     *)
(* known of them and of the sessions.                                       *)
LEMMA CallStep ==
  ASSUME FederatedAssumption, FlInv, NEW c \in FlCallbacks, NEW to \in FlPlaces, NEW h \in FlHolds,
         flPc[c] # "done", flPc' = [flPc EXCEPT ![c] = to], flHeld' = [flHeld EXCEPT ![c] = h],
         UNCHANGED <<flPayload, flVouched, flLinks, flActive, flEver, flSessions>>,
         flState' \in [FlStates -> {"unused", "stored", "gone"}],
         \A s \in FlStates : /\ flState[s] # "unused" => flState'[s] # "unused"
                             /\ flState[s] = "gone" => flState'[s] = "gone",
         DOMAIN flBegun' = FlCallbacks, \A d \in FlCallbacks : d # c => flBegun'[d] = flBegun[d],
         Established(c)',
         to \in Spent /\ h.state # NoState =>
           \/ flPc[c] \in Spent /\ h.state = flHeld[c].state
           \/ flState[h.state] # "gone"
  PROVE  FlInv'
<1>1. /\ \A d \in FlCallbacks : d # c => flPc'[d] = flPc[d] /\ flHeld'[d] = flHeld[d]
      /\ flPc'[c] = to /\ flHeld'[c] = h
  BY DEF FlInv, FlTypes
<1>2. FlTypes'
  BY DEF FlInv, FlTypes
<1>3. ASSUME NEW d \in FlCallbacks PROVE Established(d)'
  <2>1. CASE d = c
    BY <2>1
  <2>2. CASE d # c
    <3>1. flPc'[d] = flPc[d] /\ flHeld'[d] = flHeld[d] /\ flBegun'[d] = flBegun[d]
          /\ flHeld[d].state \in FlStates \cup {NoState} /\ Established(d)
      BY <1>1, <2>2 DEF FlInv, FlTypes, FlHolds
    <3> QED BY <3>1 DEF Established, Spent
  <2> QED BY <2>1, <2>2
<1>4. ASSUME NEW d \in FlCallbacks, d # c, flPc[d] \in Spent, to \in Spent, flHeld[d].state = h.state
      PROVE  h.state = NoState
  <2>1. Established(d)
    BY DEF FlInv
  <2>2. flHeld[d].state # NoState => flState[flHeld[d].state] = "gone"
    BY <1>4, <2>1 DEF Established
  <2> QED BY <1>4, <2>2 DEF FlInv, OneSpender
<1>5. ASSUME NEW x \in flSessions, to \in Spent, h.state = x.by.state
      PROVE  h.state = NoState
  BY <1>5 DEF FlInv, OneSpender, SessionsKnown
<1>6. OneSpender'
  <2>1. ASSUME NEW d \in FlCallbacks, NEW e \in FlCallbacks, flPc'[d] \in Spent, flPc'[e] \in Spent,
               flHeld'[d].state = flHeld'[e].state, flHeld'[d].state # NoState
        PROVE  d = e
    <3>1. CASE d # c /\ e # c
      BY <1>1, <2>1, <3>1 DEF FlInv, OneSpender
    <3>2. CASE d = c /\ e # c
      BY <1>1, <1>4, <2>1, <3>2
    <3>3. CASE d # c /\ e = c
      BY <1>1, <1>4, <2>1, <3>3
    <3> QED BY <3>1, <3>2, <3>3
  <2>2. ASSUME NEW x \in flSessions, NEW d \in FlCallbacks, flPc'[d] \in Spent, flHeld'[d].state = x.by.state
        PROVE  x.by.state = NoState
    <3>1. CASE d = c
      BY <1>1, <1>5, <2>2, <3>1
    <3>2. CASE d # c
      BY <1>1, <2>2, <3>2 DEF FlInv, OneSpender
    <3> QED BY <3>1, <3>2
  <2>3. flSessions' = flSessions
    OBVIOUS
  <2> QED BY <2>1, <2>2, <2>3 DEF OneSpender
<1>7. \A x \in flSessions : x.call \in FlCallbacks /\ x.call # c
  BY DEF FlInv, SessionsKnown
<1>8. SessionsKnown'
  BY <1>1, <1>7 DEF FlInv, SessionsKnown, FlHolds
<1>9. StateLogsInOnce' /\ LoginIsVouchedFor'
  BY <1>7 DEF FlInv, StateLogsInOnce, LoginIsVouchedFor
<1> QED BY <1>2, <1>3, <1>6, <1>8, <1>9 DEF FlInv

LEMMA RequestStep ==
  ASSUME FederatedAssumption, FlInv, NEW c \in FlCallbacks,
         \/ \E s \in FlStates, p \in FlProviders : GetState(c, s, p)
         \/ ConsumeState(c) \/ ConsumeLost(c)
         \/ \E sub \in FlSubjects : AuthenticateCode(c, sub)
         \/ \E p \in FlProviders, o \in FlOrgs, sub \in FlSubjects : AuthenticateLDAP(c, p, o, sub)
         \/ \E l \in flLinks : FindLink(c, l)
         \/ CheckUser(c) \/ CheckOrganization(c) \/ FailFederated(c)
  PROVE  FlInv'
<1> DEFINE h == flHeld[c]
<1>1. h \in FlHolds /\ flPc[c] \in FlPlaces /\ h.state \in FlStates \cup {NoState} /\ Established(c)
  BY DEF FlInv, FlTypes, FlHolds
<1>2. UNCHANGED <<flPayload, flVouched, flLinks, flActive, flEver, flSessions>>
  BY DEF GetState, ConsumeState, ConsumeLost, AuthenticateCode, AuthenticateLDAP, FindLink, CheckUser, CheckOrganization,
     FailFederated, Others
<1>3. ASSUME NEW s \in FlStates, NEW p \in FlProviders, GetState(c, s, p)
      PROVE  FlInv'
  <2> DEFINE g == [state |-> s, provider |-> p, org |-> flPayload[s].org, subject |-> h.subject, user |-> h.user]
  <2>1. flPayload[s] \in FlPayloads /\ flPayload[s] = [provider |-> flPayload[s].provider, org |-> flPayload[s].org]
        /\ flPayload[s].provider = p
    BY <1>3 DEF GetState, FlInv, FlTypes, FlPayloads
  <2>2. g \in FlHolds /\ AskedBy(g) = flPayload[s]
    BY <1>1, <2>1 DEF FlHolds, FlPayloads, AskedBy
  <2>3. flHeld' = [flHeld EXCEPT ![c] = g]
    BY <1>1, <1>3 DEF GetState, FlInv, FlTypes, FlHolds
  <2>4. flPc[c] = "new" /\ flPc' = [flPc EXCEPT ![c] = "got"] /\ flState' = flState /\ flState[s] = "stored"
        /\ DOMAIN flBegun' = FlCallbacks /\ flBegun'[c] = flActive
        /\ \A d \in FlCallbacks : d # c => flBegun'[d] = flBegun[d]
    BY <1>3 DEF GetState, Moves, FlInv, FlTypes
  <2>5. flPc'[c] = "got" /\ flHeld'[c] = g /\ g.state = s
    BY <2>3, <2>4 DEF FlInv, FlTypes
  <2> HIDE DEF g
  <2>6. Established(c)'
    BY <1>2, <2>2, <2>4, <2>5 DEF Established, Spent
  <2> QED BY <1>2, <2>2, <2>3, <2>4, <2>6, CallStep DEF FlPlaces, Spent, FlInv, FlTypes
<1>4. ASSUME ConsumeState(c) \/ ConsumeLost(c)
      PROVE  FlInv'
  <2>1. flHeld' = [flHeld EXCEPT ![c] = h] /\ flPc[c] = "got"
        /\ (flPc' = [flPc EXCEPT ![c] = "consumed"] \/ flPc' = [flPc EXCEPT ![c] = "done"])
        /\ flState[h.state] = "stored" /\ flState' = [flState EXCEPT ![h.state] = "gone"] /\ flBegun' = flBegun
    BY <1>4 DEF ConsumeState, ConsumeLost, Moves, FlInv, FlTypes
  <2>2. h.state \in FlStates /\ flPayload[h.state] = AskedBy(h) /\ flActive \subseteq flBegun[c]
    BY <1>1, <2>1 DEF Established
  <2>3. flState' \in [FlStates -> {"unused", "stored", "gone"}] /\ flState'[h.state] = "gone"
        /\ \A s \in FlStates : /\ flState[s] # "unused" => flState'[s] # "unused"
                               /\ flState[s] = "gone" => flState'[s] = "gone"
    BY <2>1, <2>2 DEF FlInv, FlTypes
  <2>4. h.state # NoState
    BY <2>2 DEF FederatedAssumption
  <2>5. (flPc'[c] = "consumed" \/ flPc'[c] = "done") /\ flHeld'[c] = h
    BY <2>1 DEF FlInv, FlTypes
  <2>6. Established(c)'
    BY <1>2, <2>1, <2>2, <2>3, <2>4, <2>5 DEF Established, Spent
  <2> QED BY <1>1, <1>2, <2>1, <2>3, <2>6, CallStep DEF FlPlaces, Spent, FlInv, FlTypes
<1>5. ASSUME NEW sub \in FlSubjects, AuthenticateCode(c, sub)
      PROVE  FlInv'
  <2> DEFINE g == [state |-> h.state, provider |-> h.provider, org |-> h.org, subject |-> sub, user |-> h.user]
  <2>1. g \in FlHolds /\ AskedBy(g) = AskedBy(h) /\ g.state = h.state
        /\ TokenOf(g) = [provider |-> h.provider, nonce |-> h.state, subject |-> sub]
    BY <1>1 DEF FlHolds, AskedBy, TokenOf
  <2>2. flHeld' = [flHeld EXCEPT ![c] = g]
    BY <1>1, <1>5 DEF AuthenticateCode, FlInv, FlTypes, FlHolds
  <2>3. flPc[c] = "consumed" /\ flPc' = [flPc EXCEPT ![c] = "known"] /\ flState' = flState /\ flBegun' = flBegun
        /\ [provider |-> h.provider, nonce |-> h.state, subject |-> sub] \in flVouched
    BY <1>5 DEF AuthenticateCode, Moves
  <2>4. flPc'[c] = "known" /\ flHeld'[c] = g
    BY <2>2, <2>3 DEF FlInv, FlTypes
  <2> HIDE DEF g, h
  <2>5. Established(c)'
    BY <1>1, <1>2, <2>1, <2>3, <2>4 DEF Established, Spent, h
  <2> QED BY <1>2, <2>1, <2>2, <2>3, <2>5, CallStep DEF FlPlaces, Spent, FlInv, FlTypes, h
<1>6. ASSUME NEW p \in FlProviders, NEW o \in FlOrgs, NEW sub \in FlSubjects, AuthenticateLDAP(c, p, o, sub)
      PROVE  FlInv'
  <2> DEFINE g == [state |-> NoState, provider |-> p, org |-> o, subject |-> sub, user |-> h.user]
  <2>1. g \in FlHolds /\ g.state = NoState /\ TokenOf(g) = [provider |-> p, nonce |-> NoState, subject |-> sub]
    BY <1>1 DEF FlHolds, TokenOf
  <2>2. flHeld' = [flHeld EXCEPT ![c] = g]
    BY <1>1, <1>6 DEF AuthenticateLDAP, FlInv, FlTypes, FlHolds
  <2>3. flPc[c] = "new" /\ flPc' = [flPc EXCEPT ![c] = "known"] /\ flState' = flState
        /\ DOMAIN flBegun' = FlCallbacks /\ flBegun'[c] = flActive
        /\ (\A d \in FlCallbacks : d # c => flBegun'[d] = flBegun[d])
        /\ [provider |-> p, nonce |-> NoState, subject |-> sub] \in flVouched
    BY <1>6 DEF AuthenticateLDAP, Moves, FlInv, FlTypes
  <2>4. flPc'[c] = "known" /\ flHeld'[c] = g
    BY <2>2, <2>3 DEF FlInv, FlTypes
  <2> HIDE DEF g
  <2>5. Established(c)'
    BY <1>2, <2>1, <2>3, <2>4 DEF Established, Spent
  <2> QED BY <1>2, <2>1, <2>2, <2>3, <2>5, CallStep DEF FlPlaces, FlInv, FlTypes
<1>7. ASSUME NEW l \in flLinks, FindLink(c, l)
      PROVE  FlInv'
  <2> DEFINE g == [state |-> h.state, provider |-> h.provider, org |-> h.org, subject |-> h.subject, user |-> l.user]
  <2>1. l \in flEver /\ l \in FlLinkRows
    BY DEF FlInv, FlTypes
  <2>2. l.org = h.org /\ l.provider = h.provider /\ l.subject = h.subject
    BY <1>7 DEF FindLink
  <2>3. g \in FlHolds /\ AskedBy(g) = AskedBy(h) /\ g.state = h.state /\ TokenOf(g) = TokenOf(h) /\ LinkOf(g) = l
    BY <1>1, <2>1, <2>2 DEF FlHolds, FlLinkRows, AskedBy, TokenOf, LinkOf
  <2>4. flHeld' = [flHeld EXCEPT ![c] = g]
    BY <1>1, <1>7 DEF FindLink, FlInv, FlTypes, FlHolds
  <2>5. flPc[c] = "known" /\ flPc' = [flPc EXCEPT ![c] = "linked"] /\ flState' = flState /\ flBegun' = flBegun
    BY <1>7 DEF FindLink, Moves
  <2>6. flPc'[c] = "linked" /\ flHeld'[c] = g
    BY <2>4, <2>5 DEF FlInv, FlTypes
  <2> HIDE DEF g, h
  <2>7. Established(c)'
    BY <1>1, <1>2, <2>1, <2>3, <2>5, <2>6 DEF Established, Spent, h
  <2> QED BY <1>2, <2>3, <2>4, <2>5, <2>7, CallStep DEF FlPlaces, Spent, FlInv, FlTypes, h
<1>8. ASSUME CheckUser(c) \/ CheckOrganization(c) \/ FailFederated(c)
      PROVE  FlInv'
  <2>1. /\ flHeld' = [flHeld EXCEPT ![c] = h] /\ flState' = flState /\ flBegun' = flBegun /\ flPc[c] # "done"
        /\ \/ flPc' = [flPc EXCEPT ![c] = "done"]
           \/ flPc[c] = "linked" /\ flPc' = [flPc EXCEPT ![c] = "user"] /\ h.user \in flActive
           \/ flPc[c] = "user" /\ flPc' = [flPc EXCEPT ![c] = "checked"] /\ h.org \in flActive
    BY <1>8 DEF CheckUser, CheckOrganization, FailFederated, Moves, FlInv, FlTypes
  <2>2. /\ flHeld'[c] = h
        /\ \/ flPc'[c] = "done"
           \/ flPc[c] = "linked" /\ flPc'[c] = "user" /\ h.user \in flActive
           \/ flPc[c] = "user" /\ flPc'[c] = "checked" /\ h.org \in flActive
    BY <2>1 DEF FlInv, FlTypes
  <2>3. Established(c)'
    <3>1. CASE flPc'[c] = "done"
      BY <3>1 DEF Established, Spent
    <3>2. CASE flPc[c] = "linked" /\ flPc'[c] = "user" /\ h.user \in flActive
      <4>1. h.user \in flBegun[c]
        BY <1>1, <3>2 DEF Established, Spent
      <4> HIDE DEF h
      <4> QED BY <1>1, <1>2, <2>1, <2>2, <3>2, <4>1 DEF Established, Spent, h
    <3>3. CASE flPc[c] = "user" /\ flPc'[c] = "checked" /\ h.org \in flActive
      <4>1. h.org \in flBegun[c]
        BY <1>1, <3>3 DEF Established, Spent
      <4> HIDE DEF h
      <4> QED BY <1>1, <1>2, <2>1, <2>2, <3>3, <4>1 DEF Established, Spent, h
    <3> QED BY <2>2, <3>1, <3>2, <3>3
  <2> QED BY <1>1, <1>2, <2>1, <2>3, CallStep DEF FlPlaces, Spent, FlInv, FlTypes
<1> QED BY <1>3, <1>4, <1>5, <1>6, <1>7, <1>8

LEMMA SessionStep ==
  ASSUME FederatedAssumption, FlInv, NEW c \in FlCallbacks, CreateFederatedSession(c)
  PROVE  FlInv'
<1> DEFINE h == flHeld[c]
           n == [call |-> c, by |-> h]
<1>1. /\ flPc[c] = "checked" /\ flPc' = [flPc EXCEPT ![c] = "done"] /\ flSessions' = flSessions \cup {n}
      /\ UNCHANGED <<flHeld, flState, flPayload, flVouched, flLinks, flActive, flEver, flBegun>>
  BY DEF CreateFederatedSession, Moves, Others
<1>2. h \in FlHolds /\ Established(c) /\ n.call = c /\ n.by = h /\ flPc[c] \in Spent
  BY <1>1 DEF FlInv, FlTypes, Spent
<1>3. /\ TokenOf(h) \in flVouched /\ LinkOf(h) \in flEver /\ {h.user, h.org} \subseteq flBegun[c]
      /\ h.state # NoState => flState[h.state] = "gone" /\ flPayload[h.state] = AskedBy(h)
  BY <1>1, <1>2 DEF Established, Spent
<1>4. flPc'[c] = "done" /\ \A d \in FlCallbacks : d # c => flPc'[d] = flPc[d]
  BY <1>1 DEF FlInv, FlTypes
<1> HIDE DEF n, h
<1>5. FlTypes'
  BY <1>1 DEF FlInv, FlTypes, FlPlaces
<1>6. ASSUME NEW d \in FlCallbacks PROVE Established(d)'
  <2>1. CASE d = c
    BY <1>4, <2>1 DEF Established, Spent
  <2>2. CASE d # c
    BY <1>1, <1>4, <2>2 DEF FlInv, Established
  <2> QED BY <2>1, <2>2
<1>7. OneSpender'
  <2>1. \A d, e \in FlCallbacks :
          flPc'[d] \in Spent /\ flPc'[e] \in Spent /\ flHeld[d].state = flHeld[e].state /\ flHeld[d].state # NoState
            => d = e
    BY <1>4 DEF FlInv, OneSpender, Spent
  <2>2. ASSUME NEW x \in flSessions', NEW d \in FlCallbacks, flPc'[d] \in Spent, flHeld[d].state = x.by.state
        PROVE  x.by.state = NoState
    <3>1. d # c /\ flPc[d] \in Spent
      BY <1>4, <2>2 DEF Spent
    <3>2. CASE x \in flSessions
      BY <2>2, <3>1, <3>2 DEF FlInv, OneSpender
    <3>3. CASE x = n
      BY <1>2, <2>2, <3>1, <3>3 DEF FlInv, OneSpender, h
    <3> QED BY <1>1, <3>2, <3>3
  <2> QED BY <1>1, <2>1, <2>2 DEF OneSpender
<1>8. SessionsKnown'
  <2> SUFFICES ASSUME NEW x \in flSessions'
               PROVE  /\ x.call \in FlCallbacks /\ flPc'[x.call] = "done" /\ x.by \in FlHolds
                      /\ x.by.state # NoState => flState[x.by.state] = "gone"
    BY <1>1 DEF SessionsKnown
  <2>1. CASE x = n
    BY <1>2, <1>3, <1>4, <2>1
  <2>2. CASE x \in flSessions
    BY <1>1, <1>4, <2>2 DEF FlInv, SessionsKnown
  <2> QED BY <1>1, <2>1, <2>2
<1>9. StateLogsInOnce'
  <2>1. ASSUME NEW x \in flSessions, x.by.state = h.state PROVE h.state = NoState
    BY <1>2, <2>1 DEF FlInv, OneSpender, h
  <2> QED BY <1>1, <1>2, <2>1 DEF FlInv, StateLogsInOnce
<1>10. LoginIsVouchedFor'
  <2> SUFFICES ASSUME NEW x \in flSessions'
               PROVE  /\ TokenOf(x.by) \in flVouched /\ LinkOf(x.by) \in flEver
                      /\ x.by.state # NoState => flPayload[x.by.state] = AskedBy(x.by)
                      /\ {x.by.user, x.by.org} \subseteq flBegun[x.call]
    BY <1>1 DEF LoginIsVouchedFor
  <2>1. CASE x = n
    BY <1>2, <1>3, <2>1
  <2>2. CASE x \in flSessions
    BY <2>2 DEF FlInv, LoginIsVouchedFor
  <2> QED BY <1>1, <2>1, <2>2
<1> QED BY <1>5, <1>6, <1>7, <1>8, <1>9, <1>10 DEF FlInv

(* However many callbacks arrive with a state, one of them at most logs in, *)
(* and every login rests on a link, on a token of its own nonce and on a    *)
(* user and an organization that were active while it ran.                  *)
THEOREM FederatedLoginsAreFounded ==
  ASSUME FederatedAssumption
  PROVE  FlSpec => [](StateLogsInOnce /\ LoginIsVouchedFor)
<1>1. FlInit => FlInv
  BY FlInitInv
<1>2. FlInv /\ [FlNext]_flVars => FlInv'
  <2>1. FlInv /\ FlNext => FlInv'
    BY AroundStep, RequestStep, SessionStep DEF FlNext
  <2>2. FlInv /\ UNCHANGED flVars => FlInv'
    BY DEF flVars, FlInv, FlTypes, Established, OneSpender, SessionsKnown, StateLogsInOnce, LoginIsVouchedFor
  <2> QED BY <2>1, <2>2
<1>3. FlInv => StateLogsInOnce /\ LoginIsVouchedFor
  BY DEF FlInv
<1> QED BY <1>1, <1>2, <1>3, PTL DEF FlSpec

-----------------------------------------------------------------------------
(***************************************************************************)
(* Field policies and exports (DataPolicy).  DpInv says what an export that *)
(* has read its catalog still knows: what it holds came from valid policies *)
(* and agrees with the table except in the keys stored since.               *)
(***************************************************************************)
DpTypes ==
  /\ DOMAIN dpStored = DpOrgs
  /\ \A o \in DpOrgs : \A k \in DOMAIN dpStored[o] : dpStored[o][k] \in FieldPolicies
  /\ dpPc \in [DpExports -> {"new", "read", "done"}]
  /\ dpAsk \in [DpExports -> ExportOptions]
  /\ DOMAIN dpCatalog = DpExports
  /\ dpStale \in [DpExports -> SUBSET DpKeys]

CatalogSound(x) ==
  dpPc[x] = "read" =>
    /\ \A k \in DOMAIN dpCatalog[x] :
         \E p \in FieldPolicies : PolicyValid(p) /\ dpCatalog[x][k] = Effective(p)
    /\ \A k \in DOMAIN dpCatalog[x] \ dpStale[x] :
         k \in DOMAIN dpStored[dpAsk[x].org] /\ dpCatalog[x][k] = Effective(dpStored[dpAsk[x].org][k])

StoredIsKnown == \A o \in DpOrgs : \A k \in DOMAIN dpStored[o] : \E t \in dpEver : t[1] = o /\ t[2] = k

DpInv ==
  /\ DpTypes /\ CatalogLoads /\ StoredIsKnown /\ (\A x \in DpExports : CatalogSound(x))
  /\ SensitiveIsGoverned /\ FollowsCurrentPolicy /\ EvidenceIsFounded

\* What NewCatalog adds to a policy, and what it leaves alone.
LEMMA EffectiveFacts ==
  ASSUME NEW p \in FieldPolicies
  PROVE  /\ Effective(p).class = p.class /\ Effective(p).mask = p.mask
         /\ p.class \in Sensitive => Effective(p).approval /\ Effective(p).watermark
BY DEF FieldPolicies, Effective

\* A mask of a sensitive field hides something, but for the boundary values.
LEMMA MaskHides ==
  ASSUME NEW v \in CellValues, NEW m \in MaskStrategies, m # "none", ~ShownWhole(m, v), DataPolicyAssumption
  PROVE  Hidden(m, v) > 0
BY DEF CellValues, MaskStrategies, ShownWhole, Hidden, DataPolicyAssumption

LEMMA DpInitInv ==
  ASSUME DpInit
  PROVE  DpInv
BY DEF DpInit, DpInv, DpTypes, CatalogLoads, StoredIsKnown, CatalogSound, SensitiveIsGoverned,
   FollowsCurrentPolicy, EvidenceIsFounded

LEMMA UpsertStep ==
  ASSUME DpInv, NEW o \in DpOrgs, NEW k \in DpKeys, NEW p \in FieldPolicies, Upsert(o, k, p)
  PROVE  DpInv'
<1>1. /\ DOMAIN dpStored' = DpOrgs
      /\ \A q \in DpOrgs : q # o => dpStored'[q] = dpStored[q]
      /\ DOMAIN dpStored'[o] = DOMAIN dpStored[o] \cup {k}
      /\ dpStored'[o][k] = p
      /\ \A j \in DOMAIN dpStored[o] : j # k => dpStored'[o][j] = dpStored[o][j]
  BY DEF DpInv, DpTypes, Upsert
<1>2. UNCHANGED <<dpPc, dpAsk, dpCatalog, dpRendered, dpEvidence>> /\ dpEver' = dpEver \cup {<<o, k, p>>}
  BY DEF Upsert
<1>3. /\ dpStale' \in [DpExports -> SUBSET DpKeys]
      /\ \A x \in DpExports : dpStale[x] \subseteq dpStale'[x] /\ (dpAsk[x].org = o => k \in dpStale'[x])
  BY DEF DpInv, DpTypes, Upsert
<1>4. DpTypes'
  <2>1. \A q \in DpOrgs : \A j \in DOMAIN dpStored'[q] : dpStored'[q][j] \in FieldPolicies
    <3> TAKE q \in DpOrgs
    <3>1. CASE q = o
      BY <1>1, <3>1 DEF DpInv, DpTypes
    <3>2. CASE q # o
      BY <1>1, <3>2 DEF DpInv, DpTypes
    <3> QED BY <3>1, <3>2
  <2> QED BY <1>1, <1>2, <1>3, <2>1 DEF DpInv, DpTypes
<1>5. CatalogLoads'
  <2> SUFFICES ASSUME NEW q \in DpOrgs, NEW j \in DOMAIN dpStored'[q]
               PROVE  PolicyValid(dpStored'[q][j])
    BY DEF CatalogLoads
  <2>1. CASE q = o /\ j = k
    BY <1>1, <2>1 DEF Upsert
  <2>2. CASE q = o /\ j # k
    BY <1>1, <2>2 DEF DpInv, CatalogLoads
  <2>3. CASE q # o
    BY <1>1, <2>3 DEF DpInv, CatalogLoads
  <2> QED BY <2>1, <2>2, <2>3
<1>6. StoredIsKnown' /\ EvidenceIsFounded'
  <2>1. \A t : t \in dpEver => t \in dpEver'
    BY <1>2
  <2>2. \E t \in dpEver' : t[1] = o /\ t[2] = k
    <3>1. <<o, k, p>> \in dpEver' /\ <<o, k, p>>[1] = o /\ <<o, k, p>>[2] = k
      BY <1>2
    <3> QED BY <3>1, Zenon
  <2>3. StoredIsKnown'
    <3> SUFFICES ASSUME NEW q \in DpOrgs, NEW j \in DOMAIN dpStored'[q]
                 PROVE  \E t \in dpEver' : t[1] = q /\ t[2] = j
      BY DEF StoredIsKnown
    <3>1. CASE q = o /\ j = k
      BY <2>2, <3>1
    <3>2. CASE ~(q = o /\ j = k)
      BY <1>1, <2>1, <3>2 DEF DpInv, StoredIsKnown
    <3> QED BY <3>1, <3>2
  <2>4. EvidenceIsFounded'
    BY <1>2, <2>1 DEF DpInv, EvidenceIsFounded
  <2> QED BY <2>3, <2>4
<1>7. ASSUME NEW x \in DpExports
      PROVE  CatalogSound(x)'
  <2>1. dpPc' = dpPc /\ dpCatalog' = dpCatalog /\ dpAsk' = dpAsk
    BY <1>2
  <2>2. dpAsk[x].org \in DpOrgs
    BY DEF DpInv, DpTypes, ExportOptions
  <2>3. ASSUME dpPc[x] = "read", NEW j \in DOMAIN dpCatalog[x] \ dpStale'[x]
        PROVE  /\ j \in DOMAIN dpStored'[dpAsk[x].org]
               /\ dpCatalog[x][j] = Effective(dpStored'[dpAsk[x].org][j])
    <3>1. /\ j \in DOMAIN dpStored[dpAsk[x].org]
          /\ dpCatalog[x][j] = Effective(dpStored[dpAsk[x].org][j])
      BY <1>3, <2>3 DEF DpInv, CatalogSound
    <3>2. CASE dpAsk[x].org = o
      BY <1>1, <1>3, <2>3, <3>1, <3>2
    <3>3. CASE dpAsk[x].org # o
      BY <1>1, <2>2, <3>1, <3>3
    <3> QED BY <3>2, <3>3
  <2> QED BY <2>1, <2>3 DEF DpInv, CatalogSound
<1>8. SensitiveIsGoverned' /\ FollowsCurrentPolicy'
  BY <1>2 DEF DpInv, SensitiveIsGoverned, FollowsCurrentPolicy
<1> QED BY <1>4, <1>5, <1>6, <1>7, <1>8 DEF DpInv

LEMMA ReadStep ==
  ASSUME DpInv, NEW x \in DpExports, ReadCatalog(x)
  PROVE  DpInv'
<1> DEFINE o == dpAsk[x].org
<1>1. UNCHANGED <<dpAsk, dpStored, dpRendered, dpEvidence, dpEver>>
  BY DEF ReadCatalog
<1>2. DpTypes'
  BY DEF ReadCatalog, DpInv, DpTypes
<1>3. o \in DpOrgs
  BY DEF DpInv, DpTypes, ExportOptions
<1>4. \A y \in DpExports : y # x => dpPc'[y] = dpPc[y] /\ dpCatalog'[y] = dpCatalog[y] /\ dpStale'[y] = dpStale[y]
  BY DEF ReadCatalog, DpInv, DpTypes
<1>5. dpCatalog'[x] = [k \in DOMAIN dpStored[o] |-> Effective(dpStored[o][k])]
  BY DEF ReadCatalog, DpInv, DpTypes
<1>6. CatalogSound(x)'
  <2>1. \A k \in DOMAIN dpStored[o] : dpStored[o][k] \in FieldPolicies /\ PolicyValid(dpStored[o][k])
    BY <1>3 DEF DpInv, DpTypes, CatalogLoads
  <2> QED BY <1>1, <1>5, <2>1 DEF CatalogSound
<1>7. ASSUME NEW y \in DpExports PROVE CatalogSound(y)'
  <2>1. CASE y = x
    BY <1>6, <2>1
  <2>2. CASE y # x
    BY <1>1, <1>4, <2>2 DEF DpInv, CatalogSound
  <2> QED BY <2>1, <2>2
<1> QED BY <1>1, <1>2, <1>7 DEF DpInv, CatalogLoads, StoredIsKnown, SensitiveIsGoverned, FollowsCurrentPolicy,
      EvidenceIsFounded

LEMMA RenderStep ==
  ASSUME DataPolicyAssumption, DpInv, NEW x \in DpExports, NEW rows \in 0..MaximumRows,
         NEW cell \in [DpKeys -> CellValues], RenderExport(x, rows, cell)
  PROVE  DpInv'
<1> DEFINE e == dpAsk[x]
           c == dpCatalog[x]
           r == [ask |-> e, rows |-> rows, cell |-> cell, stale |-> dpStale[x], stored |-> dpStored[e.org],
                 policy |-> [k \in e.keys |-> c[k]], hidden |-> [k \in e.keys |-> Hidden(c[k].mask, cell[k])]]
<1>1. UNCHANGED <<dpAsk, dpCatalog, dpStale, dpStored, dpEvidence, dpEver>> /\ dpRendered' = dpRendered \cup {r}
  BY DEF RenderExport
<1>2. DpTypes' /\ \A y \in DpExports : CatalogSound(y)'
  <2>1. dpPc' \in [DpExports -> {"new", "read", "done"}]
        /\ \A y \in DpExports : dpPc'[y] = "read" => dpPc[y] = "read"
    BY DEF RenderExport, DpInv, DpTypes
  <2> QED BY <1>1, <2>1 DEF DpInv, DpTypes, CatalogSound
<1>3. dpPc[x] = "read" /\ AuthorizeExport(c, e) /\ e.keys \subseteq DpKeys
  BY DEF RenderExport, DpInv, DpTypes, ExportOptions
<1>4. ASSUME NEW k \in e.keys
      PROVE  /\ c[k].class \in Sensitive =>
                  /\ e.approval /\ e.watermark
                  /\ ~ShownWhole(c[k].mask, cell[k]) => Hidden(c[k].mask, cell[k]) > 0
             /\ k \notin dpStale[x] => k \in DOMAIN dpStored[e.org] /\ c[k] = Effective(dpStored[e.org][k])
  <2>1. k \in DOMAIN c /\ (c[k].approval => e.approval) /\ (c[k].watermark => e.watermark)
    BY <1>3, <1>4 DEF AuthorizeExport
  <2>2. PICK p \in FieldPolicies : PolicyValid(p) /\ c[k] = Effective(p)
    BY <1>3, <2>1 DEF DpInv, CatalogSound
  <2>3. /\ c[k].class = p.class /\ c[k].mask = p.mask
        /\ p.class \in Sensitive => c[k].approval /\ c[k].watermark
    BY <2>2, EffectiveFacts
  <2>4. p.mask \in MaskStrategies /\ (p.class \in Sensitive => p.mask # "none")
    BY <2>2 DEF PolicyValid
  <2>5. cell[k] \in CellValues
    BY <1>3, <1>4
  <2>6. p.class \in Sensitive /\ ~ShownWhole(p.mask, cell[k]) => Hidden(p.mask, cell[k]) > 0
    BY <2>4, <2>5, MaskHides
  <2>7. k \notin dpStale[x] => k \in DOMAIN dpStored[e.org] /\ c[k] = Effective(dpStored[e.org][k])
    BY <1>3, <2>1 DEF DpInv, CatalogSound
  <2> QED BY <2>1, <2>3, <2>6, <2>7
<1>5. SensitiveIsGoverned'
  <2>1. /\ r.ask = e /\ r.cell = cell
        /\ \A k \in e.keys : r.policy[k] = c[k] /\ r.hidden[k] = Hidden(c[k].mask, cell[k])
    OBVIOUS
  <2> HIDE DEF r, c, e
  <2> SUFFICES ASSUME NEW q \in dpRendered', NEW k \in q.ask.keys, q.policy[k].class \in Sensitive
               PROVE  /\ q.ask.approval /\ q.ask.watermark
                      /\ ~ShownWhole(q.policy[k].mask, q.cell[k]) => q.hidden[k] > 0
    BY DEF SensitiveIsGoverned
  <2>2. CASE q = r
    BY <1>4, <2>1, <2>2
  <2>3. CASE q \in dpRendered
    BY <2>3 DEF DpInv, SensitiveIsGoverned
  <2> QED BY <1>1, <2>2, <2>3
<1>6. FollowsCurrentPolicy'
  <2>1. /\ r.ask = e /\ r.stale = dpStale[x] /\ r.stored = dpStored[e.org]
        /\ \A k \in e.keys : r.policy[k] = c[k]
    OBVIOUS
  <2> HIDE DEF r, c, e
  <2> SUFFICES ASSUME NEW q \in dpRendered', NEW k \in q.ask.keys \ q.stale
               PROVE  k \in DOMAIN q.stored /\ q.policy[k] = Effective(q.stored[k])
    BY DEF FollowsCurrentPolicy
  <2>2. CASE q = r
    BY <1>4, <2>1, <2>2
  <2>3. CASE q \in dpRendered
    BY <2>3 DEF DpInv, FollowsCurrentPolicy
  <2> QED BY <1>1, <2>2, <2>3
<1> QED BY <1>1, <1>2, <1>5, <1>6 DEF DpInv, CatalogLoads, StoredIsKnown, EvidenceIsFounded

LEMMA EvidenceStep ==
  ASSUME DpInv, NEW i \in DpProofs, NEW o \in DpOrgs, NEW keys \in SUBSET DpKeys, RecordDeletionEvidence(i, o, keys)
  PROVE  DpInv'
<1> DEFINE row == [id |-> i, org |-> o, keys |-> keys]
<1>1. UNCHANGED <<dpStored, dpPc, dpAsk, dpCatalog, dpStale, dpRendered, dpEver>> /\ dpEvidence' = dpEvidence \cup {row}
  BY DEF RecordDeletionEvidence, exportVars
<1>2. \A k \in keys : \E t \in dpEver : t[1] = o /\ t[2] = k
  BY DEF RecordDeletionEvidence, DpInv, StoredIsKnown
<1>3. EvidenceIsFounded'
  BY <1>1, <1>2 DEF DpInv, EvidenceIsFounded
<1> QED BY <1>1, <1>3 DEF DpInv, DpTypes, CatalogLoads, StoredIsKnown, CatalogSound, SensitiveIsGoverned,
      FollowsCurrentPolicy

LEMMA DpNextInv ==
  ASSUME DataPolicyAssumption, DpInv, [DpNext]_dpVars
  PROVE  DpInv'
<1>1. ASSUME NEW x \in DpExports, RefuseExport(x)
      PROVE  DpInv'
  <2>1. dpPc' \in [DpExports -> {"new", "read", "done"}]
        /\ \A y \in DpExports : dpPc'[y] = "read" => dpPc[y] = "read"
    BY <1>1 DEF RefuseExport, DpInv, DpTypes
  <2> QED BY <1>1, <2>1 DEF RefuseExport, DpInv, DpTypes, CatalogLoads, StoredIsKnown, CatalogSound,
        SensitiveIsGoverned, FollowsCurrentPolicy, EvidenceIsFounded
<1>2. UNCHANGED dpVars => DpInv'
  BY DEF dpVars, exportVars, DpInv, DpTypes, CatalogLoads, StoredIsKnown, CatalogSound, SensitiveIsGoverned,
     FollowsCurrentPolicy, EvidenceIsFounded
<1> QED BY <1>1, <1>2, UpsertStep, ReadStep, RenderStep, EvidenceStep DEF DpNext

(* The catalog of every organization always loads, and every export that    *)
(* was ever rendered is approved, watermarked and masked as the policies it *)
(* read demand, and as those in force demand unless they changed meanwhile. *)
THEOREM ExportsFollowPolicies ==
  ASSUME DataPolicyAssumption
  PROVE  DpSpec => [](CatalogLoads /\ SensitiveIsGoverned /\ FollowsCurrentPolicy)
<1>1. DpInit => DpInv
  BY DpInitInv
<1>2. DpInv /\ [DpNext]_dpVars => DpInv'
  BY DpNextInv
<1>3. DpInv => CatalogLoads /\ SensitiveIsGoverned /\ FollowsCurrentPolicy
  BY DEF DpInv
<1> QED BY <1>1, <1>2, <1>3, PTL DEF DpSpec

(* Evidence of deletions is append-only and names registered fields.        *)
THEOREM DeletionEvidenceIsSound ==
  ASSUME DataPolicyAssumption
  PROVE  DpSpec => []EvidenceIsFounded /\ EvidenceIsKept
<1>1. DpInit => DpInv
  BY DpInitInv
<1>2. DpInv /\ [DpNext]_dpVars => DpInv'
  BY DpNextInv
<1>3. DpInv => EvidenceIsFounded
  BY DEF DpInv
<1>4. [DpNext]_dpVars => [dpEvidence \subseteq dpEvidence']_dpVars
  BY DEF DpNext, dpVars, Upsert, ReadCatalog, RenderExport, RefuseExport, RecordDeletionEvidence
<1> QED BY <1>1, <1>2, <1>3, <1>4, PTL DEF DpSpec, EvidenceIsKept

-----------------------------------------------------------------------------
(***************************************************************************)
(* The breaker, the bulkhead and the limiter (Resilience).  RsInv bounds    *)
(* what is admitted by what is counted: an admitted request has increased   *)
(* the counter of its window first.                                         *)
(***************************************************************************)
LimiterInv ==
  /\ allowed <= shared.count /\ allowed <= RateLimit
  /\ \A p \in RsReplicas : admitted[p] <= localEntry[p].count /\ localEntry[p].count <= RateLimit

RsInv == RsTypeOK /\ OpeningsArePaidFor /\ IsFiniteSet(slots) /\ SlotsAreBounded /\ LimiterInv

LEMMA RsInitInv ==
  ASSUME ResilienceAssumption, RsInit
  PROVE  RsInv
<1>1. RsTypeOK
  BY DEF ResilienceAssumption, RsInit, RsTypeOK, RateEntries, NotOpen
<1>2. OpeningsArePaidFor /\ LimiterInv
  BY DEF ResilienceAssumption, RsInit, OpeningsArePaidFor, LimiterInv
<1>3. IsFiniteSet(slots) /\ SlotsAreBounded
  <2>1. slots = {} /\ slots = {w \in RsWorkers : rsWork[w] = "running"}
    BY DEF RsInit
  <2> QED BY <2>1, FS_EmptySet DEF ResilienceAssumption, SlotsAreBounded
<1> QED BY <1>1, <1>2, <1>3 DEF RsInv

LEMMA BreakerStep ==
  ASSUME ResilienceAssumption, RsInv,
         RsTick \/ \E c \in RsCalls : Enter(c) \/ RefuseOpen(c) \/ Succeed(c) \/ FailExecution(c)
  PROVE  RsInv'
<1>1. slots' = slots /\ rsWork' = rsWork /\ UNCHANGED limiterVars
  BY DEF RsTick, Enter, RefuseOpen, Succeed, FailExecution, Leave, bulkheadVars
<1>2. IsFiniteSet(slots)' /\ SlotsAreBounded' /\ LimiterInv'
  BY <1>1 DEF RsInv, SlotsAreBounded, LimiterInv, limiterVars
<1>3. CASE RsTick
  BY <1>1, <1>2, <1>3 DEF RsInv, RsTypeOK, OpeningsArePaidFor, RsTick, breakerVars, limiterVars, ResilienceAssumption
<1>4. ASSUME NEW c \in RsCalls, Enter(c) \/ RefuseOpen(c) \/ Succeed(c) \/ FailExecution(c)
      PROVE  RsTypeOK' /\ OpeningsArePaidFor'
  <2>1. rsCall' \in [RsCalls -> {"new", "running", "done"}] /\ rsNow' = rsNow
    BY <1>4 DEF RsInv, RsTypeOK, Enter, RefuseOpen, Succeed, FailExecution, Leave
  <2>2. /\ failures' \in Nat /\ openedAt' \in 0..NotOpen /\ rsFailed' \in Nat /\ rsPaid' \in Nat
        /\ OpeningsArePaidFor'
    BY <1>4 DEF RsInv, RsTypeOK, OpeningsArePaidFor, Enter, RefuseOpen, Succeed, FailExecution, Leave, NotOpen,
       ResilienceAssumption
  <2> QED BY <1>1, <2>1, <2>2 DEF RsInv, RsTypeOK, limiterVars
<1> QED BY <1>2, <1>3, <1>4 DEF RsInv

LEMMA BulkheadStep ==
  ASSUME ResilienceAssumption, RsInv, NEW w \in RsWorkers, TakeSlot(w) \/ FreeSlot(w)
  PROVE  RsInv'
<1>1. UNCHANGED <<rsNow, failures, openedAt, rsCall, rsFailed, rsPaid, shared, localEntry, allowed, admitted>>
  BY DEF TakeSlot, FreeSlot, breakerVars, limiterVars
<1>2. rsWork' \in [RsWorkers -> {"new", "running", "done"}] /\ slots' \in SUBSET RsWorkers
  BY DEF RsInv, RsTypeOK, TakeSlot, FreeSlot
<1>3. slots' = {v \in RsWorkers : rsWork'[v] = "running"}
  BY DEF RsInv, RsTypeOK, SlotsAreBounded, TakeSlot, FreeSlot
<1>4. IsFiniteSet(slots') /\ Cardinality(slots') <= Slots
  <2>1. IsFiniteSet(slots) /\ Cardinality(slots) \in Nat /\ Cardinality(slots) <= Slots
    BY FS_CardinalityType DEF RsInv, SlotsAreBounded
  <2>2. CASE slots' = slots
    BY <2>1, <2>2
  <2>3. CASE slots' = slots \cup {w} /\ Cardinality(slots) < Slots
    <3>1. /\ IsFiniteSet(slots \cup {w})
          /\ Cardinality(slots \cup {w}) \in {Cardinality(slots), Cardinality(slots) + 1}
      BY <2>1, FS_AddElement
    <3>2. Slots \in Nat
      BY DEF ResilienceAssumption
    <3> QED BY <2>1, <2>3, <3>1, <3>2
  <2>4. CASE slots' = slots \ {w}
    BY <2>1, <2>4, FS_RemoveElement DEF ResilienceAssumption
  <2> QED BY <2>2, <2>3, <2>4 DEF TakeSlot, FreeSlot
<1>5. RsTypeOK' /\ OpeningsArePaidFor' /\ LimiterInv'
  BY <1>1, <1>2 DEF RsInv, RsTypeOK, OpeningsArePaidFor, LimiterInv
<1> QED BY <1>3, <1>4, <1>5 DEF RsInv, SlotsAreBounded

LEMMA LimiterStep ==
  ASSUME ResilienceAssumption, RsInv, AllowShared \/ SharedFails \/ \E p \in RsReplicas : AllowLocal(p)
  PROVE  RsInv'
<1>1. UNCHANGED <<rsNow, failures, openedAt, rsCall, rsFailed, rsPaid, slots, rsWork>>
  BY DEF AllowShared, SharedFails, AllowLocal, breakerVars, bulkheadVars
<1>2. CASE AllowShared \/ SharedFails
  <2>1. UNCHANGED <<localEntry, admitted>>
    BY <1>2 DEF AllowShared, SharedFails
  <2>2. /\ shared.count \in Nat /\ shared.until \in 0..(RsHorizon + RateWindow)
        /\ shared = [count |-> shared.count, until |-> shared.until]
        /\ allowed \in Nat /\ allowed <= shared.count /\ allowed <= RateLimit /\ rsNow \in 0..RsHorizon
    BY DEF RsInv, RsTypeOK, RateEntries, LimiterInv
  <2>3. Increment => /\ shared' \in RateEntries
                     /\ shared'.count = 1 \/ shared'.count = shared.count + 1
    BY <2>2 DEF Increment, RateEntries, ResilienceAssumption
  <2>4. shared' \in RateEntries /\ allowed' \in Nat /\ allowed' <= shared'.count /\ allowed' <= RateLimit
    BY <1>2, <2>2, <2>3 DEF AllowShared, SharedFails, ResilienceAssumption, RateEntries
  <2> QED BY <1>1, <2>1, <2>4 DEF RsInv, RsTypeOK, OpeningsArePaidFor, SlotsAreBounded, LimiterInv
<1>3. ASSUME NEW p \in RsReplicas, AllowLocal(p)
      PROVE  RsInv'
  <2> DEFINE e == IF Fresh(localEntry[p]) THEN [count |-> 0, until |-> rsNow + RateWindow] ELSE localEntry[p]
             n == IF Fresh(localEntry[p]) THEN 0 ELSE admitted[p]
             f == [count |-> e.count + 1, until |-> e.until]
  <2>1. e \in RateEntries /\ n \in Nat /\ n <= e.count /\ e.count <= RateLimit
    BY DEF RsInv, RsTypeOK, LimiterInv, RateEntries, ResilienceAssumption
  <2>2. f \in RateEntries /\ f.count = e.count + 1
    BY <2>1 DEF RateEntries
  <2>3. \/ e.count >= RateLimit /\ localEntry' = [localEntry EXCEPT ![p] = e]
           /\ admitted' = [admitted EXCEPT ![p] = n]
        \/ e.count < RateLimit /\ localEntry' = [localEntry EXCEPT ![p] = f]
           /\ admitted' = [admitted EXCEPT ![p] = n + 1]
    BY <1>3 DEF AllowLocal
  <2>4. e.count \in Nat
    BY <2>1 DEF RateEntries
  <2>5. UNCHANGED <<shared, allowed>>
    BY <1>3 DEF AllowLocal
  <2> HIDE DEF e, n, f
  <2>6. /\ localEntry' \in [RsReplicas -> RateEntries] /\ admitted' \in [RsReplicas -> Nat]
        /\ \A q \in RsReplicas : admitted'[q] <= localEntry'[q].count /\ localEntry'[q].count <= RateLimit
    BY <2>1, <2>2, <2>3, <2>4 DEF RsInv, RsTypeOK, LimiterInv, ResilienceAssumption
  <2> QED BY <1>1, <2>5, <2>6 DEF RsInv, RsTypeOK, OpeningsArePaidFor, SlotsAreBounded, LimiterInv
<1> QED BY <1>2, <1>3

(* The breaker opens only for failures of its own, the bulkhead never       *)
(* exceeds or leaks its slots and the limiter never admits more than its    *)
(* limit, for any number of calls, workers and replicas.                    *)
THEOREM ProtectionsHold ==
  ASSUME ResilienceAssumption
  PROVE  RsSpec => [](OpeningsArePaidFor /\ SlotsAreBounded /\ WithinLimit)
<1>1. RsInit => RsInv
  BY RsInitInv
<1>2. RsInv /\ [RsNext]_rsVars => RsInv'
  <2>1. RsInv /\ RsNext => RsInv'
    BY BreakerStep, BulkheadStep, LimiterStep DEF RsNext
  <2>2. RsInv /\ UNCHANGED rsVars => RsInv'
    BY DEF rsVars, breakerVars, bulkheadVars, limiterVars, RsInv, RsTypeOK, OpeningsArePaidFor, SlotsAreBounded,
       LimiterInv
  <2> QED BY <2>1, <2>2
<1>3. RsInv => OpeningsArePaidFor /\ SlotsAreBounded /\ WithinLimit
  <2>1. RsInv => WithinLimit
    BY DEF RsInv, RsTypeOK, LimiterInv, WithinLimit, ResilienceAssumption, RateEntries
  <2> QED BY <2>1 DEF RsInv
<1> QED BY <1>1, <1>2, <1>3, PTL DEF RsSpec
=============================================================================
