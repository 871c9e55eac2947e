----------------------------- MODULE Directory -----------------------------
(***************************************************************************)
(* The directory of one organisation (internal/app/identity/service.go and *)
(* its repository): the tree of departments, the positions in them, the    *)
(* assignments of users, and the data scopes of the roles.  Every change   *)
(* runs in a transaction of its own (audited) that first reads the         *)
(* departments with SELECT ... FOR UPDATE and decides on what it read.     *)
(*                                                                         *)
(* The statement sees the rows that existed when it began and waits for    *)
(* their locks; the values it returns are the latest ones.  With Phantoms  *)
(* (PostgreSQL, READ COMMITTED) a row inserted while it waits stays unseen *)
(* and unlocked; without (MySQL, next-key locks) it is seen.  The checks   *)
(* and the write that follow are separate statements of the transaction.   *)
(***************************************************************************)
EXTENDS Naturals, FiniteSets

CONSTANTS Departments, Positions, Users, Roles,
          Admin,        \* the role system_admin
          Root,         \* no parent (parent_id NULL); also "no position"
          Transactions, \* requests that may overlap
          Phantoms      \* are rows inserted during the wait left out?

\* What the proofs need of the constants.
DirectoryAssumption ==
  /\ Root \notin Departments /\ Root \notin Positions
  /\ Admin \in Roles
  /\ Phantoms \in BOOLEAN

DirStatuses == {"ACTIVE", "DISABLED"}
ScopeTypes == {"ORGANIZATION", "DEPARTMENT", "DEPARTMENT_TREE", "SELF", "CUSTOM"}

\* valid_from and valid_until against the clock.
Periods == {"future", "current", "past"}
AssignmentRows ==
  [department : Departments, position : Positions \cup {Root},
   primary : BOOLEAN, period : Periods]

\* What a request is about to write: a department under up, or a position in up.
NoRequest == [op |-> "none", id |-> Root, up |-> Root, status |-> "ACTIVE"]
Requests ==
  [op : {"none", "create", "update", "position"},
   id : Departments \cup Positions \cup {Root}, up : Departments \cup {Root},
   status : DirStatuses]

VARIABLES
  dstatus,     \* dstatus[d]: the department's status, NONE before the row exists
  parent,      \* parent[d]: its parent_id
  position,    \* position[p]: department (Root before the row exists) and status
  assignments, \* assignments[u]: the rows of user_assignments
  scopeType,   \* scopeType[r]: data_scope_type of the role
  scopeDepts,  \* scopeDepts[r]: its rows of role_data_scope_departments
  dpc,         \* dpc[t]: idle, wait (for the row locks), locked or write
  seen,        \* seen[t]: the departments that t reads and locks
  req          \* req[t]: the row of a department or position that t will write

treeVars == <<dstatus, parent>>
peopleVars == <<position, assignments>>
scopeVars == <<scopeType, scopeDepts>>
lockVars == <<dpc, seen, req>>
dirVars == <<treeVars, peopleVars, scopeVars, lockVars>>

Existing == {d \in Departments : dstatus[d] # "NONE"}

DirTypeOK ==
  /\ dstatus \in [Departments -> DirStatuses \cup {"NONE"}]
  /\ parent \in [Departments -> Departments \cup {Root}]
  /\ position \in [Positions -> [department : Departments \cup {Root}, status : DirStatuses]]
  /\ assignments \in [Users -> SUBSET AssignmentRows]
  /\ scopeType \in [Roles -> ScopeTypes]
  /\ scopeDepts \in [Roles -> SUBSET Departments]
  /\ dpc \in [Transactions -> {"idle", "wait", "locked", "write"}]
  /\ seen \in [Transactions -> SUBSET Departments]
  /\ req \in [Transactions -> Requests]

\* Bootstrap: no departments; the administrator's scope is the organisation.
DirInit ==
  /\ dstatus = [d \in Departments |-> "NONE"]
  /\ parent = [d \in Departments |-> Root]
  /\ position = [p \in Positions |-> [department |-> Root, status |-> "DISABLED"]]
  /\ assignments = [u \in Users |-> {}]
  /\ scopeType \in [Roles -> {"ORGANIZATION", "SELF"}]
  /\ scopeType[Admin] = "ORGANIZATION"
  /\ scopeDepts = [r \in Roles |-> {}]
  /\ dpc = [t \in Transactions |-> "idle"]
  /\ seen = [t \in Transactions |-> {}]
  /\ req = [t \in Transactions |-> NoRequest]

-----------------------------------------------------------------------------
(* ListDepartmentsForUpdate starts: the rows it will return are fixed.     *)
BeginList(t) ==
  /\ dpc[t] = "idle"
  /\ dpc' = [dpc EXCEPT ![t] = "wait"]
  /\ seen' = [seen EXCEPT ![t] = Existing]
  /\ UNCHANGED <<treeVars, peopleVars, scopeVars, req>>

Holding == {t \in Transactions : dpc[t] \in {"locked", "write"}}

(* It returns: no other transaction holds one of its rows.  With next-key  *)
(* locks two transactions never hold the table's range together.           *)
ListDepartmentsForUpdate(t) ==
  /\ dpc[t] = "wait"
  /\ IF Phantoms
     THEN /\ \A o \in Holding : seen[o] \cap seen[t] = {}
          /\ UNCHANGED seen
     ELSE /\ Holding = {}
          /\ seen' = [seen EXCEPT ![t] = Existing]
  /\ dpc' = [dpc EXCEPT ![t] = "locked"]
  /\ UNCHANGED <<treeVars, peopleVars, scopeVars, req>>

\* The transaction ends and gives its locks back.
EndTx(t) ==
  /\ dpc' = [dpc EXCEPT ![t] = "idle"]
  /\ seen' = [seen EXCEPT ![t] = {}]
  /\ req' = [req EXCEPT ![t] = NoRequest]

\* A check fails, a statement fails or the process dies: nothing is written.
Rollback(t) ==
  /\ dpc[t] # "idle"
  /\ EndTx(t)
  /\ UNCHANGED <<treeVars, peopleVars, scopeVars>>

\* The checks have passed: r is what the next statement writes.
Decide(t, r) ==
  /\ dpc[t] = "locked"
  /\ dpc' = [dpc EXCEPT ![t] = "write"]
  /\ req' = [req EXCEPT ![t] = r]
  /\ UNCHANGED <<treeVars, peopleVars, scopeVars, seen>>

(* The walk from a parent up to a root: it stays among the rows that were  *)
(* read, does not meet the candidate and meets no department twice.        *)
WalkEnds(rows, from, candidate) ==
  from # Root =>
    \E path \in SUBSET (rows \ {candidate}) :
      /\ from \in path
      /\ \A d \in path : parent[d] \in path \cup {Root}
      /\ \A part \in SUBSET path : part # {} => \E d \in part : parent[d] \notin part

(* validateDepartmentHierarchy.  A new department has no identity yet (its *)
(* ID is ""), so that the check for active children of a DISABLED one      *)
(* looks at the departments without a parent: candidate is then Root.      *)
validateDepartmentHierarchy(rows, candidate, up, status) ==
  /\ up # Root =>
       /\ up \in rows
       /\ up # candidate
       /\ status = "ACTIVE" => dstatus[up] = "ACTIVE"
  /\ WalkEnds(rows, up, candidate)
  /\ status = "DISABLED" =>
       \A d \in rows \ {candidate} : parent[d] = candidate => dstatus[d] # "ACTIVE"

CheckCreateDepartment(t, up, status) ==
  /\ validateDepartmentHierarchy(seen[t], Root, up, status)
  /\ Decide(t, [op |-> "create", id |-> Root, up |-> up, status |-> status])

CountActivePositions(d) ==
  {p \in Positions : position[p].department = d /\ position[p].status = "ACTIVE"}

CountCurrentAssignments(d) ==
  {u \in Users : \E a \in assignments[u] : a.department = d /\ a.period = "current"}

CheckUpdateDepartment(t, d, up, status) ==
  /\ d \in seen[t]
  /\ validateDepartmentHierarchy(seen[t], d, up, status)
  /\ status = "DISABLED" =>
       CountActivePositions(d) = {} /\ CountCurrentAssignments(d) = {}
  /\ Decide(t, [op |-> "update", id |-> d, up |-> up, status |-> status])

validatePositionDepartment(rows, d, status) ==
  d \in rows /\ (status = "ACTIVE" => dstatus[d] = "ACTIVE")

\* CreatePosition and UpdatePosition check and write the same.
CheckPosition(t, p, d, status) ==
  /\ validatePositionDepartment(seen[t], d, status)
  /\ Decide(t, [op |-> "position", id |-> p, up |-> d, status |-> status])

\* The INSERT or UPDATE, and the commit.  A new department gets a fresh identity.
WriteDepartment(t, d) ==
  /\ dpc[t] = "write"
  /\ \/ req[t].op = "create" /\ d \notin Existing
     \/ req[t].op = "update" /\ d = req[t].id
  /\ dstatus' = [dstatus EXCEPT ![d] = req[t].status]
  /\ parent' = [parent EXCEPT ![d] = req[t].up]
  /\ EndTx(t)
  /\ UNCHANGED <<peopleVars, scopeVars>>

WritePosition(t, p) ==
  /\ dpc[t] = "write"
  /\ req[t].op = "position" /\ p = req[t].id
  /\ position' = [position EXCEPT ![p] =
                    [department |-> req[t].up, status |-> req[t].status]]
  /\ EndTx(t)
  /\ UNCHANGED <<treeVars, assignments, scopeVars>>

\* One assignment per department and position, and exactly one primary.
normalizeUserAssignments(rows) ==
  /\ \A a, b \in rows : a.department = b.department /\ a.position = b.position => a = b
  /\ rows # {} => \E a \in rows : \A b \in rows : b.primary <=> b = a

validateAssignmentTargets(read, rows) ==
  \A a \in rows :
    /\ a.department \in read /\ dstatus[a.department] = "ACTIVE"
    /\ a.position # Root =>
         position[a.position].department = a.department /\ position[a.position].status = "ACTIVE"

ReplaceUserAssignments(t, u, rows) ==
  /\ dpc[t] = "locked"
  /\ normalizeUserAssignments(rows)
  /\ validateAssignmentTargets(seen[t], rows)
  /\ assignments' = [assignments EXCEPT ![u] = rows]
  /\ EndTx(t)
  /\ UNCHANGED <<treeVars, position, scopeVars>>

(* UpdateRoleDataScope: only a CUSTOM scope names departments, which have  *)
(* to be active; the administrator's scope cannot be changed.              *)
UpdateRoleDataScope(t, r, type, ids) ==
  /\ dpc[t] = "locked"
  /\ r # Admin
  /\ type = "CUSTOM" => ids # {} /\ \A d \in ids : d \in seen[t] /\ dstatus[d] = "ACTIVE"
  /\ type # "CUSTOM" => ids = {}
  /\ scopeType' = [scopeType EXCEPT ![r] = type]
  /\ scopeDepts' = [scopeDepts EXCEPT ![r] = ids]
  /\ EndTx(t)
  /\ UNCHANGED <<treeVars, peopleVars>>

\* The clock passes the beginning or the end of an assignment.
PassTime(u, a) ==
  /\ a \in assignments[u] /\ a.period # "past"
  /\ assignments' = [assignments EXCEPT ![u] =
       (@ \ {a}) \cup {[a EXCEPT !.period = IF @ = "future" THEN "current" ELSE "past"]}]
  /\ UNCHANGED <<treeVars, position, scopeVars, lockVars>>

DirNext ==
  \/ \E t \in Transactions :
       \/ BeginList(t) \/ ListDepartmentsForUpdate(t) \/ Rollback(t)
       \/ \E up \in Departments \cup {Root}, status \in DirStatuses :
            \/ CheckCreateDepartment(t, up, status)
            \/ \E d \in Departments : CheckUpdateDepartment(t, d, up, status)
       \/ \E p \in Positions, d \in Departments, status \in DirStatuses :
            CheckPosition(t, p, d, status)
       \/ \E d \in Departments : WriteDepartment(t, d)
       \/ \E p \in Positions : WritePosition(t, p)
       \/ \E u \in Users, rows \in SUBSET AssignmentRows : ReplaceUserAssignments(t, u, rows)
       \/ \E r \in Roles, type \in ScopeTypes, ids \in SUBSET Departments :
            UpdateRoleDataScope(t, r, type, ids)
  \/ \E u \in Users : \E a \in assignments[u] : PassTime(u, a)

DirSpec == DirInit /\ [][DirNext]_dirVars

-----------------------------------------------------------------------------
(* What a user may see (DataScopeForUser), from the set R of his roles.    *)

CurrentUserDepartmentIDs(u) ==
  {d \in Departments : \E a \in assignments[u] : a.department = d /\ a.period = "current"}

RoleDataScopeDepartments(r) == {d \in scopeDepts[r] : dstatus[d] = "ACTIVE"}

Custom(R) ==
  UNION {RoleDataScopeDepartments(r) : r \in {q \in R : scopeType[q] = "CUSTOM"}}

\* The least set with the departments own and what the walk adds below them.
Below(own, skip) ==
  {d \in Departments :
     \A S \in SUBSET Departments :
       /\ own \subseteq S
       /\ \A c \in Departments \ skip :
            dstatus[c] = "ACTIVE" /\ parent[c] \in S => c \in S
       => d \in S}

(* The walk down the tree leaves out a child that the set already holds,   *)
(* and with it the departments below it: so a CUSTOM scope hides parts of  *)
(* a DEPARTMENT_TREE scope.                                                *)
DataScopeForUser(u, R) ==
  LET types == {scopeType[r] : r \in R}
      own == IF types \cap {"DEPARTMENT", "DEPARTMENT_TREE"} # {}
             THEN CurrentUserDepartmentIDs(u) ELSE {}
      tree == IF "DEPARTMENT_TREE" \in types THEN Below(own, Custom(R)) ELSE own
  IN  IF "ORGANIZATION" \in types
      THEN [organizationWide |-> TRUE, self |-> FALSE, departments |-> {}]
      ELSE [organizationWide |-> FALSE, self |-> R = {} \/ "SELF" \in types,
            departments |-> Custom(R) \cup tree]

Allows(scope, u, d, actor) ==
  \/ scope.organizationWide
  \/ scope.self /\ u = actor
  \/ d \in scope.departments

\* userWithinDataScope: the check of the operations on one user.
userWithinDataScope(actor, R, u) ==
  LET scope == DataScopeForUser(actor, R)
  IN  \/ scope.organizationWide
      \/ Admin \in R
      \/ scope.self /\ actor = u
      \/ \E d \in CurrentUserDepartmentIDs(u) : Allows(scope, u, d, actor)

\* ListUsers: the users that the query selects, up to its limit.
ListUsers(actor, R) ==
  LET scope == DataScopeForUser(actor, R)
  IN  {u \in Users :
         \/ scope.organizationWide
         \/ scope.self /\ u = actor
         \/ \E a \in assignments[u] : a.period = "current" /\ a.department \in scope.departments}

-----------------------------------------------------------------------------
(* PROPERTIES *)

(* However updates of departments overlap, no department becomes its own   *)
(* ancestor: every set of departments has a member with its parent outside.*)
Acyclic ==
  \A S \in SUBSET Departments : S # {} => \E d \in S : parent[d] \notin S

(* An active position is in an active department: the check of one request *)
(* and the count of the other exclude each other through the row locks,    *)
(* phantoms or not.                                                        *)
PositionsInActive ==
  \A p \in Positions :
    position[p].status = "ACTIVE" =>
      position[p].department \in Departments /\ dstatus[position[p].department] = "ACTIVE"

(* Without phantoms an active department has an active parent.  With them  *)
(* a department created while another request waits to disable its parent  *)
(* is missed by the check of that request.                                 *)
ActiveUnderActive ==
  ~Phantoms =>
    \A d \in Departments :
      dstatus[d] = "ACTIVE" /\ parent[d] # Root => dstatus[parent[d]] = "ACTIVE"

(* The list of users and the check of the operations on one user agree on  *)
(* who is visible, for every actor and every set of roles.                 *)
SameVisibility ==
  \A actor \in Users, R \in SUBSET Roles :
    ListUsers(actor, R) = {u \in Users : userWithinDataScope(actor, R, u)}

=============================================================================
