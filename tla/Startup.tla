------------------------------- MODULE Startup -------------------------------
(***************************************************************************)
(* Replicas of the server that start against one database                  *)
(* (bootstrap.New, App.Run, App.Close), the rows and the administrator     *)
(* that Bootstrap creates, the security settings, and the registration in  *)
(* the service registry.                                                   *)
(*                                                                         *)
(* The rows that Bootstrap ensures, one call after the other, are numbered *)
(* in the order of the calls; SeedGrants are those of                      *)
(* GrantPermissionToRole, and Needs gives the earlier rows such a call     *)
(* reads first.  Every call reads, inserts if it found nothing, and reads  *)
(* again if the insert met the unique key; each is a step of its own.      *)
(* Replicas may be configured differently (a rolling deployment).          *)
(***************************************************************************)
EXTENDS Settings

CONSTANTS Replicas, SeedRows, SeedGrants, Needs,
          StConfig,         \* the security policy each replica's configuration gives
          AdminConfigured   \* FORGE_BOOTSTRAP_ADMIN is set

VARIABLES stPc, stRow,      \* where each replica is, and the row it ensures next
          stHeld,           \* the resources it has opened
          stRows,           \* the rows: "absent", "seeded" or "edited"
          stAdmin,          \* the administrator's account: "absent", "plain" or "admin"
          stSeen,           \* the settings a replica found
          stStored,         \* the settings table
          stEndpoints,      \* the endpoints of each replica in the registry
          stFlag,           \* registered, the replica's own belief
          stCut             \* a start that had begun to create the administrator broke off

stVars == <<stPc, stRow, stHeld, stRows, stAdmin, stSeen, stStored, stEndpoints, stFlag, stCut>>

StartupAssumption ==
  /\ SettingsAssumption
  /\ SeedRows \in Nat \ {0}
  /\ SeedGrants \subseteq 1..SeedRows
  /\ Needs \in [SeedGrants -> SUBSET (1..SeedRows)]
  /\ \A g \in SeedGrants : \A i \in Needs[g] : i < g /\ i \notin SeedGrants
  /\ \A r \in Replicas : /\ DOMAIN StConfig[r] = PolicyFields
                         /\ \A k \in PolicyFields : StConfig[r][k] \in FieldValues(k)
                         /\ \A k \in {"lock_seconds", "ttl_seconds"} :  \* made from a Duration
                              StConfig[r][k] * Second \in -HalfRange..(HalfRange - 1)
  /\ AdminConfigured \in BOOLEAN

\* What New opens, in its order, and what it closes when the next one fails.
Opening == {"trace", "database", "migrate", "cache", "bus", "rest"}

NextStage(s) ==
  CASE s = "trace" -> "database" [] s = "database" -> "migrate" [] s = "migrate" -> "cache"
    [] s = "cache" -> "bus" [] s = "bus" -> "rest" [] s = "rest" -> "read"

\* The resource a stage opens; migrate opens none, and rest is search, storage, the
\* cryptography, the registry client and the download controller, which hold nothing.
OpenedBy(s) ==
  CASE s = "trace" -> {"trace"} [] s = "database" -> {"database"} [] s = "cache" -> {"cache"}
    [] s = "bus" -> {"bus"} [] OTHER -> {}

ClosedOnFailure(s) ==
  CASE s = "trace"                -> {}
    [] s = "database"             -> {"trace"}
    [] s \in {"migrate", "cache"} -> {"database"}
    [] s = "bus"                  -> {"cache", "database"}
    [] s = "rest"                 -> {"bus", "cache", "database"}

BothEndpoints == {"http", "grpc"}

Booting ==
  {"read", "insert", "reread", "lookup", "create", "again", "grant", "grantOnly", "settings",
   "write", "ready", "registerGrpc", "rollback"}

StPlaces == {"down", "ended", "up", "stopping"} \cup Opening \cup Booting

StInit ==
  /\ stPc = [r \in Replicas |-> "down"]
  /\ stRow = [r \in Replicas |-> 1]
  /\ stHeld = [r \in Replicas |-> {}]
  /\ stRows = [i \in 1..SeedRows |-> "absent"]
  /\ stAdmin = "absent"
  /\ stSeen = [r \in Replicas |-> {}]
  /\ stStored = [k \in {} |-> 0]
  /\ stEndpoints = [r \in Replicas |-> {}]
  /\ stFlag = [r \in Replicas |-> FALSE]
  /\ stCut = FALSE

-----------------------------------------------------------------------------
(* bootstrap.New up to Bootstrap.                                          *)

Launch(r) ==
  /\ stPc[r] \in {"down", "ended"}
  /\ stPc' = [stPc EXCEPT ![r] = "trace"]
  /\ stRow' = [stRow EXCEPT ![r] = 1]
  /\ stFlag' = [stFlag EXCEPT ![r] = FALSE]
  /\ stHeld' = [stHeld EXCEPT ![r] = {}]
  /\ UNCHANGED <<stRows, stAdmin, stSeen, stStored, stEndpoints, stCut>>

OpenResource(r) ==
  /\ stPc[r] \in Opening
  /\ stHeld' = [stHeld EXCEPT ![r] = @ \cup OpenedBy(stPc[r])]
  /\ stPc' = [stPc EXCEPT ![r] = NextStage(@)]
  /\ UNCHANGED <<stRow, stRows, stAdmin, stSeen, stStored, stEndpoints, stFlag, stCut>>

\* New returns an error, and the process ends: "ended" once what it held is closed,
\* "down" where the code closes nothing (below).
FailToOpen(r) ==
  /\ stPc[r] \in Opening
  /\ stHeld' = [stHeld EXCEPT ![r] = @ \ ClosedOnFailure(stPc[r])]
  /\ stPc' = [stPc EXCEPT ![r] = "ended"]
  /\ UNCHANGED <<stRow, stRows, stAdmin, stSeen, stStored, stEndpoints, stFlag, stCut>>

-----------------------------------------------------------------------------
(* Bootstrap: the seed rows.                                               *)

\* The place after row i.
AfterRow(r) ==
  IF stRow[r] < SeedRows THEN "read" ELSE IF AdminConfigured THEN "lookup" ELSE "settings"

Advance(r) ==
  /\ stPc' = [stPc EXCEPT ![r] = AfterRow(r)]
  /\ stRow' = [stRow EXCEPT ![r] = IF @ < SeedRows THEN @ + 1 ELSE @]

Present(i) == stRows[i] # "absent"

\* GrantPermissionToRole reads the role and the permission first.
Needed(i) == IF i \in SeedGrants THEN Needs[i] ELSE {}

EnsureRead(r) ==
  /\ stPc[r] = "read"
  /\ \A i \in Needed(stRow[r]) : Present(i)
  /\ IF Present(stRow[r]) THEN Advance(r)
     ELSE stPc' = [stPc EXCEPT ![r] = "insert"] /\ UNCHANGED stRow
  /\ UNCHANGED <<stHeld, stRows, stAdmin, stSeen, stStored, stEndpoints, stFlag, stCut>>

\* A grant whose role or permission is not there fails the start.
EnsureNothingToGrant(r) ==
  /\ stPc[r] = "read"
  /\ \E i \in Needed(stRow[r]) : ~Present(i)
  /\ stPc' = [stPc EXCEPT ![r] = "down"]
  /\ UNCHANGED <<stRow, stHeld, stRows, stAdmin, stSeen, stStored, stEndpoints, stFlag, stCut>>

EnsureInsert(r) ==
  /\ stPc[r] = "insert"
  /\ IF Present(stRow[r])
       THEN /\ stPc' = [stPc EXCEPT ![r] = "reread"]
            /\ UNCHANGED <<stRow, stRows>>
       ELSE /\ stRows' = [stRows EXCEPT ![stRow[r]] = "seeded"]
            /\ Advance(r)
  /\ UNCHANGED <<stHeld, stAdmin, stSeen, stStored, stEndpoints, stFlag, stCut>>

EnsureReread(r) ==
  /\ stPc[r] = "reread"
  /\ IF Present(stRow[r]) THEN Advance(r)
     ELSE stPc' = [stPc EXCEPT ![r] = "down"] /\ UNCHANGED stRow
  /\ UNCHANGED <<stHeld, stRows, stAdmin, stSeen, stStored, stEndpoints, stFlag, stCut>>

-----------------------------------------------------------------------------
(* Bootstrap: the administrator.                                           *)

LookupAdmin(r) ==
  /\ stPc[r] = "lookup"
  /\ stPc' = [stPc EXCEPT ![r] = IF stAdmin = "absent" THEN "create" ELSE "settings"]
  /\ UNCHANGED <<stRow, stHeld, stRows, stAdmin, stSeen, stStored, stEndpoints, stFlag, stCut>>

\* CreateUser, with the loser of a race reading the account again.
CreateAdmin(r) ==
  /\ stPc[r] = "create"
  /\ IF stAdmin = "absent"
       THEN stAdmin' = "plain" /\ stPc' = [stPc EXCEPT ![r] = "grant"]
       ELSE stPc' = [stPc EXCEPT ![r] = "again"] /\ UNCHANGED stAdmin
  /\ UNCHANGED <<stRow, stHeld, stRows, stSeen, stStored, stEndpoints, stFlag, stCut>>

RereadAdmin(r) ==
  /\ stPc[r] = "again"
  /\ stPc' = [stPc EXCEPT ![r] = IF stAdmin = "absent" THEN "down" ELSE "grantOnly"]
  /\ UNCHANGED <<stRow, stHeld, stRows, stAdmin, stSeen, stStored, stEndpoints, stFlag, stCut>>

\* GrantRole; the loser of the race returns without writing the default settings.
GrantAdminRole(r) ==
  /\ stPc[r] \in {"grant", "grantOnly"}
  /\ stAdmin' = "admin"
  /\ stPc' = [stPc EXCEPT ![r] = IF @ = "grant" THEN "settings" ELSE "ready"]
  /\ UNCHANGED <<stRow, stHeld, stRows, stSeen, stStored, stEndpoints, stFlag, stCut>>

-----------------------------------------------------------------------------
(* Bootstrap: finalizeBootstrapDefaults.                                   *)

ReadStored(r) ==
  /\ stPc[r] = "settings"
  /\ stSeen' = [stSeen EXCEPT ![r] = DOMAIN stStored]
  /\ stPc' = [stPc EXCEPT ![r] = "write"]
  /\ UNCHANGED <<stRow, stHeld, stRows, stAdmin, stStored, stEndpoints, stFlag, stCut>>

WriteStored(r) ==
  /\ stPc[r] = "write"
  /\ stStored' = Upserted(stStored, [k \in PolicyFields \ stSeen[r] |-> StConfig[r][k]])
  /\ stPc' = [stPc EXCEPT ![r] = "ready"]
  /\ UNCHANGED <<stRow, stHeld, stRows, stAdmin, stSeen, stEndpoints, stFlag, stCut>>

\* The process dies, or a statement fails and New returns its error without closing.  The
\* ephemeral instances it had registered stay until their heartbeat is missed.
BreakOff(r) ==
  /\ stPc[r] \in Booting \cup {"up", "stopping"}
  /\ stPc' = [stPc EXCEPT ![r] = "down"]
  /\ stCut' = (stCut \/ stPc[r] \in {"grant", "grantOnly"})
  /\ UNCHANGED <<stRow, stHeld, stRows, stAdmin, stSeen, stStored, stEndpoints, stFlag>>

\* The endpoints that the running process has registered and sends heartbeats for.
Beating(r) ==
  CASE stPc[r] \in {"up", "stopping"}           -> BothEndpoints
    [] stPc[r] \in {"registerGrpc", "rollback"} -> {"http"}
    [] OTHER                                    -> {}

\* External: the registry drops instances of an earlier process of the replica.
MissHeartbeats(r) ==
  /\ stEndpoints' = [stEndpoints EXCEPT ![r] = @ \cap Beating(r)]
  /\ UNCHANGED <<stPc, stRow, stHeld, stRows, stAdmin, stSeen, stStored, stFlag, stCut>>

-----------------------------------------------------------------------------
(* App.Run and App.Close, with the registration of both endpoints.         *)

\* A registration that is answered with an error may have reached the registry.
RegisterFirst(r) ==
  /\ stPc[r] = "ready"
  /\ \/ /\ stEndpoints' = [stEndpoints EXCEPT ![r] = @ \cup {"http"}]
        /\ stPc' = [stPc EXCEPT ![r] = "registerGrpc"]
     \/ /\ \E done \in SUBSET {"http"} : stEndpoints' = [stEndpoints EXCEPT ![r] = @ \cup done]
        /\ stPc' = [stPc EXCEPT ![r] = "stopping"]
  /\ UNCHANGED <<stRow, stHeld, stRows, stAdmin, stSeen, stStored, stFlag, stCut>>

RegisterSecond(r) ==
  /\ stPc[r] = "registerGrpc"
  /\ \/ /\ stEndpoints' = [stEndpoints EXCEPT ![r] = @ \cup {"grpc"}]
        /\ stFlag' = [stFlag EXCEPT ![r] = TRUE]
        /\ stPc' = [stPc EXCEPT ![r] = "up"]
     \/ /\ \E done \in SUBSET {"grpc"} : stEndpoints' = [stEndpoints EXCEPT ![r] = @ \cup done]
        /\ stPc' = [stPc EXCEPT ![r] = "rollback"]
        /\ UNCHANGED stFlag
  /\ UNCHANGED <<stRow, stHeld, stRows, stAdmin, stSeen, stStored, stCut>>

\* rollbackRegistration, of the endpoint whose registration was confirmed: an error of
\* the deregistration is only reported.
RollbackRegistration(r) ==
  /\ stPc[r] = "rollback"
  /\ \E gone \in SUBSET {"http"} : stEndpoints' = [stEndpoints EXCEPT ![r] = @ \ gone]
  /\ stPc' = [stPc EXCEPT ![r] = "stopping"]
  /\ UNCHANGED <<stRow, stHeld, stRows, stAdmin, stSeen, stStored, stFlag, stCut>>

StopServing(r) ==
  /\ stPc[r] = "up"
  /\ stPc' = [stPc EXCEPT ![r] = "stopping"]
  /\ UNCHANGED <<stRow, stHeld, stRows, stAdmin, stSeen, stStored, stEndpoints, stFlag, stCut>>

\* Deregister, of Run's defer or of Close: both endpoints, or those the registry accepts.
DeregisterEndpoints(r) ==
  /\ stPc[r] = "stopping" /\ stFlag[r]
  /\ \E left \in SUBSET stEndpoints[r] :
       /\ stEndpoints' = [stEndpoints EXCEPT ![r] = left]
       /\ \E told \in BOOLEAN : stFlag' = [stFlag EXCEPT ![r] = told \/ left # {}]
  /\ UNCHANGED <<stPc, stRow, stHeld, stRows, stAdmin, stSeen, stStored, stCut>>

\* The rest of Close; what is left in the registry goes with its heartbeat.
CloseAll(r) ==
  /\ stPc[r] = "stopping"
  /\ stHeld' = [stHeld EXCEPT ![r] = {}]
  /\ stPc' = [stPc EXCEPT ![r] = "ended"]
  /\ UNCHANGED <<stRow, stRows, stAdmin, stSeen, stStored, stEndpoints, stFlag, stCut>>

-----------------------------------------------------------------------------
(* The administrators, through a replica that serves.                      *)

Serving == \E r \in Replicas : stPc[r] = "up"

\* A role's scope, a menu or the organisation is changed.
EditRow(i) ==
  /\ Serving /\ i \notin SeedGrants /\ Present(i)
  /\ stRows' = [stRows EXCEPT ![i] = "edited"]
  /\ UNCHANGED <<stPc, stRow, stHeld, stAdmin, stSeen, stStored, stEndpoints, stFlag, stCut>>

\* UpdateRolePermissions takes a seeded permission away.
RevokeGrant(i) ==
  /\ Serving /\ i \in SeedGrants /\ Present(i)
  /\ stRows' = [stRows EXCEPT ![i] = "absent"]
  /\ UNCHANGED <<stPc, stRow, stHeld, stAdmin, stSeen, stStored, stEndpoints, stFlag, stCut>>

\* UpdateSecurityPolicy on replica r, in one transaction with its read back.
ChangePolicy(r, p) ==
  /\ stPc[r] = "up"
  /\ UpdateAccepted(StConfig[r], stStored, p)
  /\ stStored' = Upserted(stStored, p)
  /\ UNCHANGED <<stPc, stRow, stHeld, stRows, stAdmin, stSeen, stEndpoints, stFlag, stCut>>

StPolicies == {p \in [PolicyFields -> Int \cup BOOLEAN] : \A k \in PolicyFields : p[k] \in FieldValues(k)}

StNext ==
  \/ \E r \in Replicas :
       \/ Launch(r) \/ OpenResource(r) \/ FailToOpen(r)
       \/ EnsureRead(r) \/ EnsureNothingToGrant(r) \/ EnsureInsert(r) \/ EnsureReread(r)
       \/ LookupAdmin(r) \/ CreateAdmin(r) \/ RereadAdmin(r) \/ GrantAdminRole(r)
       \/ ReadStored(r) \/ WriteStored(r) \/ BreakOff(r)
       \/ RegisterFirst(r) \/ RegisterSecond(r) \/ RollbackRegistration(r)
       \/ StopServing(r) \/ DeregisterEndpoints(r) \/ CloseAll(r) \/ MissHeartbeats(r)
       \/ \E p \in StPolicies : ChangePolicy(r, p)
  \/ \E i \in 1..SeedRows : EditRow(i) \/ RevokeGrant(i)

StSpec == StInit /\ [][StNext]_stVars

-----------------------------------------------------------------------------
\* The shape of the variables.
StTypeOK ==
  /\ stPc \in [Replicas -> StPlaces]
  /\ stRow \in [Replicas -> 1..SeedRows]
  /\ stHeld \in [Replicas -> SUBSET {"trace", "database", "cache", "bus"}]
  /\ stRows \in [1..SeedRows -> {"absent", "seeded", "edited"}]
  /\ stAdmin \in {"absent", "plain", "admin"}
  /\ stSeen \in [Replicas -> SUBSET PolicyFields]
  /\ DOMAIN stStored \subseteq PolicyFields
  /\ \A k \in DOMAIN stStored : stStored[k] \in FieldValues(k)
  /\ stEndpoints \in [Replicas -> SUBSET BothEndpoints]
  /\ stFlag \in [Replicas -> BOOLEAN]
  /\ stCut \in BOOLEAN

\* However the starts interleave and wherever they break off, GrantPermissionToRole
\* finds the role and the permission it reads: no start fails on a row that an earlier
\* call of the same Bootstrap ensured.
GrantsFindTheirRows ==
  \A r \in Replicas : stPc[r] \in Booting \ {"ready", "registerGrpc", "rollback"} =>
    \A i \in Needed(stRow[r]) : Present(i)

\* A start never overwrites a role, menu or organisation that was edited: the Ensure
\* calls of another replica, also one that read before the row existed, leave it.
EditsKept ==
  [][\A i \in 1..SeedRows : stRows[i] = "edited" => stRows'[i] = "edited"]_stVars

\* The administrator's account has its role, or a replica is about to grant it, unless a
\* start broke off between CreateUser and GrantRole: the next start finds the account and
\* grants nothing.
AdminGetsRole ==
  stAdmin = "plain" => stCut \/ \E r \in Replicas : stPc[r] \in {"grant", "grantOnly"}

\* When every replica's configuration gives a valid policy, the stored settings resolve
\* on every replica at all times: nobody is locked out by a start that mixes its
\* defaults into a policy an administrator is changing, nor by a number that wraps.
PolicyResolves ==
  (\A r \in Replicas : validateSecurityPolicy(StConfig[r])) =>
    \A r \in Replicas : Resolves(StConfig[r], stStored)

\* A replica that serves has opened everything and has both endpoints in the registry,
\* and one that New (before Bootstrap) or Close ended holds neither database, cache nor bus.
ServingIsRegistered ==
  \A r \in Replicas :
    /\ stPc[r] = "up" => /\ stEndpoints[r] = BothEndpoints /\ stFlag[r]
                         /\ stHeld[r] = {"trace", "database", "cache", "bus"}
    /\ stPc[r] = "ended" => stHeld[r] \subseteq {"trace"}
=============================================================================
