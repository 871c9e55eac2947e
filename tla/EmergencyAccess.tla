-------------------------- MODULE EmergencyAccess --------------------------
(***************************************************************************)
(* Break-glass grants (internal/domain/identity/emergency_access.go, the   *)
(* service, its repository and its API).  A grant needs an administrator   *)
(* with a fresh second factor and an approval, which is executed in the    *)
(* transaction that stores the grant; it ends by itself or by revocation.  *)
(***************************************************************************)
EXTENDS Naturals, FiniteSets

CONSTANTS Officers,         \* the users, by their identity
          EmergencyAdmins,  \* those with role system_admin or security_admin
          Approvals,        \* approved requests of type EMERGENCY_ACCESS
          Grants,           \* bound: the grants that are ever created
          Privileges,       \* the privilege keys a request may name
          Forbidden,        \* the keys "*", "system_admin" and ""
          MaxKeys,          \* how many keys a request may name, 20
          MFAMaxAge,        \* EmergencyAccessMFAMaxAge, ten minutes
          MaxAge,           \* EmergencyAccessMaxAge, sixty minutes
          Horizon           \* bound: the last instant of the clock

\* What the proofs need of the constants.
EmergencyAssumption == MFAMaxAge \in Nat /\ MaxAge \in Nat /\ Horizon \in Nat

Nobody == "nobody"
Times == 0..Horizon

VARIABLES
  enow,     \* the clock
  mfaAt,    \* mfaAt[o]: MFAVerifiedAt of o's session
  used,     \* the approvals that have been executed
  calls,    \* requests between the handler's clock reading and its transaction
  grant     \* the stored grants

emVars == <<enow, mfaAt, used, calls, grant>>

GrantRows ==
  [id : Grants, requester : Officers, target : Officers \cup {Nobody}, scoped : BOOLEAN, approval : Approvals,
   keys : SUBSET Privileges, requested : Times, expires : Times,
   verified : Times, revoked : BOOLEAN]

EmTypeOK ==
  /\ enow \in Times
  /\ mfaAt \in [Officers -> Times]
  /\ used \in SUBSET Approvals
  /\ calls \in SUBSET GrantRows
  /\ grant \in SUBSET GrantRows

EmInit ==
  /\ enow = 0
  /\ mfaAt = [o \in Officers |-> 0]
  /\ used = {}
  /\ calls = {}
  /\ grant = {}

EmTick == enow < Horizon /\ enow' = enow + 1 /\ UNCHANGED <<mfaAt, used, calls, grant>>

\* StepUpAuthentication, or a login with a second factor.
StepUp(o) == mfaAt' = [mfaAt EXCEPT ![o] = enow] /\ UNCHANGED <<enow, used, calls, grant>>

(* CreateEmergencyAccess reads the clock and the principal, whose second   *)
(* factor was verified when the session was read, before its transaction.  *)
BeginEmergency(id, o, target, scoped, approval, keys, expires) ==
  /\ \A c \in calls \cup grant : c.id # id
  /\ calls' = calls \cup
       {[id |-> id, requester |-> o, target |-> target, scoped |-> scoped, approval |-> approval,
         keys |-> keys, requested |-> enow, expires |-> expires, verified |-> mfaAt[o], revoked |-> FALSE]}
  /\ UNCHANGED <<enow, mfaAt, used, grant>>

\* EmergencyAccessRequest.Validate, with the clock read again; scoped: a scope is named.
ValidateGrant(c) ==
  /\ c.requester \in EmergencyAdmins
  /\ c.verified <= enow /\ enow - c.verified <= MFAMaxAge
  /\ c.target # c.requester
  /\ c.target # Nobody \/ c.scoped
  /\ c.expires >= c.requested /\ c.expires > enow
  /\ c.expires - c.requested <= MaxAge
  /\ c.keys # {} /\ Cardinality(c.keys) <= MaxKeys /\ c.keys \cap Forbidden = {}

\* AuthorizeExecution, Validate and the INSERT commit together with the audit record.
CreateEmergencyAccess(c) ==
  /\ c \in calls
  /\ c.approval \notin used
  /\ ValidateGrant(c)
  /\ used' = used \cup {c.approval}
  /\ grant' = grant \cup {c}
  /\ calls' = calls \ {c}
  /\ UNCHANGED <<enow, mfaAt>>

\* The request is refused, fails or is lost: its transaction leaves nothing.
RefuseEmergency(c) ==
  /\ c \in calls
  /\ calls' = calls \ {c}
  /\ UNCHANGED <<enow, mfaAt, used, grant>>

\* UPDATE ... WHERE revoked_at IS NULL, by an administrator.
RevokeEmergencyAccess(g, o) ==
  /\ o \in EmergencyAdmins
  /\ g \in grant /\ ~g.revoked
  /\ grant' = (grant \ {g}) \cup {[g EXCEPT !.revoked = TRUE]}
  /\ UNCHANGED <<enow, mfaAt, used, calls>>

EmNext ==
  \/ EmTick
  \/ \E o \in Officers : StepUp(o)
  \/ \E id \in Grants, o \in Officers, target \in Officers \cup {Nobody}, scoped \in BOOLEAN,
        approval \in Approvals, keys \in SUBSET Privileges, expires \in Times :
       BeginEmergency(id, o, target, scoped, approval, keys, expires)
  \/ \E c \in calls : CreateEmergencyAccess(c) \/ RefuseEmergency(c)
  \/ \E g \in grant, o \in Officers : RevokeEmergencyAccess(g, o)

EmSpec == EmInit /\ [][EmNext]_emVars

ActiveAt(g, t) == ~g.revoked /\ t > g.requested /\ t < g.expires

\* emergencyAccessProto: the status that the API reports.
StatusAt(g, t) ==
  CASE g.revoked -> "REVOKED"
    [] ~g.revoked /\ t >= g.expires -> "EXPIRED"
    [] ~g.revoked /\ t < g.expires /\ t >= g.requested -> "ACTIVE"
    [] ~g.revoked /\ t < g.expires /\ t < g.requested -> "SCHEDULED"

-----------------------------------------------------------------------------
(* PROPERTIES *)

(* One approval yields one grant, however often and however concurrently   *)
(* its request is submitted.                                               *)
OneGrantPerApproval ==
  \A g, h \in grant : g.approval = h.approval => g.id = h.id

(* Whoever still holds an active grant verified a second factor at most    *)
(* MFAMaxAge + MaxAge ago, is an administrator, and is not its target,     *)
(* although the clock, the session and the approval are read at different  *)
(* moments of the request.                                                 *)
ActiveIsRecent ==
  \A g \in grant :
    ActiveAt(g, enow) =>
      /\ enow < g.verified + MFAMaxAge + MaxAge
      /\ g.requester \in EmergencyAdmins /\ g.target # g.requester
      /\ g.keys \cap Forbidden = {}

(* What the API reports and ActiveAt agree, except in the very instant of  *)
(* the request.                                                            *)
StatusAgrees ==
  \A g \in grant : enow # g.requested => (StatusAt(g, enow) = "ACTIVE" <=> ActiveAt(g, enow))

\* A revoked or expired grant never becomes active again.
NoRevival ==
  [][\A g \in grant :
       enow > g.requested /\ ~ActiveAt(g, enow) =>
         \A h \in grant' : h.id = g.id => ~ActiveAt(h, enow')]_emVars

=============================================================================
