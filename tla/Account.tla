------------------------------ MODULE Account ------------------------------
(***************************************************************************)
(* One account: login with lockout, second factor, sessions and passwords  *)
(* (internal/app/identity/service.go, repository/identity.go).  A request  *)
(* is one database transaction.  It reads the account without a lock       *)
(* (Begin...) and then takes the lock of the users row with its first      *)
(* write and keeps it until it commits, so that what follows the lock is   *)
(* one step (Finish...); a second statement sees what others committed     *)
(* meanwhile (READ COMMITTED).  A federated login takes the lock last, so  *)
(* that it lists the sessions before it.                                   *)
(***************************************************************************)
EXTENDS Naturals, Sequences, FiniteSets

CONSTANTS Requests,     \* login and password requests, each made at most once
          Passwords,
          FirstPassword,
          Codes,        \* recovery codes of the factor
          MaxFailures,  \* login_max_failures
          MaxSessions,  \* max_active_sessions
          History       \* password_history: rows compared with a new password

ASSUME AccountAssumption ==
  /\ FirstPassword \in Passwords
  /\ {MaxFailures, MaxSessions, History} \subseteq Nat \ {0}

VARIABLES
  status,    \* users.status
  password,  \* users.password_hash
  past,      \* password_history, newest first, as far as it is ever read
  failures,  \* users.failed_login_count
  locked,    \* users.locked_until lies in the future
  factor,    \* user_mfa_factors.status, "NONE" without a row
  codes,     \* unused rows of mfa_recovery_codes
  sessions,  \* live rows of sessions
  clock,     \* CreateSession calls so far: created_at of a new row comes after all earlier ones
  request,   \* request[r]: how far request r has come, and what it read
  used,      \* history: the passwords the account really had, newest first, like past
  overtaken  \* history: a password change replaced a password it had not read

account == <<status, password, past, failures, locked>>
vars == <<status, password, past, failures, locked, factor, codes, sessions, clock, request,
          used, overtaken>>

\* A session: the request that created it, when, how, with which password (history), and
\* excused (history): kept on purpose by the user's own change of the password, or created
\* by a login that had read the password before it changed.
SessionRows == [id : Requests, at : Nat, via : {"PASSWORD", "FEDERATED"}, password : Passwords,
                excused : BOOLEAN]

New == [op |-> "NEW"]
Done == [op |-> "DONE"]
Offers == {"none", "totp", "wrong"} \cup Codes
Pending ==
  [op : {"Login"}, verified : BOOLEAN, password : Passwords, offer : Offers]
  \cup [op : {"Verified"}, password : Passwords, consumed : SUBSET Codes]
  \cup [op : {"LoginFederated"}, at : Nat, evict : SUBSET Requests]
  \cup [op : {"ChangePassword"}, session : Requests, old : Passwords, next : Passwords]
  \cup [op : {"AdminResetPassword"}, old : Passwords, next : Passwords]

TypeOK ==
  /\ status \in {"ACTIVE", "DISABLED"}
  /\ password \in Passwords
  /\ past \in Seq(Passwords) /\ Len(past) <= History
  /\ failures \in 0..(MaxFailures - 1)
  /\ locked \in BOOLEAN
  /\ factor \in {"NONE", "PENDING", "ACTIVE"}
  /\ codes \subseteq Codes
  /\ sessions \subseteq SessionRows
  /\ clock \in Nat
  /\ request \in [Requests -> Pending \cup {New, Done}]
  /\ used \in Seq(Passwords) /\ Len(used) <= History
  /\ overtaken \in BOOLEAN

Init ==
  /\ status = "ACTIVE"
  /\ password = FirstPassword
  /\ past = <<>>
  /\ failures = 0
  /\ locked = FALSE
  /\ factor = "NONE"
  /\ codes = {}
  /\ sessions = {}
  /\ clock = 0
  /\ request = [r \in Requests |-> New]
  /\ used = <<>>
  /\ overtaken = FALSE

-----------------------------------------------------------------------------
Begin(r, pending) ==
  /\ request[r] = New
  /\ request' = [request EXCEPT ![r] = pending]
  /\ UNCHANGED <<account, factor, codes, sessions, used, overtaken>>

End(r) == request' = [request EXCEPT ![r] = Done]

SessionIds == {x.id : x \in sessions}

Without(s, ids) == {x \in s : x.id \notin ids}

Newest(seq, n) == SubSeq(seq, 1, IF Len(seq) < n THEN Len(seq) ELSE n)

\* Mutant: one session too many is kept.
ExcessMiscounted(s) ==
  {x.id : x \in {y \in s : Cardinality({z \in s : z.at > y.at}) > MaxSessions}}

\* enforceMaxConcurrentSessions: the oldest sessions above the limit, that is, those that
\* have as many newer ones as the limit allows.
Excess(s) ==
  {x.id : x \in {y \in s : Cardinality({z \in s : z.at > y.at}) >= MaxSessions}}

\* The row that CreateSession inserts for request r.
NewSession(r, at, via, known) ==
  [id |-> r, at |-> at, via |-> via, password |-> known,
   excused |-> via = "FEDERATED" \/ known # password]

\* LoginWithMFA reads the row: a disabled or locked account is refused at once.
BeginLogin(r, verified, offer) ==
  /\ status = "ACTIVE" /\ ~locked
  /\ Begin(r, [op |-> "Login", verified |-> verified, password |-> password, offer |-> offer])
  /\ UNCHANGED clock

\* The recovery codes that logins have consumed and not yet committed: their rows are locked.
Held == UNION {request[r].consumed : r \in {q \in Requests : request[q].op = "Verified"}}

\* verifyMFAFactor: a valid code, or a recovery code that nobody has consumed.
FactorPassed(offer) == offer \in {"totp"} \cup (codes \ Held)

\* verifyLoginMFA: no second factor is needed, or the one that was offered is valid.
VerifyLoginMFA(r) ==
  /\ request[r].op = "Login" /\ request[r].verified
  /\ factor # "ACTIVE" \/ FactorPassed(request[r].offer)
  /\ request' = [request EXCEPT ![r] =
       [op |-> "Verified", password |-> request[r].password,
        consumed |-> IF factor = "ACTIVE" THEN {request[r].offer} \cap Codes ELSE {}]]
  /\ UNCHANGED <<account, factor, codes, sessions, clock, used, overtaken>>

\* An invalid factor counts like a wrong password.
RejectFactor(r) ==
  /\ request[r].op = "Login" /\ request[r].verified
  /\ factor = "ACTIVE" /\ request[r].offer \notin {"none", "totp"} \cup codes
  /\ request' = [request EXCEPT ![r].verified = FALSE]
  /\ UNCHANGED <<account, factor, codes, sessions, clock, used, overtaken>>

\* The password is right, but a second factor is asked for: nothing is counted.
AskForFactor(r) ==
  /\ request[r].op = "Login" /\ request[r].verified
  /\ request[r].offer = "none" /\ factor = "ACTIVE"
  /\ End(r)
  /\ UNCHANGED <<account, factor, codes, sessions, clock, used, overtaken>>

\* Mutant: the count is not reset by the lock.
RecordLoginFailureNoReset ==
  /\ failures' = failures + 1
  /\ locked' = (failures + 1 = MaxFailures)

\* RecordLoginFailure, under the row lock: the last failure locks, any other one stores no lock.
RecordLoginFailure ==
  /\ failures' = (failures + 1) % MaxFailures
  /\ locked' = (failures + 1 = MaxFailures)

FailLogin(r) ==
  /\ request[r].op = "Login" /\ ~request[r].verified
  /\ RecordLoginFailure
  /\ End(r)
  /\ UNCHANGED <<status, password, past, factor, codes, sessions, clock, used, overtaken>>

\* ResetLoginFailure takes the row lock; CreateSession and the limit follow under it.
FinishLogin(r) ==
  /\ request[r].op = "Verified"
  /\ failures' = 0 /\ locked' = FALSE
  /\ codes' = codes \ request[r].consumed
  /\ clock' = clock + 1
  /\ LET all == sessions \cup {NewSession(r, clock', "PASSWORD", request[r].password)}
     IN  sessions' = Without(all, Excess(all))
  /\ End(r)
  /\ UNCHANGED <<status, password, past, factor, used, overtaken>>

\* LoginFederated: the new session and the limit come before the row lock.
BeginFederated(r) ==
  /\ status = "ACTIVE"
  /\ clock' = clock + 1
  /\ LET all == sessions \cup {NewSession(r, clock', "FEDERATED", password)}
     IN  Begin(r, [op |-> "LoginFederated", at |-> clock', evict |-> Excess(all)])

FinishFederated(r) ==
  /\ request[r].op = "LoginFederated"
  /\ failures' = 0 /\ locked' = FALSE
  /\ sessions' = Without(sessions, request[r].evict)
                   \cup {NewSession(r, request[r].at, "FEDERATED", password)}
  /\ End(r)
  /\ UNCHANGED <<status, password, past, factor, codes, clock, used, overtaken>>

-----------------------------------------------------------------------------
Reusable(next) == next # password /\ \A i \in DOMAIN past : next # past[i]

BeginChangePassword(r, id, next) ==
  /\ status = "ACTIVE" /\ id \in SessionIds
  /\ Reusable(next)
  /\ Begin(r, [op |-> "ChangePassword", session |-> id, old |-> password, next |-> next])
  /\ UNCHANGED clock

BeginAdminReset(r, next) ==
  /\ Reusable(next)
  /\ Begin(r, [op |-> "AdminResetPassword", old |-> password, next |-> next])
  /\ UNCHANGED clock

StorePassword(old, next) ==
  /\ password' = next
  /\ past' = Newest(<<old>> \o past, History)
  /\ used' = Newest(<<password>> \o used, History)
  /\ failures' = 0 /\ locked' = FALSE

\* Mutant: every session is kept.
KeptAll(id) == {[x EXCEPT !.excused = (x.id = id)] : x \in sessions}

\* The user's own session is the only one that stays.
Kept(id) == {[x EXCEPT !.excused = TRUE] : x \in {y \in sessions : y.id = id}}

\* UpdatePasswordAndRevokeOtherSessions does not look whether old is still the password.
FinishChangePassword(r) ==
  /\ request[r].op = "ChangePassword"
  /\ StorePassword(request[r].old, request[r].next)
  /\ overtaken' = (overtaken \/ request[r].old # password)
  /\ sessions' = Kept(request[r].session)
  /\ End(r)
  /\ UNCHANGED <<status, factor, codes, clock>>

\* Mutant: the password is not compared with the one that was read.
ensurePasswordStateAny(old) == TRUE

ensurePasswordState(old) == old = password

FinishAdminReset(r) ==
  /\ request[r].op = "AdminResetPassword"
  /\ ensurePasswordState(request[r].old)
  /\ StorePassword(request[r].old, request[r].next)
  /\ sessions' = {}
  /\ End(r)
  /\ UNCHANGED <<status, factor, codes, clock, overtaken>>

-----------------------------------------------------------------------------
(* The second factor.                                                      *)

\* SavePendingMFAFactor, under the lock of the factor's row; an older pending secret is replaced.
BeginMFAEnrollment ==
  /\ status = "ACTIVE" /\ sessions # {}
  /\ factor # "ACTIVE"
  /\ factor' = "PENDING"
  /\ UNCHANGED <<account, codes, sessions, clock, request, used, overtaken>>

\* ActivateMFAFactor, after a valid code: new recovery codes (by the same names here) replace
\* all older ones; the deletion waits for the rows that logins have locked.
ConfirmMFAEnrollment ==
  /\ status = "ACTIVE" /\ sessions # {}
  /\ factor = "PENDING" /\ Held = {}
  /\ factor' = "ACTIVE"
  /\ codes' = Codes
  /\ UNCHANGED <<account, sessions, clock, request, used, overtaken>>

\* DisableMFA: the factor goes, and every session but the user's own; the codes stay behind.
DisableMFA(id, offer) ==
  /\ status = "ACTIVE" /\ id \in SessionIds
  /\ factor = "ACTIVE" /\ FactorPassed(offer)
  /\ factor' = "NONE"
  /\ codes' = codes \ {offer}
  /\ sessions' = {x \in sessions : x.id = id}
  /\ UNCHANGED <<account, clock, request, used, overtaken>>

-----------------------------------------------------------------------------
(* Single statements, and time.                                            *)

SetUserStatus(s) ==
  /\ status' = s
  /\ sessions' = IF s = "ACTIVE" THEN sessions ELSE {}
  /\ UNCHANGED <<password, past, failures, locked, factor, codes, clock, request, used, overtaken>>

UnlockUser ==
  /\ failures' = 0 /\ locked' = FALSE
  /\ UNCHANGED <<status, password, past, factor, codes, sessions, clock, request, used, overtaken>>

\* Logout, RevokeSession, and the end of a session's time to live.
EndSession(id) ==
  /\ sessions' = Without(sessions, {id})
  /\ UNCHANGED <<account, factor, codes, clock, request, used, overtaken>>

\* locked_until passes.
PassLock ==
  /\ locked
  /\ locked' = FALSE
  /\ UNCHANGED <<status, password, past, failures, factor, codes, sessions, clock, request, used, overtaken>>

\* The transaction of a request fails and is rolled back.
Abort(r) ==
  /\ request[r] \notin {New, Done}
  /\ End(r)
  /\ UNCHANGED <<account, factor, codes, sessions, clock, used, overtaken>>

Next ==
  \/ \E r \in Requests :
       \/ \E verified \in BOOLEAN, offer \in Offers : BeginLogin(r, verified, offer)
       \/ VerifyLoginMFA(r) \/ RejectFactor(r) \/ AskForFactor(r)
       \/ FailLogin(r) \/ FinishLogin(r)
       \/ BeginFederated(r) \/ FinishFederated(r)
       \/ \E next \in Passwords : BeginAdminReset(r, next) \/ \E id \in SessionIds : BeginChangePassword(r, id, next)
       \/ FinishChangePassword(r) \/ FinishAdminReset(r)
       \/ Abort(r)
  \/ BeginMFAEnrollment \/ ConfirmMFAEnrollment
  \/ \E id \in SessionIds : EndSession(id) \/ \E offer \in Offers : DisableMFA(id, offer)
  \/ \E s \in {"ACTIVE", "DISABLED"} : SetUserStatus(s)
  \/ UnlockUser \/ PassLock

Spec == Init /\ [][Next]_vars

-----------------------------------------------------------------------------
PasswordSessions == {x \in sessions : x.via = "PASSWORD"}

(* However logins overlap each other and federated logins, the account     *)
(* never has more sessions opened with its password than the limit         *)
(* (enforceMaxConcurrentSessions after the row lock of ResetLoginFailure). *)
SessionsBounded == Cardinality(PasswordSessions) <= MaxSessions

(* A change or reset of the password ends the sessions that were opened    *)
(* with the old one: what remains is the session that changed it, and what *)
(* a login opens that had verified the old password just before.           *)
OldPasswordsLoggedOut ==
  \A x \in sessions : x.excused \/ x.password = password

(* The rows that a new password is compared with are the passwords the     *)
(* account really had last, unless one change of the user overtook another *)
(* (ensurePasswordState keeps an administrator's reset from doing so).     *)
HistoryFaithful == overtaken \/ past = used

(* A failed login attempt never ends a lock: an account that is locked     *)
(* stays so until the lock runs out or somebody unlocks it.                *)
LockHolds == [][(\E r \in Requests : FailLogin(r)) /\ locked => locked']_vars

=============================================================================
