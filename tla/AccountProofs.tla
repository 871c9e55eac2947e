---------------------------- MODULE AccountProofs ----------------------------
(***************************************************************************)
(* One account, for every number of requests, every policy and every set   *)
(* of passwords and recovery codes.                                        *)
(*                                                                         *)
(* The session limit is enforced on what the listing returns, so the proof *)
(* has to know that creation times order the sessions (RowsInv): of the    *)
(* sessions that stay, the oldest one has all the others as newer ones,    *)
(* which are fewer than the limit.  A federated login that has chosen its  *)
(* time and not yet committed is part of that order.                       *)
(***************************************************************************)
EXTENDS Account, SequenceTheorems, FiniteSetTheorems, NaturalsInduction, TLAPS

Federated(r) == request[r].op = "LoginFederated"

\* Live sessions are told apart by their request and by their time.
RowsInv ==
  /\ IsFiniteSet(sessions)
  /\ \A x \in sessions : request[x.id] = Done /\ x.at <= clock
  /\ \A x, y \in sessions : x.id = y.id \/ x.at = y.at => x = y
  /\ \A r \in Requests : Federated(r) =>
       /\ request[r].at <= clock
       /\ \A x \in sessions : x.at # request[r].at
       /\ \A q \in Requests : Federated(q) /\ request[q].at = request[r].at => q = r

(* The inductive invariant.                                                *)
AccountInv == TypeOK /\ RowsInv /\ SessionsBounded /\ OldPasswordsLoggedOut /\ HistoryFaithful

-----------------------------------------------------------------------------
\* A nonempty set of natural numbers has a least element.
LEMMA LeastTime ==
  ASSUME NEW S, S \subseteq Nat, S # {}
  PROVE  \E n \in S : \A m \in S : n <= m
<1> DEFINE Before == OpToRel(<, Nat)
<1>1. IsWellFoundedOn(Before, Nat)
  BY NatLessThanWellFounded
<1>2. \A m, n \in Nat : m < n => <<m, n>> \in Before
  BY DEF OpToRel
<1> HIDE DEF Before
<1>3. PICK n \in S : \A m \in S : ~(<<m, n>> \in Before)
  BY <1>1, WFMin
<1>4. ASSUME NEW m \in S PROVE n <= m
  <2>1. m \in Nat /\ n \in Nat /\ ~(m < n)
    BY <1>2, <1>3
  <2> QED
    BY <2>1
<1> QED
  BY <1>4

(***************************************************************************)
(* enforceMaxConcurrentSessions: if sessions have different times, what is *)
(* left after the excess is gone is within the limit.                      *)
(***************************************************************************)
LEMMA LimitHolds ==
  ASSUME NEW S, IsFiniteSet(S),
         \A x \in S : x.at \in Nat,
         \A x, y \in S : x.id = y.id \/ x.at = y.at => x = y
  PROVE  Cardinality(Without(S, Excess(S))) <= MaxSessions
<1> DEFINE Newer(x) == {z \in S : z.at > x.at}
           K == Without(S, Excess(S))
<1>0. MaxSessions \in Nat /\ MaxSessions >= 1
  BY AccountAssumption
<1>1. K \subseteq S /\ IsFiniteSet(K) /\ Cardinality(K) \in Nat
  BY FS_Subset, FS_CardinalityType DEF Without
<1>2. \A x \in S : IsFiniteSet(Newer(x)) /\ Cardinality(Newer(x)) \in Nat
  BY FS_Subset, FS_CardinalityType
<1>3. \A x \in K : Cardinality(Newer(x)) < MaxSessions
  <2> SUFFICES ASSUME NEW x \in K, ~(Cardinality(Newer(x)) < MaxSessions) PROVE FALSE
    OBVIOUS
  <2>1. x \in S /\ x.id \notin Excess(S)
    BY <1>1 DEF Without
  <2> HIDE DEF Newer
  <2>2. Cardinality(Newer(x)) >= MaxSessions
    BY <1>0, <1>2, <2>1
  <2> USE DEF Newer
  <2> QED
    BY <2>1, <2>2 DEF Excess
<1>4. CASE K = {}
  BY <1>0, <1>4, FS_EmptySet
<1>5. CASE K # {}
  <2> DEFINE Times == {x.at : x \in K}
  <2>0. Times \subseteq Nat /\ Times # {}
    BY <1>1, <1>5
  <2>1. PICK n \in Times : \A m \in Times : n <= m
    BY <2>0, LeastTime
  <2>2. PICK x \in K : x.at = n
    BY <2>1
  <2>3. K \ {x} \subseteq Newer(x)
    <3> SUFFICES ASSUME NEW y \in K, y # x PROVE y \in Newer(x)
      OBVIOUS
    <3>1. y.at # x.at /\ x.at <= y.at /\ x.at \in Nat /\ y.at \in Nat
      BY <1>1, <2>1, <2>2
    <3> QED
      BY <3>1, <1>1
  <2>4. Cardinality(K \ {x}) <= Cardinality(Newer(x))
    BY <1>1, <1>2, <2>2, <2>3, FS_Subset
  <2>5. Cardinality(K \ {x}) = Cardinality(K) - 1
    BY <1>1, <2>2, FS_RemoveElement
  <2>6. Cardinality(Newer(x)) < MaxSessions /\ Cardinality(Newer(x)) \in Nat
    BY <1>1, <1>2, <1>3, <2>2
  <2> HIDE DEF K, Newer
  <2> QED
    BY <1>0, <1>1, <2>4, <2>5, <2>6 DEF K
<1> QED
  BY <1>4, <1>5

-----------------------------------------------------------------------------
\* What a request that is under way has read.
LEMMA PendingFields ==
  ASSUME NEW q \in Pending \cup {New, Done}
  PROVE  /\ q.op = "Login" =>
              q \in [op : {"Login"}, verified : BOOLEAN, password : Passwords, offer : Offers]
         /\ q.op = "Verified" =>
              q \in [op : {"Verified"}, password : Passwords, consumed : SUBSET Codes]
         /\ q.op = "LoginFederated" =>
              q \in [op : {"LoginFederated"}, at : Nat, evict : SUBSET Requests]
         /\ q.op = "ChangePassword" =>
              q \in [op : {"ChangePassword"}, session : Requests, old : Passwords, next : Passwords]
         /\ q.op = "AdminResetPassword" =>
              q \in [op : {"AdminResetPassword"}, old : Passwords, next : Passwords]
BY DEF Pending, New, Done

\* The history keeps its type and its bound when a password is put before it.
LEMMA NewestTypes ==
  ASSUME NEW p \in Passwords, NEW s \in Seq(Passwords)
  PROVE  /\ Newest(<<p>> \o s, History) \in Seq(Passwords)
         /\ Len(Newest(<<p>> \o s, History)) <= History
<1> DEFINE t == <<p>> \o s
           n == IF Len(t) < History THEN Len(t) ELSE History
<1>1. t \in Seq(Passwords) /\ Len(t) = 1 + Len(s)
  BY ConcatProperties
<1>2. History \in Nat /\ n \in 0..Len(t) /\ n <= History
  BY <1>1, AccountAssumption
<1> HIDE DEF t
<1>3. SubSeq(t, 1, n) \in Seq(Passwords) /\ Len(SubSeq(t, 1, n)) = n
  <2>1. \A i \in 1..n : t[i] \in Passwords
    BY <1>1, <1>2
  <2> QED
    BY <1>1, <1>2, <2>1
<1> QED
  BY <1>2, <1>3 DEF Newest, t

LEMMA AccountInit == Init => AccountInv
<1> SUFFICES ASSUME Init PROVE AccountInv
  OBVIOUS
<1>1. IsFiniteSet({}) /\ Cardinality({}) = 0
  BY FS_EmptySet
<1>2. TypeOK
  <2>1. <<>> \in Seq(Passwords) /\ Len(<<>>) <= History /\ 0 \in 0..(MaxFailures - 1)
    BY AccountAssumption
  <2>2. request \in [Requests -> Pending \cup {New, Done}]
    BY DEF Init
  <2> QED
    BY <2>1, <2>2, AccountAssumption DEF Init, TypeOK
<1>3. RowsInv
  BY <1>1 DEF Init, RowsInv, Federated, New
<1>4. SessionsBounded
  <2>1. PasswordSessions = {}
    BY DEF Init, PasswordSessions
  <2> QED
    BY <1>1, <2>1, AccountAssumption DEF SessionsBounded
<1> QED
  BY <1>2, <1>3, <1>4 DEF Init, AccountInv, OldPasswordsLoggedOut, HistoryFaithful

-----------------------------------------------------------------------------
\* A step that opens no session and touches no password, and whose requests only begin
\* (other than a federated login) or end, keeps everything but the types by itself.
LEMMA QuietStep ==
  ASSUME AccountInv, TypeOK',
         sessions' \subseteq sessions,
         UNCHANGED <<password, past, clock, used, overtaken>>,
         \A r \in Requests : \/ request'[r] = request[r]
                             \/ request[r] # Done /\ request'[r].op # "LoginFederated"
  PROVE  AccountInv'
<1>1. RowsInv'
  <2>1. IsFiniteSet(sessions')
    BY FS_Subset DEF AccountInv, RowsInv
  <2>2. \A x \in sessions' : x.id \in Requests
    BY DEF AccountInv, TypeOK, SessionRows
  <2>3. \A x \in sessions' : request'[x.id] = Done /\ x.at <= clock'
    BY <2>2 DEF AccountInv, RowsInv
  <2>4. \A x, y \in sessions' : x.id = y.id \/ x.at = y.at => x = y
    BY DEF AccountInv, RowsInv
  <2>5. \A r \in Requests : Federated(r)' => request'[r] = request[r]
    BY DEF Federated
  <2> QED
    BY <2>1, <2>3, <2>4, <2>5 DEF AccountInv, RowsInv, Federated
<1>2. SessionsBounded'
  <2>1. IsFiniteSet(PasswordSessions)
    BY FS_Subset DEF AccountInv, RowsInv, PasswordSessions
  <2>2. PasswordSessions' \subseteq PasswordSessions
    BY DEF PasswordSessions
  <2>3. /\ Cardinality(PasswordSessions') <= Cardinality(PasswordSessions)
        /\ Cardinality(PasswordSessions') \in Nat /\ Cardinality(PasswordSessions) \in Nat
    BY <2>1, <2>2, FS_Subset, FS_CardinalityType
  <2> QED
    BY <2>3, AccountAssumption DEF AccountInv, SessionsBounded
<1>3. OldPasswordsLoggedOut' /\ HistoryFaithful'
  BY DEF AccountInv, OldPasswordsLoggedOut, HistoryFaithful
<1> QED
  BY <1>1, <1>2, <1>3 DEF AccountInv

\* A request that begins, other than a federated login, keeps the invariant.
LEMMA BeginKeeps ==
  ASSUME AccountInv, NEW r \in Requests, NEW q \in Pending, q.op # "LoginFederated",
         Begin(r, q), clock' = clock
  PROVE  AccountInv'
<1>1. TypeOK'
  BY DEF AccountInv, TypeOK, Begin, account
<1>2. request[r] # Done
  BY DEF Begin, New, Done
<1> QED
  BY <1>1, <1>2, QuietStep DEF AccountInv, TypeOK, Begin, account

\* A request that ends without touching a session or a password does so too.
LEMMA EndKeeps ==
  ASSUME AccountInv, NEW r \in Requests, request[r] # Done, End(r),
         UNCHANGED <<status, password, past, factor, codes, sessions, clock, used, overtaken>>,
         failures' \in 0..(MaxFailures - 1), locked' \in BOOLEAN
  PROVE  AccountInv'
<1>1. TypeOK'
  BY DEF AccountInv, TypeOK, End
<1> QED
  BY <1>1, QuietStep DEF AccountInv, TypeOK, End, Done

LEMMA LoginStep ==
  ASSUME AccountInv, NEW r \in Requests,
         \/ \E verified \in BOOLEAN, offer \in Offers : BeginLogin(r, verified, offer)
         \/ VerifyLoginMFA(r) \/ RejectFactor(r) \/ AskForFactor(r) \/ FailLogin(r)
         \/ Abort(r)
  PROVE  AccountInv'
<1>0. TypeOK /\ request[r] \in Pending \cup {New, Done}
  BY DEF AccountInv, TypeOK
<1>1. ASSUME NEW verified \in BOOLEAN, NEW offer \in Offers, BeginLogin(r, verified, offer)
      PROVE  AccountInv'
  <2> DEFINE q == [op |-> "Login", verified |-> verified, password |-> password, offer |-> offer]
  <2>1. q \in Pending /\ q.op # "LoginFederated"
    BY <1>0 DEF TypeOK, Pending
  <2>2. Begin(r, q) /\ clock' = clock
    BY <1>1 DEF BeginLogin
  <2> HIDE DEF q
  <2> QED
    BY <2>1, <2>2, BeginKeeps
<1>2. CASE VerifyLoginMFA(r)
  <2> DEFINE q == [op |-> "Verified", password |-> request[r].password,
                   consumed |-> IF factor = "ACTIVE" THEN {request[r].offer} \cap Codes ELSE {}]
  <2>1. request[r] \in [op : {"Login"}, verified : BOOLEAN, password : Passwords, offer : Offers]
    BY <1>0, <1>2, PendingFields DEF VerifyLoginMFA
  <2>2. q \in Pending /\ q.op # "LoginFederated"
    BY <2>1 DEF Pending
  <2>3. request' = [request EXCEPT ![r] = q] /\ request[r] # Done
    BY <1>2 DEF VerifyLoginMFA, Done
  <2> HIDE DEF q
  <2>4. TypeOK'
    BY <1>0, <1>2, <2>2, <2>3 DEF TypeOK, VerifyLoginMFA, account
  <2> QED
    BY <1>0, <1>2, <2>2, <2>3, <2>4, QuietStep DEF TypeOK, VerifyLoginMFA, account
<1>3. CASE RejectFactor(r)
  <2> DEFINE q == [request[r] EXCEPT !.verified = FALSE]
  <2>1. request[r] \in [op : {"Login"}, verified : BOOLEAN, password : Passwords, offer : Offers]
    BY <1>0, <1>3, PendingFields DEF RejectFactor
  <2>2. q \in Pending /\ q.op # "LoginFederated"
    BY <2>1 DEF Pending
  <2>3. request' = [request EXCEPT ![r] = q] /\ request[r] # Done
    BY <1>3 DEF RejectFactor, Done
  <2> HIDE DEF q
  <2>4. TypeOK'
    BY <1>0, <1>3, <2>2, <2>3 DEF TypeOK, RejectFactor, account
  <2> QED
    BY <1>0, <1>3, <2>2, <2>3, <2>4, QuietStep DEF TypeOK, RejectFactor, account
<1>4. CASE AskForFactor(r)
  BY <1>0, <1>4, EndKeeps DEF TypeOK, AskForFactor, account, Done
<1>5. CASE FailLogin(r)
  <2>1. failures' \in 0..(MaxFailures - 1) /\ locked' \in BOOLEAN
    BY <1>0, <1>5, AccountAssumption DEF TypeOK, FailLogin, RecordLoginFailure
  <2> QED
    BY <1>5, <2>1, EndKeeps DEF FailLogin, Done
<1>6. CASE Abort(r)
  BY <1>0, <1>6, EndKeeps DEF TypeOK, Abort, account
<1> QED
  BY <1>1, <1>2, <1>3, <1>4, <1>5, <1>6

-----------------------------------------------------------------------------
\* A login that commits: its session is newer than every other one, and the limit holds.
LEMMA FinishLoginStep ==
  ASSUME AccountInv, NEW r \in Requests, FinishLogin(r)
  PROVE  AccountInv'
<1> DEFINE new == NewSession(r, clock', "PASSWORD", request[r].password)
           all == sessions \cup {new}
<1>0. TypeOK /\ RowsInv /\ request[r] \in Pending \cup {New, Done}
  BY DEF AccountInv, TypeOK
<1>1. /\ request[r] \in [op : {"Verified"}, password : Passwords, consumed : SUBSET Codes]
      /\ request[r] # Done
  BY <1>0, PendingFields DEF FinishLogin, Done
<1>2. /\ clock' = clock + 1 /\ clock \in Nat
      /\ sessions' = Without(all, Excess(all))
      /\ request' = [request EXCEPT ![r] = Done]
  BY <1>0 DEF FinishLogin, End, TypeOK
<1>3. /\ new \in SessionRows /\ new.id = r /\ new.at = clock + 1
      /\ new.excused \/ new.password = password
  <2>1. clock' = clock + 1 /\ clock + 1 \in Nat /\ request[r].password \in Passwords
    BY <1>1, <1>2
  <2>2. (request[r].password # password) \in BOOLEAN
    OBVIOUS
  <2> QED
    BY <2>1, <2>2 DEF NewSession, SessionRows
<1>4. /\ \A x \in sessions : x.id # r /\ x.at \in Nat /\ x.at # clock + 1
      /\ \A x \in sessions : x.id \in Requests
  BY <1>0, <1>1, <1>2 DEF RowsInv, TypeOK, SessionRows
<1>5. IsFiniteSet(all)
  BY <1>0, FS_AddElement DEF RowsInv
<1> HIDE DEF new
<1>6. \A x, y \in all : x.id = y.id \/ x.at = y.at => x = y
  BY <1>0, <1>3, <1>4 DEF RowsInv
<1>7. /\ \A x \in all : x \in SessionRows /\ x.at \in Nat
      /\ sessions' \subseteq all
  BY <1>0, <1>2, <1>3, <1>4 DEF TypeOK, Without
<1>8. TypeOK'
  <2>1. 0 \in 0..(MaxFailures - 1)
    BY AccountAssumption
  <2>2. sessions' \subseteq SessionRows /\ clock' \in Nat
    BY <1>2, <1>7
  <2>4. codes' \subseteq Codes
    BY <1>0 DEF TypeOK, FinishLogin
  <2>3. request' \in [Requests -> Pending \cup {New, Done}]
    BY <1>0, <1>2 DEF TypeOK
  <2> HIDE DEF all
  <2> QED
    BY <1>0, <2>1, <2>2, <2>3, <2>4 DEF TypeOK, FinishLogin
<1>9. RowsInv'
  <2>1. IsFiniteSet(sessions')
    BY <1>5, <1>7, FS_Subset
  <2>2. \A x \in all : request'[x.id] = Done /\ x.at <= clock'
    BY <1>0, <1>2, <1>3, <1>4 DEF RowsInv, TypeOK
  <2>3. \A q \in Requests : Federated(q)' => request'[q] = request[q] /\ Federated(q)
    BY <1>0, <1>2 DEF Federated, TypeOK, Done
  <2>4. \A q \in Requests : Federated(q) => request[q].at \in Nat
    BY <1>0, PendingFields DEF Federated, TypeOK
  <2>5. \A q \in Requests : Federated(q) =>
          /\ request[q].at <= clock'
          /\ \A x \in all : x.at # request[q].at
    BY <1>0, <1>2, <1>3, <2>4 DEF RowsInv
  <2> HIDE DEF all
  <2>6. \A q \in Requests : Federated(q)' =>
          /\ request'[q].at <= clock'
          /\ \A x \in sessions' : x.at # request'[q].at
          /\ \A p \in Requests : Federated(p)' /\ request'[p].at = request'[q].at => p = q
    BY <1>0, <1>7, <2>3, <2>5 DEF RowsInv
  <2> QED
    BY <1>6, <1>7, <2>1, <2>2, <2>6 DEF RowsInv
<1>10. SessionsBounded'
  <2> HIDE DEF all
  <2>1. Cardinality(sessions') <= MaxSessions /\ IsFiniteSet(sessions')
    BY <1>2, <1>5, <1>6, <1>7, LimitHolds, FS_Subset
  <2>2. PasswordSessions' \subseteq sessions'
    BY DEF PasswordSessions
  <2>3. /\ Cardinality(PasswordSessions') <= Cardinality(sessions')
        /\ Cardinality(PasswordSessions') \in Nat /\ Cardinality(sessions') \in Nat
    BY <2>1, <2>2, FS_Subset, FS_CardinalityType
  <2> QED
    BY <2>1, <2>3, AccountAssumption DEF SessionsBounded
<1>11. OldPasswordsLoggedOut'
  BY <1>3, <1>7 DEF AccountInv, OldPasswordsLoggedOut, FinishLogin
<1>12. HistoryFaithful'
  BY DEF AccountInv, HistoryFaithful, FinishLogin
<1> QED
  BY <1>8, <1>9, <1>10, <1>11, <1>12 DEF AccountInv

\* A federated login takes its place in the order of the sessions before it commits.
LEMMA BeginFederatedStep ==
  ASSUME AccountInv, NEW r \in Requests, BeginFederated(r)
  PROVE  AccountInv'
<1> DEFINE all == sessions \cup {NewSession(r, clock', "FEDERATED", password)}
           q == [op |-> "LoginFederated", at |-> clock', evict |-> Excess(all)]
<1>0. TypeOK /\ RowsInv
  BY DEF AccountInv
<1>1. /\ request' = [request EXCEPT ![r] = q] /\ request[r] # Done
      /\ clock' = clock + 1 /\ clock \in Nat
      /\ UNCHANGED <<account, factor, codes, sessions, used, overtaken>>
  BY <1>0 DEF BeginFederated, Begin, New, Done, TypeOK
<1>2. \A x \in sessions : x.id \in Requests
  BY <1>0 DEF TypeOK, SessionRows
<1>3. q \in Pending /\ q.at = clock + 1
  <2>1. NewSession(r, clock', "FEDERATED", password).id = r
    BY DEF NewSession
  <2>2. \A x \in all : x.id \in Requests
    BY <1>2, <2>1
  <2>3. Excess(all) \subseteq Requests
    BY <2>2 DEF Excess
  <2> HIDE DEF all
  <2> QED
    BY <1>1, <2>3 DEF Pending
<1> HIDE DEF q
<1>4. TypeOK'
  BY <1>0, <1>1, <1>3 DEF TypeOK, account
<1>5. RowsInv'
  <2>1. \A x \in sessions' : request'[x.id] = Done /\ x.at <= clock' /\ x.at # clock + 1
    <3>1. \A x \in sessions : x.at \in Nat
      BY <1>0 DEF TypeOK, SessionRows
    <3> QED
      BY <1>0, <1>1, <1>2, <3>1 DEF RowsInv, TypeOK
  <2>2. \A p \in Requests : p # r => request'[p] = request[p]
    BY <1>0, <1>1 DEF TypeOK
  <2>3. \A p \in Requests : p # r /\ Federated(p)' =>
          Federated(p) /\ request'[p].at \in Nat /\ request'[p].at <= clock
    BY <1>0, <2>2, PendingFields DEF Federated, TypeOK, RowsInv
  <2>4. request'[r].at = clock + 1
    BY <1>0, <1>1, <1>3 DEF TypeOK
  <2>5. \A p \in Requests : Federated(p)' =>
          /\ request'[p].at <= clock'
          /\ \A x \in sessions' : x.at # request'[p].at
    BY <1>0, <1>1, <2>1, <2>2, <2>3, <2>4 DEF RowsInv
  <2>6. ASSUME NEW p \in Requests, NEW w \in Requests, Federated(p)', Federated(w)',
               request'[p].at = request'[w].at
        PROVE  p = w
    <3>1. CASE p = r \/ w = r
      BY <1>1, <2>3, <2>4, <2>6, <3>1
    <3>2. CASE p # r /\ w # r
      BY <1>0, <2>2, <2>3, <2>6, <3>2 DEF RowsInv
    <3> QED
      BY <3>1, <3>2
  <2>7. IsFiniteSet(sessions') /\ \A x, y \in sessions' : x.id = y.id \/ x.at = y.at => x = y
    BY <1>0, <1>1 DEF RowsInv
  <2> QED
    BY <2>1, <2>5, <2>6, <2>7 DEF RowsInv
<1>6. SessionsBounded' /\ OldPasswordsLoggedOut' /\ HistoryFaithful'
  BY <1>1 DEF AccountInv, SessionsBounded, PasswordSessions, OldPasswordsLoggedOut,
       HistoryFaithful, account
<1> QED
  BY <1>4, <1>5, <1>6 DEF AccountInv

\* It commits: its session takes the place that was kept for it.
LEMMA FinishFederatedStep ==
  ASSUME AccountInv, NEW r \in Requests, FinishFederated(r)
  PROVE  AccountInv'
<1> DEFINE new == NewSession(r, request[r].at, "FEDERATED", password)
           all == sessions \cup {new}
<1>0. TypeOK /\ RowsInv /\ request[r] \in Pending \cup {New, Done}
  BY DEF AccountInv, TypeOK
<1>1. /\ request[r] \in [op : {"LoginFederated"}, at : Nat, evict : SUBSET Requests]
      /\ request[r] # Done /\ Federated(r)
  BY <1>0, PendingFields DEF FinishFederated, Done, Federated
<1>2. /\ sessions' \subseteq all
      /\ request' = [request EXCEPT ![r] = Done]
      /\ clock' = clock /\ clock \in Nat /\ password' = password
  BY <1>0 DEF FinishFederated, End, TypeOK, Without
<1>3. /\ new \in SessionRows /\ new.id = r /\ new.at = request[r].at
      /\ new.excused /\ new.via # "PASSWORD"
  BY <1>0, <1>1 DEF NewSession, SessionRows, TypeOK
<1>4. /\ \A x \in sessions : x.id # r /\ x.at # request[r].at
      /\ \A x \in sessions : x.id \in Requests
  BY <1>0, <1>1 DEF RowsInv, TypeOK, SessionRows
<1>5. IsFiniteSet(all)
  BY <1>0, FS_AddElement DEF RowsInv
<1> HIDE DEF new
<1>6. \A x, y \in all : x.id = y.id \/ x.at = y.at => x = y
  BY <1>0, <1>3, <1>4 DEF RowsInv
<1>7. all \subseteq SessionRows
  BY <1>0, <1>3 DEF TypeOK
<1>8. TypeOK'
  <2>1. 0 \in 0..(MaxFailures - 1)
    BY AccountAssumption
  <2>2. request' \in [Requests -> Pending \cup {New, Done}]
    BY <1>0, <1>2 DEF TypeOK
  <2> HIDE DEF all
  <2> QED
    BY <1>0, <1>2, <1>7, <2>1, <2>2 DEF TypeOK, FinishFederated
<1>9. RowsInv'
  <2>1. IsFiniteSet(sessions')
    BY <1>2, <1>5, FS_Subset
  <2>2. \A x \in all : request'[x.id] = Done /\ x.at <= clock'
    BY <1>0, <1>1, <1>2, <1>3, <1>4 DEF RowsInv, TypeOK
  <2>3. \A q \in Requests : Federated(q)' => q # r /\ request'[q] = request[q] /\ Federated(q)
    BY <1>0, <1>2 DEF Federated, TypeOK, Done
  <2>4. \A q \in Requests : q # r /\ Federated(q) =>
          /\ request[q].at <= clock'
          /\ \A x \in all : x.at # request[q].at
    BY <1>0, <1>1, <1>2, <1>3 DEF RowsInv
  <2> HIDE DEF all
  <2>5. \A q \in Requests : Federated(q)' =>
          /\ request'[q].at <= clock'
          /\ \A x \in sessions' : x.at # request'[q].at
          /\ \A p \in Requests : Federated(p)' /\ request'[p].at = request'[q].at => p = q
    BY <1>0, <1>2, <2>3, <2>4 DEF RowsInv
  <2> QED
    BY <1>2, <1>6, <2>1, <2>2, <2>5 DEF RowsInv
<1>10. SessionsBounded'
  <2>1. IsFiniteSet(PasswordSessions)
    BY <1>0, FS_Subset DEF RowsInv, PasswordSessions
  <2>2. PasswordSessions' \subseteq PasswordSessions
    BY <1>2, <1>3 DEF PasswordSessions
  <2>3. /\ Cardinality(PasswordSessions') <= Cardinality(PasswordSessions)
        /\ Cardinality(PasswordSessions') \in Nat /\ Cardinality(PasswordSessions) \in Nat
    BY <2>1, <2>2, FS_Subset, FS_CardinalityType
  <2> QED
    BY <2>3, AccountAssumption DEF AccountInv, SessionsBounded
<1>11. OldPasswordsLoggedOut'
  BY <1>2, <1>3 DEF AccountInv, OldPasswordsLoggedOut
<1>12. HistoryFaithful'
  BY DEF AccountInv, HistoryFaithful, FinishFederated
<1> QED
  BY <1>8, <1>9, <1>10, <1>11, <1>12 DEF AccountInv

-----------------------------------------------------------------------------
\* StorePassword keeps the types.
LEMMA StoreTypes ==
  ASSUME TypeOK, NEW old \in Passwords, NEW next \in Passwords, StorePassword(old, next)
  PROVE  /\ password' \in Passwords
         /\ past' \in Seq(Passwords) /\ Len(past') <= History
         /\ used' \in Seq(Passwords) /\ Len(used') <= History
         /\ failures' \in 0..(MaxFailures - 1) /\ locked' \in BOOLEAN
<1>1. password \in Passwords /\ past \in Seq(Passwords) /\ used \in Seq(Passwords)
  BY DEF TypeOK
<1>2. 0 \in 0..(MaxFailures - 1)
  BY AccountAssumption
<1> QED
  BY <1>1, <1>2, NewestTypes DEF StorePassword

\* A change of the password by the user: at most the user's own session stays.
LEMMA FinishChangeStep ==
  ASSUME AccountInv, NEW r \in Requests, FinishChangePassword(r)
  PROVE  AccountInv'
<1>0. TypeOK /\ RowsInv /\ request[r] \in Pending \cup {New, Done}
  BY DEF AccountInv, TypeOK
<1>1. /\ request[r] \in [op : {"ChangePassword"}, session : Requests, old : Passwords,
                         next : Passwords]
      /\ request[r] # Done
  BY <1>0, PendingFields DEF FinishChangePassword, Done
<1>2. /\ StorePassword(request[r].old, request[r].next)
      /\ request' = [request EXCEPT ![r] = Done]
      /\ clock' = clock
  BY DEF FinishChangePassword, End
<1>3. \E x \in SessionRows : /\ sessions' \subseteq {x}
                             /\ sessions' # {} => /\ request[x.id] = Done /\ x.at <= clock
                                                  /\ x.excused
                                                  /\ \E y \in sessions : x.at = y.at
  <2>1. CASE \E y \in sessions : y.id = request[r].session
    <3>1. PICK y \in sessions : y.id = request[r].session
      BY <2>1
    <3> DEFINE x == [y EXCEPT !.excused = TRUE]
    <3>2. y \in SessionRows /\ request[y.id] = Done /\ y.at <= clock
      BY <1>0 DEF TypeOK, RowsInv
    <3>3. x \in SessionRows /\ x.id = y.id /\ x.at = y.at /\ x.excused
      BY <3>2 DEF SessionRows
    <3>4. {z \in sessions : z.id = request[r].session} = {y}
      BY <1>0, <3>1 DEF RowsInv
    <3>5. sessions' = {x}
      BY <3>4 DEF FinishChangePassword, Kept
    <3> HIDE DEF x
    <3> QED
      BY <3>2, <3>3, <3>5
  <2>2. CASE ~ \E y \in sessions : y.id = request[r].session
    <3>1. {z \in sessions : z.id = request[r].session} = {}
      BY <2>2
    <3>2. sessions' = {}
      BY <3>1 DEF FinishChangePassword, Kept
    <3>3. [id |-> r, at |-> 0, via |-> "PASSWORD", password |-> FirstPassword, excused |-> TRUE]
            \in SessionRows
      BY AccountAssumption DEF SessionRows
    <3> QED
      BY <3>2, <3>3
  <2> QED
    BY <2>1, <2>2
<1>4. PICK x \in SessionRows : /\ sessions' \subseteq {x}
                               /\ sessions' # {} => /\ request[x.id] = Done /\ x.at <= clock
                                                    /\ x.excused
                                                    /\ \E y \in sessions : x.at = y.at
  BY <1>3
<1>5. TypeOK'
  <2>1. request' \in [Requests -> Pending \cup {New, Done}]
    BY <1>0, <1>2 DEF TypeOK
  <2>2. sessions' \subseteq SessionRows
    BY <1>4
  <2>3. overtaken' \in BOOLEAN
    BY <1>0 DEF FinishChangePassword, TypeOK
  <2>4. UNCHANGED <<status, factor, codes, clock>>
    BY DEF FinishChangePassword
  <2>5. request[r].old \in Passwords /\ request[r].next \in Passwords
    BY <1>1
  <2> QED
    BY <1>0, <1>2, <2>1, <2>2, <2>3, <2>4, <2>5, StoreTypes DEF TypeOK
<1>6. RowsInv'
  <2>1. IsFiniteSet(sessions')
    BY <1>4, FS_Singleton, FS_Subset
  <2>2. \A y \in sessions' : request'[y.id] = Done /\ y.at <= clock'
    BY <1>0, <1>2, <1>4 DEF TypeOK, SessionRows
  <2>3. \A q \in Requests : Federated(q)' => request'[q] = request[q] /\ Federated(q)
    BY <1>0, <1>2 DEF Federated, TypeOK, Done
  <2>4. \A q \in Requests : Federated(q)' =>
          /\ request'[q].at <= clock'
          /\ \A y \in sessions' : y.at # request'[q].at
          /\ \A p \in Requests : Federated(p)' /\ request'[p].at = request'[q].at => p = q
    BY <1>0, <1>2, <1>4, <2>3 DEF RowsInv
  <2> QED
    BY <1>4, <2>1, <2>2, <2>4 DEF RowsInv
<1>7. SessionsBounded'
  <2>1. PasswordSessions' \subseteq {x}
    BY <1>4 DEF PasswordSessions
  <2>2. IsFiniteSet({x}) /\ Cardinality({x}) = 1
    BY FS_Singleton
  <2>3. Cardinality(PasswordSessions') <= 1 /\ Cardinality(PasswordSessions') \in Nat
    BY <2>1, <2>2, FS_Subset, FS_CardinalityType
  <2> QED
    BY <2>3, AccountAssumption DEF SessionsBounded
<1>8. OldPasswordsLoggedOut'
  BY <1>4 DEF OldPasswordsLoggedOut
<1>9. HistoryFaithful'
  BY <1>2 DEF AccountInv, HistoryFaithful, FinishChangePassword, StorePassword
<1> QED
  BY <1>5, <1>6, <1>7, <1>8, <1>9 DEF AccountInv

\* An administrator's reset: no session stays, and the password replaced is the one that was read.
LEMMA FinishResetStep ==
  ASSUME AccountInv, NEW r \in Requests, FinishAdminReset(r)
  PROVE  AccountInv'
<1>0. TypeOK /\ RowsInv /\ request[r] \in Pending \cup {New, Done}
  BY DEF AccountInv, TypeOK
<1>1. request[r] \in [op : {"AdminResetPassword"}, old : Passwords, next : Passwords]
  BY <1>0, PendingFields DEF FinishAdminReset
<1>2. /\ StorePassword(request[r].old, request[r].next)
      /\ request' = [request EXCEPT ![r] = Done]
      /\ UNCHANGED <<status, factor, codes, clock, overtaken>>
      /\ sessions' = {}
  BY DEF FinishAdminReset, End
<1>3. TypeOK'
  <2>1. request' \in [Requests -> Pending \cup {New, Done}]
    BY <1>0, <1>2 DEF TypeOK
  <2>2. request[r].old \in Passwords /\ request[r].next \in Passwords
    BY <1>1
  <2> QED
    BY <1>0, <1>2, <2>1, <2>2, StoreTypes DEF TypeOK
<1>4. RowsInv'
  <2>1. \A q \in Requests : Federated(q)' => request'[q] = request[q] /\ Federated(q)
    BY <1>0, <1>2 DEF Federated, TypeOK, Done
  <2> QED
    BY <1>0, <1>2, <2>1, FS_EmptySet DEF RowsInv
<1>5. SessionsBounded'
  <2>1. PasswordSessions' = {}
    BY <1>2 DEF PasswordSessions
  <2> QED
    BY <2>1, FS_EmptySet, AccountAssumption DEF SessionsBounded
<1>6. OldPasswordsLoggedOut'
  BY <1>2 DEF OldPasswordsLoggedOut
<1>7. HistoryFaithful'
  BY <1>2 DEF AccountInv, HistoryFaithful, FinishAdminReset, ensurePasswordState, StorePassword
<1> QED
  BY <1>3, <1>4, <1>5, <1>6, <1>7 DEF AccountInv

\* What users and administrators do in one step: the second factor, the status, a logout.
LEMMA SingleStep ==
  ASSUME AccountInv,
         \/ BeginMFAEnrollment \/ ConfirmMFAEnrollment
         \/ \E id \in SessionIds : EndSession(id) \/ \E offer \in Offers : DisableMFA(id, offer)
         \/ \E s \in {"ACTIVE", "DISABLED"} : SetUserStatus(s)
         \/ UnlockUser \/ PassLock
  PROVE  AccountInv'
<1>0. TypeOK
  BY DEF AccountInv
<1>1. /\ sessions' \subseteq sessions
      /\ UNCHANGED <<password, past, clock, request, used, overtaken>>
  BY DEF BeginMFAEnrollment, ConfirmMFAEnrollment, EndSession, DisableMFA, SetUserStatus,
       UnlockUser, PassLock, Without, account
<1>2. 0 \in 0..(MaxFailures - 1)
  BY AccountAssumption
<1>3. /\ status' \in {"ACTIVE", "DISABLED"}
      /\ failures' \in 0..(MaxFailures - 1)
      /\ locked' \in BOOLEAN
      /\ factor' \in {"NONE", "PENDING", "ACTIVE"}
      /\ codes' \subseteq Codes
  BY <1>0, <1>2 DEF TypeOK, BeginMFAEnrollment, ConfirmMFAEnrollment, EndSession, DisableMFA,
       SetUserStatus, UnlockUser, PassLock, account
<1>4. TypeOK'
  BY <1>0, <1>1, <1>3 DEF TypeOK
<1> QED
  BY <1>1, <1>4, QuietStep

LEMMA AccountStep == AccountInv /\ [Next]_vars => AccountInv'
<1> SUFFICES ASSUME AccountInv, [Next]_vars PROVE AccountInv'
  OBVIOUS
<1>0. TypeOK
  BY DEF AccountInv
<1>1. CASE UNCHANGED vars
  BY <1>1 DEF vars, AccountInv, TypeOK, RowsInv, Federated, SessionsBounded, PasswordSessions,
       OldPasswordsLoggedOut, HistoryFaithful
<1>2. ASSUME NEW r \in Requests, NEW next \in Passwords,
             \/ BeginAdminReset(r, next)
             \/ \E id \in SessionIds : BeginChangePassword(r, id, next)
      PROVE  AccountInv'
  <2>1. CASE BeginAdminReset(r, next)
    <3> DEFINE q == [op |-> "AdminResetPassword", old |-> password, next |-> next]
    <3>1. q \in Pending /\ q.op # "LoginFederated"
      BY <1>0 DEF TypeOK, Pending
    <3>2. Begin(r, q) /\ clock' = clock
      BY <2>1 DEF BeginAdminReset
    <3> HIDE DEF q
    <3> QED
      BY <3>1, <3>2, BeginKeeps
  <2>2. ASSUME NEW id \in SessionIds, BeginChangePassword(r, id, next)
        PROVE  AccountInv'
    <3> DEFINE q == [op |-> "ChangePassword", session |-> id, old |-> password, next |-> next]
    <3>1. id \in Requests
      BY <1>0 DEF TypeOK, SessionIds, SessionRows
    <3>2. q \in Pending /\ q.op # "LoginFederated"
      BY <1>0, <3>1 DEF TypeOK, Pending
    <3>3. Begin(r, q) /\ clock' = clock
      BY <2>2 DEF BeginChangePassword
    <3> HIDE DEF q
    <3> QED
      BY <3>2, <3>3, BeginKeeps
  <2> QED
    BY <1>2, <2>1, <2>2
<1> QED
  BY <1>1, <1>2, LoginStep, FinishLoginStep, BeginFederatedStep, FinishFederatedStep,
     FinishChangeStep, FinishResetStep, SingleStep DEF Next

-----------------------------------------------------------------------------
LEMMA AccountAlways == Spec => []AccountInv
BY AccountInit, AccountStep, PTL DEF Spec

(* Accounts, sessions, factors and requests have their types whatever the  *)
(* policy: in particular the count of failed logins stays below            *)
(* login_max_failures (RecordLoginFailure).                                *)
THEOREM AccountTypes == Spec => []TypeOK
<1>1. AccountInv => TypeOK
  BY DEF AccountInv
<1> QED
  BY <1>1, AccountAlways, PTL

(* For every limit and every number of logins that overlap, the sessions   *)
(* opened with the password stay within max_active_sessions                *)
(* (enforceMaxConcurrentSessions).                                         *)
THEOREM LimitOnSessions == Spec => []SessionsBounded
<1>1. AccountInv => SessionsBounded
  BY DEF AccountInv
<1> QED
  BY <1>1, AccountAlways, PTL

(* No session that was opened with an older password outlives its change,  *)
(* but the ones excused by the code's design                               *)
(* (UpdatePasswordAndRevokeOtherSessions, AdminResetPassword).             *)
THEOREM ChangeLogsOut == Spec => []OldPasswordsLoggedOut
<1>1. AccountInv => OldPasswordsLoggedOut
  BY DEF AccountInv
<1> QED
  BY <1>1, AccountAlways, PTL

(* For every length of the history, the rows that a new password is        *)
(* compared with are the last passwords of the account unless one change   *)
(* of the user overtook another (ensurePasswordState).                     *)
THEOREM HistoryIsTrue == Spec => []HistoryFaithful
<1>1. AccountInv => HistoryFaithful
  BY DEF AccountInv
<1> QED
  BY <1>1, AccountAlways, PTL
=============================================================================
