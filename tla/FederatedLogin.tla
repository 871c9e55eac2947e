--------------------------- MODULE FederatedLogin ---------------------------
(***************************************************************************)
(* Login through an OIDC provider or a directory (internal/adapters/       *)
(* kratosapi/federated_login.go, internal/platform/identitysource, the     *)
(* links of internal/app/identity/federated_identities.go).                *)
(*                                                                         *)
(* BeginOIDCLogin stores a random state with a nonce in the cache; the     *)
(* callback reads it, consumes it with CompareAndDelete, exchanges its     *)
(* code for a token with that nonce, and logs the linked user in.  Each of *)
(* these is a step, and callbacks overlap.  The statements of the login's  *)
(* transaction lock nothing they read.  A state and its nonce are drawn    *)
(* together at random: the state stands for both.                          *)
(***************************************************************************)
EXTENDS Naturals

CONSTANTS FlStates,     \* random values, each drawn once at most
          FlCallbacks,  \* requests, each made once
          FlProviders,  \* configured providers
          FlOrgs,       \* organizations
          FlSubjects,   \* identities at the providers
          FlUsers,      \* local accounts
          NoState       \* for a login through a directory

FederatedAssumption == NoState \notin FlStates

FlLinkRows == [org : FlOrgs, provider : FlProviders, subject : FlSubjects, user : FlUsers]
FlPayloads == [provider : FlProviders, org : FlOrgs]
FlTokens   == [provider : FlProviders, nonce : FlStates \cup {NoState}, subject : FlSubjects]

VARIABLES
  flState,     \* flState[s]: unused, stored in the cache, or gone
  flPayload,   \* flPayload[s]: what was stored under it
  flVouched,   \* external: what the providers have vouched for, by nonce
  flLinks,     \* rows of external_identities
  flActive,    \* active users and organizations
  flPc,        \* flPc[c]: where the request is
  flHeld,      \* flHeld[c]: what it holds
  flSessions,  \* history: sessions created by these logins, with their origin
  flEver,      \* history: every link that ever existed
  flBegun      \* history: what was active at some time while a call ran

flVars == <<flState, flPayload, flVouched, flLinks, flActive, flPc, flHeld, flSessions, flEver, flBegun>>

FlPlaces == {"new", "got", "consumed", "known", "linked", "user", "checked", "done"}
FlHolds  == [state : FlStates \cup {NoState}, provider : FlProviders, org : FlOrgs, subject : FlSubjects, user : FlUsers]

FlInit ==
  /\ flState = [s \in FlStates |-> "unused"]
  /\ flPayload \in [FlStates -> FlPayloads]
  /\ flVouched = {} /\ flLinks = {} /\ flEver = {}
  /\ flActive \in SUBSET (FlUsers \cup FlOrgs)
  /\ flPc = [c \in FlCallbacks |-> "new"] /\ flHeld \in [FlCallbacks -> FlHolds]
  /\ flSessions = {}
  /\ flBegun = [c \in FlCallbacks |-> {}]

Others == <<flVouched, flLinks, flActive, flEver>>

-----------------------------------------------------------------------------
(* What happens around the logins. *)

BeginOIDCLogin(s, p, o) ==
  /\ flState[s] = "unused"
  /\ flState' = [flState EXCEPT ![s] = "stored"]
  /\ flPayload' = [flPayload EXCEPT ![s] = [provider |-> p, org |-> o]]
  /\ UNCHANGED <<Others, flPc, flHeld, flSessions, flBegun>>

\* Five minutes have passed, or the memory cache is lost with its process.
ExpireState(s) ==
  /\ flState[s] = "stored"
  /\ flState' = [flState EXCEPT ![s] = "gone"]
  /\ UNCHANGED <<Others, flPayload, flPc, flHeld, flSessions, flBegun>>

\* The provider authenticates a subject: a signed token with a nonce, or a bind.
Vouch(t) ==
  /\ flVouched' = flVouched \cup {t}
  /\ UNCHANGED <<flState, flPayload, flLinks, flActive, flPc, flHeld, flSessions, flEver, flBegun>>

(* LinkFederatedIdentity, approved and by another user than its target; a  *)
(* subject has one link in an organization (UNIQUE).                       *)
LinkFederatedIdentity(l, actor) ==
  /\ actor # l.user /\ l.user \in flActive
  /\ \A k \in flLinks : <<k.org, k.provider, k.subject>> # <<l.org, l.provider, l.subject>>
  /\ flLinks' = flLinks \cup {l} /\ flEver' = flEver \cup {l}
  /\ UNCHANGED <<flState, flPayload, flVouched, flActive, flPc, flHeld, flSessions, flBegun>>

UnlinkFederatedIdentity(l) ==
  /\ l \in flLinks
  /\ flLinks' = flLinks \ {l}
  /\ UNCHANGED <<flState, flPayload, flVouched, flActive, flPc, flHeld, flSessions, flEver, flBegun>>

\* UpdateUserStatus and UpdateOrganization.
SetActive(a) ==
  /\ flActive' = a
  /\ flBegun' = [c \in FlCallbacks |-> IF flPc[c] = "new" THEN {} ELSE flBegun[c] \cup a]
  /\ UNCHANGED <<flState, flPayload, flVouched, flLinks, flPc, flHeld, flSessions, flEver>>

-----------------------------------------------------------------------------
(* The callback. *)

Moves(c, from, to) == flPc[c] = from /\ flPc' = [flPc EXCEPT ![c] = to]

\* Get of the state's payload; the path names the provider.
GetState(c, s, p) ==
  /\ Moves(c, "new", "got")
  /\ flState[s] = "stored" /\ flPayload[s].provider = p
  /\ flHeld' = [flHeld EXCEPT ![c] = [state |-> s, provider |-> p, org |-> flPayload[s].org,
                                     subject |-> @.subject, user |-> @.user]]
  /\ flBegun' = [flBegun EXCEPT ![c] = flActive]
  /\ UNCHANGED <<flState, flPayload, Others, flSessions>>

\* CompareAndDelete with the payload that was read.
ConsumeState(c) ==
  /\ Moves(c, "got", "consumed")
  /\ flState[flHeld[c].state] = "stored"
  /\ flState' = [flState EXCEPT ![flHeld[c].state] = "gone"]
  /\ UNCHANGED <<flHeld, flPayload, Others, flSessions, flBegun>>

\* The answer of CompareAndDelete is lost: the login fails and the state is gone.
ConsumeLost(c) ==
  /\ Moves(c, "got", "done")
  /\ flState[flHeld[c].state] = "stored"
  /\ flState' = [flState EXCEPT ![flHeld[c].state] = "gone"]
  /\ UNCHANGED <<flHeld, flPayload, Others, flSessions, flBegun>>

\* AuthenticateCode: a token of the provider with the nonce of the state.
AuthenticateCode(c, sub) ==
  /\ Moves(c, "consumed", "known")
  /\ [provider |-> flHeld[c].provider, nonce |-> flHeld[c].state, subject |-> sub] \in flVouched
  /\ flHeld' = [flHeld EXCEPT ![c] = [state |-> @.state, provider |-> @.provider, org |-> @.org,
                                     subject |-> sub, user |-> @.user]]
  /\ UNCHANGED <<flState, flPayload, Others, flSessions, flBegun>>

\* LoginLDAP: the directory accepts the bind; the request names the organization.
AuthenticateLDAP(c, p, o, sub) ==
  /\ Moves(c, "new", "known")
  /\ [provider |-> p, nonce |-> NoState, subject |-> sub] \in flVouched
  /\ flHeld' = [flHeld EXCEPT ![c] = [state |-> NoState, provider |-> p, org |-> o,
                                     subject |-> sub, user |-> @.user]]
  /\ flBegun' = [flBegun EXCEPT ![c] = flActive]
  /\ UNCHANGED <<flState, flPayload, Others, flSessions>>

\* LoginFederated: the link, then the user and the organization, then the session.
FindLink(c, l) ==
  /\ l \in flLinks
  /\ l.org = flHeld[c].org /\ l.provider = flHeld[c].provider /\ l.subject = flHeld[c].subject
  /\ Moves(c, "known", "linked")
  /\ flHeld' = [flHeld EXCEPT ![c] = [state |-> @.state, provider |-> @.provider, org |-> @.org,
                                     subject |-> @.subject, user |-> l.user]]
  /\ UNCHANGED <<flState, flPayload, Others, flSessions, flBegun>>

\* UserByID and OrganizationByID are two queries.
CheckUser(c) ==
  /\ flHeld[c].user \in flActive
  /\ Moves(c, "linked", "user")
  /\ UNCHANGED <<flHeld, flState, flPayload, Others, flSessions, flBegun>>

CheckOrganization(c) ==
  /\ flHeld[c].org \in flActive
  /\ Moves(c, "user", "checked")
  /\ UNCHANGED <<flHeld, flState, flPayload, Others, flSessions, flBegun>>

CreateFederatedSession(c) ==
  /\ Moves(c, "checked", "done")
  /\ flSessions' = flSessions \cup {[call |-> c, by |-> flHeld[c]]}
  /\ UNCHANGED <<flHeld, flState, flPayload, Others, flBegun>>

\* Any check fails, or the request is given up.
FailFederated(c) ==
  /\ flPc[c] # "done"
  /\ flPc' = [flPc EXCEPT ![c] = "done"]
  /\ UNCHANGED <<flHeld, flState, flPayload, Others, flSessions, flBegun>>

FlNext ==
  \/ \E s \in FlStates, p \in FlProviders, o \in FlOrgs : BeginOIDCLogin(s, p, o)
  \/ \E s \in FlStates : ExpireState(s)
  \/ \E t \in FlTokens : Vouch(t)
  \/ \E l \in FlLinkRows, actor \in FlUsers : LinkFederatedIdentity(l, actor)
  \/ \E l \in flLinks : UnlinkFederatedIdentity(l)
  \/ \E a \in SUBSET (FlUsers \cup FlOrgs) : SetActive(a)
  \/ \E c \in FlCallbacks :
       \/ \E s \in FlStates, p \in FlProviders : GetState(c, s, p)
       \/ ConsumeState(c) \/ ConsumeLost(c)
       \/ \E sub \in FlSubjects : AuthenticateCode(c, sub)
       \/ \E p \in FlProviders, o \in FlOrgs, sub \in FlSubjects : AuthenticateLDAP(c, p, o, sub)
       \/ \E l \in flLinks : FindLink(c, l)
       \/ CheckUser(c) \/ CheckOrganization(c) \/ CreateFederatedSession(c) \/ FailFederated(c)

FlSpec == FlInit /\ [][FlNext]_flVars

-----------------------------------------------------------------------------
(* PROPERTIES *)

(* A state logs in once at most, however many callbacks arrive with it at  *)
(* the same time: only one of them consumes it (CompareAndDelete).         *)
StateLogsInOnce ==
  \A x, y \in flSessions : x.by.state = y.by.state /\ x.by.state # NoState => x = y

\* What a login has to rest on.
TokenOf(h) == [provider |-> h.provider, nonce |-> h.state, subject |-> h.subject]
LinkOf(h)  == [org |-> h.org, provider |-> h.provider, subject |-> h.subject, user |-> h.user]
AskedBy(h) == [provider |-> h.provider, org |-> h.org]

(* Whoever is logged in is the user of an approved link between the        *)
(* provider's subject and this account, in the organization for which the  *)
(* login was begun, and the provider has vouched for the subject with the  *)
(* nonce of this very login; the user and the organization were active at  *)
(* some time during the request.                                           *)
LoginIsVouchedFor ==
  \A x \in flSessions :
    /\ TokenOf(x.by) \in flVouched /\ LinkOf(x.by) \in flEver
    /\ x.by.state # NoState => flPayload[x.by.state] = AskedBy(x.by)
    /\ {x.by.user, x.by.org} \subseteq flBegun[x.call]

=============================================================================
