----------------------------- MODULE Resilience -----------------------------
(***************************************************************************)
(* What protects the server from its callers and from what it calls: the   *)
(* circuit breaker and the bulkhead (internal/platform/resilience) and the *)
(* fixed-window rate limiter (internal/platform/ratelimit, over the        *)
(* counters of internal/platform/cache).                                   *)
(*                                                                         *)
(* Execute of the breaker holds its mutex before and after the call, not   *)
(* during it: the two sections are two steps, and calls overlap.           *)
(***************************************************************************)
EXTENDS Naturals, FiniteSets

CONSTANTS RsCalls,      \* calls through one breaker, each made once
          RsWorkers,    \* calls through one bulkhead, each made once
          Threshold,    \* CircuitFailureThreshold
          OpenFor,      \* CircuitOpenDuration
          Slots,        \* the capacity of the bulkhead
          RsHorizon,    \* bound: the last instant of the clock
          RsReplicas,   \* replicas of the server
          RateLimit,    \* the limit of one key
          RateWindow,   \* its window
          RsProvider    \* provider of the cache: redis, memory or disabled

ResilienceAssumption ==
  /\ Threshold \in Nat \ {0} /\ OpenFor \in Nat /\ RsHorizon \in Nat
  /\ Slots \in Nat /\ RateLimit \in Nat \ {0} /\ RateWindow \in Nat \ {0}
  /\ RsProvider \in {"redis", "memory", "disabled"}

NotOpen == RsHorizon + 1   \* openedAt.IsZero()

VARIABLES
  rsNow,       \* the clock
  failures,    \* Circuit.failures
  openedAt,    \* Circuit.openedAt
  rsCall,      \* rsCall[c]: new, running or done
  rsWork,      \* rsWork[w]: new, running or done
  slots,       \* the calls whose token is in the bulkhead's channel
  rsFailed,    \* history: the failed calls
  rsPaid,      \* history: the failures that openings have used up
  shared,      \* the counter of the key in the cache, and when it expires
  localEntry,  \* localEntry[p]: the limiter's own entry in replica p
  allowed,     \* history: requests admitted in the window of the shared counter
  admitted     \* history: admitted[p], in the window of the entry of replica p

breakerVars == <<failures, openedAt, rsCall, rsFailed, rsPaid>>
bulkheadVars == <<rsWork, slots>>
limiterVars == <<shared, localEntry, allowed, admitted>>
rsVars == <<rsNow, breakerVars, bulkheadVars, limiterVars>>

RateEntries == [count : Nat, until : 0..(RsHorizon + RateWindow)]

RsTypeOK ==
  /\ rsNow \in 0..RsHorizon /\ failures \in Nat /\ openedAt \in 0..NotOpen
  /\ rsCall \in [RsCalls -> {"new", "running", "done"}]
  /\ rsWork \in [RsWorkers -> {"new", "running", "done"}]
  /\ slots \in SUBSET RsWorkers /\ rsFailed \in Nat /\ rsPaid \in Nat
  /\ shared \in RateEntries /\ localEntry \in [RsReplicas -> RateEntries]
  /\ allowed \in Nat /\ admitted \in [RsReplicas -> Nat]

RsInit ==
  /\ rsNow = 0 /\ failures = 0 /\ openedAt = NotOpen
  /\ rsCall = [c \in RsCalls |-> "new"] /\ rsWork = [w \in RsWorkers |-> "new"]
  /\ slots = {} /\ rsFailed = 0 /\ rsPaid = 0
  /\ shared = [count |-> 0, until |-> 0]
  /\ localEntry = [p \in RsReplicas |-> [count |-> 0, until |-> 0]]
  /\ allowed = 0 /\ admitted = [p \in RsReplicas |-> 0]

RsTick == rsNow < RsHorizon /\ rsNow' = rsNow + 1 /\ UNCHANGED <<breakerVars, bulkheadVars, limiterVars>>

(* Circuit.Execute up to the call: an open breaker refuses until openFor   *)
(* has passed; then whoever comes first closes it and goes on, and so does *)
(* everybody after.                                                        *)
Refuses == openedAt # NotOpen /\ rsNow - openedAt < OpenFor

Enter(c) ==
  /\ rsCall[c] = "new" /\ ~Refuses
  /\ openedAt' = NotOpen
  /\ rsCall' = [rsCall EXCEPT ![c] = "running"]
  /\ UNCHANGED <<rsNow, failures, rsFailed, rsPaid, bulkheadVars, limiterVars>>

RefuseOpen(c) ==
  /\ rsCall[c] = "new" /\ Refuses
  /\ rsCall' = [rsCall EXCEPT ![c] = "done"]
  /\ UNCHANGED <<rsNow, failures, openedAt, rsFailed, rsPaid, bulkheadVars, limiterVars>>

\* The call returns, and the breaker counts.
Leave(c) ==
  /\ rsCall[c] = "running"
  /\ rsCall' = [rsCall EXCEPT ![c] = "done"]
  /\ UNCHANGED <<rsNow, bulkheadVars, limiterVars>>

Succeed(c) ==
  /\ Leave(c)
  /\ failures' = 0 /\ openedAt' = NotOpen
  /\ UNCHANGED <<rsFailed, rsPaid>>

FailExecution(c) ==
  /\ Leave(c)
  /\ rsFailed' = rsFailed + 1
  /\ \/ /\ failures + 1 >= Threshold
        /\ openedAt' = rsNow /\ failures' = 0 /\ rsPaid' = rsPaid + Threshold
     \/ /\ failures + 1 < Threshold
        /\ failures' = failures + 1 /\ UNCHANGED <<openedAt, rsPaid>>

\* Bulkhead.Execute: a token is put into the channel or the call is refused.
TakeSlot(w) ==
  /\ rsWork[w] = "new"
  /\ \/ /\ Cardinality(slots) < Slots
        /\ slots' = slots \cup {w} /\ rsWork' = [rsWork EXCEPT ![w] = "running"]
     \/ /\ Cardinality(slots) >= Slots
        /\ slots' = slots /\ rsWork' = [rsWork EXCEPT ![w] = "done"]
  /\ UNCHANGED <<rsNow, breakerVars, limiterVars>>

\* The call returns or panics: the deferred receive frees its slot.
FreeSlot(w) ==
  /\ rsWork[w] = "running"
  /\ slots' = slots \ {w} /\ rsWork' = [rsWork EXCEPT ![w] = "done"]
  /\ UNCHANGED <<rsNow, breakerVars, limiterVars>>

-----------------------------------------------------------------------------
(* Increment of the cache: one script in Redis, one critical section in    *)
(* memory.  The time to live is set with the first request of a window.    *)
Fresh(e) == rsNow > e.until

Increment ==
  /\ \/ /\ Fresh(shared) \/ shared.count = 0
        /\ shared' = [count |-> 1, until |-> rsNow + RateWindow]
     \/ /\ ~Fresh(shared) /\ shared.count # 0
        /\ shared' = [count |-> shared.count + 1, until |-> shared.until]

\* Allow over the cache: all replicas count together in Redis, one process in memory.
AllowShared ==
  /\ RsProvider # "disabled"
  /\ Increment
  /\ allowed' = (IF shared'.count = 1 THEN 0 ELSE allowed) + (IF shared'.count <= RateLimit THEN 1 ELSE 0)
  /\ UNCHANGED <<rsNow, breakerVars, bulkheadVars, localEntry, admitted>>

(* Increment fails: with Redis the request is refused (the API answers     *)
(* 503), otherwise the replica falls back on its own map.  The counter may *)
(* have been increased although the answer was lost.                       *)
SharedFails ==
  /\ RsProvider = "redis"
  /\ \/ UNCHANGED <<shared, allowed>>
     \/ Increment /\ allowed' = IF shared'.count = 1 THEN 0 ELSE allowed
  /\ UNCHANGED <<rsNow, breakerVars, bulkheadVars, localEntry, admitted>>

AllowLocal(p) ==
  LET e == IF Fresh(localEntry[p]) THEN [count |-> 0, until |-> rsNow + RateWindow] ELSE localEntry[p]
      n == IF Fresh(localEntry[p]) THEN 0 ELSE admitted[p]
  IN /\ RsProvider = "disabled"
     /\ \/ /\ e.count >= RateLimit
           /\ localEntry' = [localEntry EXCEPT ![p] = e] /\ admitted' = [admitted EXCEPT ![p] = n]
        \/ /\ e.count < RateLimit
           /\ localEntry' = [localEntry EXCEPT ![p] = [count |-> e.count + 1, until |-> e.until]]
           /\ admitted' = [admitted EXCEPT ![p] = n + 1]
     /\ UNCHANGED <<rsNow, breakerVars, bulkheadVars, shared, allowed>>

RsNext ==
  \/ RsTick
  \/ \E c \in RsCalls : Enter(c) \/ RefuseOpen(c) \/ Succeed(c) \/ FailExecution(c)
  \/ \E w \in RsWorkers : TakeSlot(w) \/ FreeSlot(w)
  \/ AllowShared \/ SharedFails
  \/ \E p \in RsReplicas : AllowLocal(p)

RsSpec == RsInit /\ [][RsNext]_rsVars

-----------------------------------------------------------------------------
(* PROPERTIES *)

(* Every opening of the breaker is paid for by Threshold failures of its   *)
(* own, however calls overlap: a failure is never counted for two openings *)
(* (Circuit.Execute resets the counter under the mutex).                   *)
OpeningsArePaidFor == rsPaid + failures <= rsFailed /\ failures < Threshold

(* No more calls run than the bulkhead has slots, and a slot is held       *)
(* exactly by a running call: none leaks, whichever way a call ends.       *)
SlotsAreBounded ==
  Cardinality(slots) <= Slots /\ slots = {w \in RsWorkers : rsWork[w] = "running"}

(* At most RateLimit requests are admitted in a window: by all replicas    *)
(* together over a shared cache, by each of them without one.  A lost      *)
(* answer of Redis never admits one more.                                  *)
WithinLimit ==
  /\ allowed <= RateLimit
  /\ \A p \in RsReplicas : admitted[p] <= RateLimit

=============================================================================
