------------------------------- MODULE Outbox -------------------------------
(***************************************************************************)
(* What the reliable-message table promises to the business transaction    *)
(* that writes into it: a message is handed to the bus any number of times *)
(* while it is open, and is closed exactly once: as sent, after the bus    *)
(* has accepted it, or as dead.                                            *)
(***************************************************************************)
EXTENDS Naturals

CONSTANT Message

VARIABLES
  state,     \* state[m]: "none", "open", "sent" or "dead"
  delivered  \* the messages the bus has accepted

outboxVars == <<state, delivered>>

Init ==
  /\ state = [m \in Message |-> "none"]
  /\ delivered = {}

Enqueue(m) ==
  /\ state[m] = "none"
  /\ state' = [state EXCEPT ![m] = "open"]
  /\ UNCHANGED delivered

\* Hand m to the bus, perhaps again.
Deliver(m) ==
  /\ state[m] = "open"
  /\ delivered' = delivered \cup {m}
  /\ UNCHANGED state

Confirm(m) ==
  /\ state[m] = "open"
  /\ m \in delivered
  /\ state' = [state EXCEPT ![m] = "sent"]
  /\ UNCHANGED delivered

GiveUp(m) ==
  /\ state[m] = "open"
  /\ state' = [state EXCEPT ![m] = "dead"]
  /\ UNCHANGED delivered

Next == \E m \in Message : Enqueue(m) \/ Deliver(m) \/ Confirm(m) \/ GiveUp(m)

Spec == Init /\ [][Next]_outboxVars

=============================================================================
