---------------------------- MODULE EventDelivery ----------------------------
(***************************************************************************)
(* What the domain-event pipeline promises, without relays, leases, clocks *)
(* or retries: an event is queued together with the aggregate change that  *)
(* produced it, its notice reaches the inboxes at most once and is never   *)
(* taken back, it is settled once, and it is settled as "dispatched" only  *)
(* after every subscriber has seen it.                                     *)
(***************************************************************************)
CONSTANTS
    Events,             \* identities of domain events
    NoticeEvents        \* the events that must produce an in-app notice

VARIABLES
    state,              \* state[e]: "absent", "queued", "dispatched" or "failed"
    delivered,          \* events whose notice is in its recipients' inboxes
    audited             \* events the audit log has recorded

vars == <<state, delivered, audited>>

Init ==
    /\ state = [e \in Events |-> "absent"]
    /\ delivered = {}
    /\ audited = {}

\* The aggregate's transaction stores the event.
Queue(e) ==
    /\ state[e] = "absent"
    /\ state' = [state EXCEPT ![e] = "queued"]
    /\ UNCHANGED <<delivered, audited>>

\* The first delivery of the notice; later deliveries change nothing.
DeliverNotice(e) ==
    /\ state[e] # "absent"
    /\ e \in NoticeEvents
    /\ e \notin delivered
    /\ delivered' = delivered \cup {e}
    /\ UNCHANGED <<state, audited>>

\* The audit subscriber comes after the notice subscriber.
Audit(e) ==
    /\ state[e] # "absent"
    /\ e \in NoticeEvents => e \in delivered
    /\ audited' = audited \cup {e}
    /\ UNCHANGED <<state, delivered>>

Dispatch(e) ==
    /\ state[e] = "queued"
    /\ e \in audited
    /\ state' = [state EXCEPT ![e] = "dispatched"]
    /\ UNCHANGED <<delivered, audited>>

GiveUp(e) ==
    /\ state[e] = "queued"
    /\ state' = [state EXCEPT ![e] = "failed"]
    /\ UNCHANGED <<delivered, audited>>

Next ==
    \E e \in Events :
        \/ Queue(e)
        \/ DeliverNotice(e)
        \/ Audit(e)
        \/ Dispatch(e)
        \/ GiveUp(e)

Spec == Init /\ [][Next]_vars
=============================================================================
