-------------------------- MODULE MCDomainEventRelay --------------------------
(* Small instances of DomainEventRelay for TLC.                            *)
EXTENDS DomainEventRelay

CONSTANTS r1, r2

\* 1: an order event for its buyer and seller. 2: a listing event of the old
\* format, whose owner is looked up. 3: an event nobody is notified of.
MCPayload ==
    << [eventType |-> "order.created", orderType |-> "marketplace", listing |-> 0,
        owner |-> 0, buyer |-> 11, seller |-> 12, user |-> 0],
       [eventType |-> "listing.reviewed", orderType |-> "", listing |-> 7,
        owner |-> 0, buyer |-> 0, seller |-> 0, user |-> 0],
       [eventType |-> "order.created", orderType |-> "errand", listing |-> 0,
        owner |-> 0, buyer |-> 11, seller |-> 12, user |-> 0] >>

MCListingOwner == <<0, 12, 0>>

\* r2's clock is one unit ahead.
MCSkew == [r \in Relays |-> IF r = r2 THEN 1 ELSE 0]

CONSTANT MaxUnhurried   \* how far the clock goes where ticks may take any time

VARIABLE prompt   \* whether a tick takes less than a clock unit

MCInit == Init /\ prompt \in BOOLEAN

MCNext ==
    /\ IF prompt THEN LiveNext ELSE Next /\ clock' <= MaxUnhurried
    /\ UNCHANGED prompt

\* Both kinds of relay; progress is assumed, and promised, of the prompt ones.
MCSpec ==
    /\ MCInit /\ [][MCNext]_<<vars, prompt>>
    /\ WF_vars(prompt /\ Quiet /\ TimePasses)
    /\ \A r \in Relays : WF_vars(prompt /\ RelayStep(r))

\* Where ticks are prompt, every event written is dispatched or given up, although
\* a worker may die in the middle of a batch: its leases time out and another
\* tick takes them (relay.go's lease and its expiry).
PromptRelaysSettle == prompt => EventuallySettled
=============================================================================
