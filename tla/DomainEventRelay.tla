--------------------------- MODULE DomainEventRelay ---------------------------
(***************************************************************************)
(* The transactional outbox of domain events and the relays that drain it. *)
(*                                                                         *)
(*   internal/core/domainevent                writes the rows              *)
(*   internal/infrastructure/domainevent      Relay, CompositePublisher,   *)
(*                                            NoticePublisher, LogPublisher*)
(*                                                                         *)
(* Every worker process runs one relay. A relay's tick reads its clock,    *)
(* leases a batch of due rows in one transaction (locked_at = the tick's   *)
(* time is the lease token), publishes them one by one in id order and     *)
(* settles each with an update conditional on its token. A database        *)
(* transaction is one step; everything between two transactions is a place *)
(* where another relay, a crash or the clock may come in.                  *)
(***************************************************************************)
EXTENDS Integers, FiniteSets

CONSTANTS
    Events,         \* domain_events.id values; their order is the lease order
    Relays,         \* worker processes
    Skew,           \* Skew[r]: how far r's wall clock is ahead of the database writers'
    Payload,        \* Payload[e]: the decoded payload of event e
    ListingOwner,   \* ListingOwner[e]: owner_id of the listing e names, 0 if it has none
    BatchSize,      \* relay.go: batchSize
    LeasePeriod,    \* relay.go: leasePeriod, in clock units
    MaxAttempts,    \* relay.go: maxAttempts
    MaxTime,        \* bound: the clock stops here
    WriteUntil,     \* bound: no event is written after this time
    MaxCrashes      \* bound: ticks cut short by a crash or a database error

Null == -1          \* SQL NULL in locked_at

Statuses == {"none", "pending", "leased", "dispatched", "failed"}
PCs == {"idle", "ticking", "publish", "audit", "mark", "release"}

ASSUME EventsAssumption == Events \subseteq Nat
ASSUME SkewAssumption == Skew \in [Relays -> Nat]
ASSUME BoundsAssumption ==
    /\ BatchSize \in Nat \ {0}
    /\ LeasePeriod \in Nat
    /\ MaxAttempts \in Nat \ {0}
    /\ MaxTime \in Nat
    /\ WriteUntil \in Nat
    /\ MaxCrashes \in Nat

VARIABLES
    clock,      \* wall-clock time of the processes that write events
    row,        \* row[e]: the domain_events row; status "none" before it is written
    notice,     \* notice[e]: how many notices have source_event_id = e
    inbox,      \* inbox[e]: recipients of the notice made from e
    audited,    \* events the LogPublisher has recorded
    pc,         \* pc[r]: where relay r's tick stands
    tickNow,    \* tickNow[r]: `now` of the current tick, the lease token of its batch
    batch,      \* batch[r]: leased events the tick has not settled yet
    attempts,   \* attempts[r][e]: Attempts in the tick's copy of event e
    crashes     \* crashes so far (bound)

relayVars == <<pc, tickNow, batch, attempts>>
noticeVars == <<notice, inbox, audited>>
vars == <<clock, row, notice, inbox, audited, pc, tickNow, batch, attempts, crashes>>

-----------------------------------------------------------------------------
(* The subscribers: which notice an event produces.                        *)

Supported ==
    {"listing.reviewed", "listing.removed", "order.created", "order.cancelled",
     "order.completed", "order.expired", "academic_verification.approved",
     "academic_verification.rejected", "academic_verification.revoked"}

ListingEvent(e) == Payload[e].eventType \in {"listing.reviewed", "listing.removed"}
OrderEvent(e) ==
    Payload[e].eventType \in {"order.created", "order.cancelled", "order.completed", "order.expired"}

\* A listing event written before payloads carried owner_id takes it from the
\* listing's row; a listing that is gone makes the publication fail.
NeedsOwner(e) == ListingEvent(e) /\ Payload[e].owner = 0 /\ Payload[e].listing # 0
EnrichFails(e) == NeedsOwner(e) /\ ListingOwner[e] = 0
enrichLegacyListingOwner(e) == IF NeedsOwner(e) THEN ListingOwner[e] ELSE Payload[e].owner

uniqueRecipients(ids) == ids \ {0}

Recipients(e) ==
    uniqueRecipients(
        IF ListingEvent(e) THEN {enrichLegacyListingOwner(e)}
        ELSE IF OrderEvent(e) THEN {Payload[e].buyer, Payload[e].seller}
        ELSE {Payload[e].user})

\* noticeSpecFor: not ok (no notice, no error), or an error, or a notice.
NoNotice(e) ==
    \/ Payload[e].eventType \notin Supported
    \/ OrderEvent(e) /\ Payload[e].orderType # "marketplace"
PublishErrs(e) == EnrichFails(e) \/ (~NoNotice(e) /\ Recipients(e) = {})
NoticeEvents == {e \in Events : ~NoNotice(e)}

-----------------------------------------------------------------------------
NoAttempts == [e \in Events |-> 0]

Init ==
    /\ clock = 0
    /\ row = [e \in Events |-> [status |-> "none", availableAt |-> 0,
                                lockedAt |-> Null, attempts |-> 0]]
    /\ notice = [e \in Events |-> 0]
    /\ inbox = [e \in Events |-> {}]
    /\ audited = {}
    /\ pc = [r \in Relays |-> "idle"]
    /\ tickNow = [r \in Relays |-> 0]
    /\ batch = [r \in Relays |-> {}]
    /\ attempts = [r \in Relays |-> NoAttempts]
    /\ crashes = 0

TimePasses ==
    /\ clock < MaxTime
    /\ clock' = clock + 1
    /\ UNCHANGED <<row, noticeVars, relayVars, crashes>>

\* newEvent + persist inside the aggregate's transaction.
Write(e) ==
    /\ clock <= WriteUntil
    /\ row[e].status = "none"
    /\ row' = [row EXCEPT ![e] = [@ EXCEPT !.status = "pending", !.availableAt = clock]]
    /\ UNCHANGED <<clock, noticeVars, relayVars, crashes>>

Now(r) == clock + Skew[r]

\* tick reads the clock before it opens the lease transaction.
BeginTick(r) ==
    /\ pc[r] = "idle"
    /\ pc' = [pc EXCEPT ![r] = "ticking"]
    /\ tickNow' = [tickNow EXCEPT ![r] = Now(r)]
    /\ UNCHANGED <<clock, row, noticeVars, batch, attempts, crashes>>

\* Mutant: a lease never times out.
DueNoTakeover(e, now) ==
    row[e].status = "pending" /\ row[e].availableAt <= now

\* Mutant: a lease may be taken over as soon as its own timestamp is reached.
DueWithoutExpiry(e, now) ==
    /\ row[e].availableAt <= now
    /\ row[e].status \in {"pending", "leased"}

Due(e, now) ==
    /\ row[e].status # "none"
    /\ row[e].availableAt <= now
    /\ \/ row[e].status = "pending"
       \/ row[e].status = "leased" /\ row[e].lockedAt < now - LeasePeriod

\* ORDER BY id LIMIT batchSize
FirstDue(now) ==
    {e \in Events : /\ Due(e, now)
                    /\ Cardinality({f \in Events : Due(f, now) /\ f < e}) < BatchSize}

\* tick returns: its locals are gone, and rows left in the batch stay leased.
EndTick(r) ==
    /\ pc' = [pc EXCEPT ![r] = "idle"]
    /\ tickNow' = [tickNow EXCEPT ![r] = 0]
    /\ batch' = [batch EXCEPT ![r] = {}]
    /\ attempts' = [attempts EXCEPT ![r] = NoAttempts]

\* The loop over the batch is done with e.
Continue(r, e) ==
    IF batch[r] = {e}
    THEN EndTick(r)
    ELSE /\ pc' = [pc EXCEPT ![r] = "publish"]
         /\ batch' = [batch EXCEPT ![r] = @ \ {e}]
         /\ UNCHANGED <<tickNow, attempts>>

Lease(r) ==
    /\ pc[r] = "ticking"
    /\ LET events == FirstDue(tickNow[r]) IN
       IF events = {}
       THEN EndTick(r) /\ UNCHANGED row
       ELSE /\ row' = [e \in Events |->
                         IF e \in events
                         THEN [row[e] EXCEPT !.status = "leased", !.lockedAt = tickNow[r],
                                             !.attempts = @ + 1]
                         ELSE row[e]]
            /\ attempts' = [attempts EXCEPT ![r] =
                              [e \in Events |->
                                 IF e \in events THEN row[e].attempts + 1 ELSE 0]]
            /\ batch' = [batch EXCEPT ![r] = events]
            /\ pc' = [pc EXCEPT ![r] = "publish"]
            /\ UNCHANGED tickNow
    /\ UNCHANGED <<clock, noticeVars, crashes>>

\* The event the loop over the batch is at.
Current(r, e) == e \in batch[r] /\ \A f \in batch[r] : e <= f

\* Mutant: without ON CONFLICT (source_event_id) DO NOTHING.
PublishNoticeAgain(r, e) ==
    /\ pc[r] = "publish"
    /\ Current(r, e)
    /\ ~PublishErrs(e)
    /\ IF NoNotice(e)
       THEN UNCHANGED <<notice, inbox>>
       ELSE /\ notice' = [notice EXCEPT ![e] = @ + 1]
            /\ inbox' = [inbox EXCEPT ![e] = Recipients(e)]
    /\ pc' = [pc EXCEPT ![r] = "audit"]
    /\ UNCHANGED <<clock, row, audited, tickNow, batch, attempts, crashes>>

\* NoticePublisher.Publish: one transaction, deduplicated on source_event_id.
PublishNotice(r, e) ==
    /\ pc[r] = "publish"
    /\ Current(r, e)
    /\ ~PublishErrs(e)
    /\ IF NoNotice(e) \/ notice[e] > 0
       THEN UNCHANGED <<notice, inbox>>
       ELSE /\ notice' = [notice EXCEPT ![e] = @ + 1]
            /\ inbox' = [inbox EXCEPT ![e] = Recipients(e)]
    /\ pc' = [pc EXCEPT ![r] = "audit"]
    /\ UNCHANGED <<clock, row, audited, tickNow, batch, attempts, crashes>>

\* The payload cannot be turned into a notice, or the database refuses.
PublishFails(r) ==
    /\ pc[r] = "publish"
    /\ pc' = [pc EXCEPT ![r] = "release"]
    /\ UNCHANGED <<clock, row, noticeVars, tickNow, batch, attempts, crashes>>

\* LogPublisher.Publish, the last of the chain, always succeeds.
PublishAudit(r, e) ==
    /\ pc[r] = "audit"
    /\ Current(r, e)
    /\ audited' = audited \cup {e}
    /\ pc' = [pc EXCEPT ![r] = "mark"]
    /\ UNCHANGED <<clock, row, notice, inbox, tickNow, batch, attempts, crashes>>

\* Mutant: the settling updates are conditional on the id only.
IgnoresToken(r, e) == row[e].status # "none"

\* WHERE id = ? AND status = leased AND locked_at = ?
HoldsLease(r, e) == row[e].status = "leased" /\ row[e].lockedAt = tickNow[r]

markDispatched(r, e) ==
    /\ pc[r] = "mark"
    /\ Current(r, e)
    /\ IF HoldsLease(r, e)
       THEN /\ row' = [row EXCEPT ![e] = [@ EXCEPT !.status = "dispatched", !.lockedAt = Null]]
            /\ Continue(r, e)
       ELSE EndTick(r) /\ UNCHANGED row
    /\ UNCHANGED <<clock, noticeVars, crashes>>

Exhausted(r, e) == attempts[r][e] >= MaxAttempts

\* One more second of delay for every attempt made.
RetryAt(r, e) == tickNow[r] + attempts[r][e]

release(r, e) ==
    /\ pc[r] = "release"
    /\ Current(r, e)
    /\ IF HoldsLease(r, e)
       THEN /\ row' = [row EXCEPT ![e] = [@ EXCEPT
                         !.status = IF Exhausted(r, e) THEN "failed" ELSE "pending",
                         !.lockedAt = Null,
                         !.availableAt = IF Exhausted(r, e) THEN tickNow[r]
                                         ELSE RetryAt(r, e)]]
            /\ Continue(r, e)
       ELSE EndTick(r) /\ UNCHANGED row
    /\ UNCHANGED <<clock, noticeVars, crashes>>

\* The process dies and restarts, or a settling update returns an error: the
\* tick is over and its remaining rows keep their lease until it times out.
Abandon(r) ==
    /\ pc[r] # "idle"
    /\ crashes < MaxCrashes
    /\ crashes' = crashes + 1
    /\ EndTick(r)
    /\ UNCHANGED <<clock, row, noticeVars>>

RelayStep(r) ==
    \/ BeginTick(r)
    \/ Lease(r)
    \/ PublishFails(r)
    \/ \E e \in Events :
         \/ PublishNotice(r, e)
         \/ PublishAudit(r, e)
         \/ markDispatched(r, e)
         \/ release(r, e)

Next ==
    \/ TimePasses
    \/ \E e \in Events : Write(e)
    \/ \E r \in Relays : RelayStep(r) \/ Abandon(r)

Spec == Init /\ [][Next]_vars

-----------------------------------------------------------------------------
(* Maximal progress: time passes only when no relay is in the middle of a  *)
(* batch and nothing is due, that is, a tick takes less than a clock unit. *)
(* Every relay keeps ticking (Run's loop) and time goes on.                *)
Quiet ==
    \A r \in Relays :
        /\ pc[r] \in {"idle", "ticking"}
        /\ \A e \in Events : ~Due(e, Now(r))

LiveNext ==
    \/ Quiet /\ TimePasses
    \/ \E e \in Events : Write(e)
    \/ \E r \in Relays : RelayStep(r) \/ Abandon(r)

LiveSpec ==
    /\ Init /\ [][LiveNext]_vars
    /\ WF_vars(Quiet /\ TimePasses)
    /\ \A r \in Relays : WF_vars(RelayStep(r))

-----------------------------------------------------------------------------
Users == UNION {Recipients(e) : e \in Events}
Row == [status : Statuses, availableAt : Nat, lockedAt : Nat \cup {Null}, attempts : Nat]

\* Types of the variables, as the migrations declare the columns.
TypeOK ==
    /\ clock \in Nat
    /\ row \in [Events -> Row]
    /\ notice \in [Events -> Nat]
    /\ inbox \in [Events -> SUBSET Users]
    /\ audited \in SUBSET Events
    /\ pc \in [Relays -> PCs]
    /\ tickNow \in [Relays -> Nat]
    /\ batch \in [Relays -> SUBSET Events]
    /\ attempts \in [Relays -> [Events -> Nat]]
    /\ crashes \in Nat

\* relay.go settles an event with an update conditional on the lease token, a
\* timestamp. No two relays may pass that condition for the same event, however
\* late their ticks run, whatever their clocks show and however often the event
\* was released, lost or taken over in between.
LeaseExclusive ==
    \A r1, r2 \in Relays : \A e \in batch[r1] \cap batch[r2] :
        HoldsLease(r1, e) /\ HoldsLease(r2, e) => r1 = r2

\* Why the token works: whoever takes an event over, or releases it, leaves it
\* beyond the reach of every older token that some tick still holds.
TokenInv ==
    \A r \in Relays : \A e \in batch[r] :
        /\ row[e].status # "none"
        /\ attempts[r][e] >= 1
        /\ row[e].status = "leased" => row[e].lockedAt >= tickNow[r]
        /\ row[e].status = "pending" => row[e].availableAt > tickNow[r]
        /\ HoldsLease(r, e) => attempts[r][e] = row[e].attempts
LeaseInv ==
    /\ \A r \in Relays : pc[r] \in {"idle", "ticking"} => batch[r] = {}
    /\ TokenInv
    /\ LeaseExclusive

\* CompositePublisher: "requires every subscriber to succeed before dispatch".
\* A dispatched event is in the audit log, and its notice stands in the inbox
\* of exactly the users it concerns, whichever relay marked it.
DispatchedIsDelivered ==
    \A e \in Events : row[e].status = "dispatched" =>
        /\ e \in audited
        /\ e \in NoticeEvents => notice[e] > 0 /\ inbox[e] = Recipients(e)

\* NoticePublisher.Publish "idempotently persists": redelivery after a lost
\* lease, a crash or a slow publication never makes a second notice, and the one
\* notice is of an event that has a notice and stands, also while its event is
\* not settled yet, in the inboxes of exactly the users its payload concerns.
NoticeOnce ==
    \A e \in Events :
        /\ notice[e] <= 1
        /\ notice[e] > 0 => e \in NoticeEvents /\ inbox[e] = Recipients(e)

\* An event is given up only after maxAttempts leases.
FailedIsExhausted ==
    \A e \in Events : row[e].status = "failed" => row[e].attempts >= MaxAttempts

\* A dispatched or failed row is never leased, released or settled again, also
\* not by a relay that still holds it in the batch of an overlong tick.
SettledIsFinal ==
    [][\A e \in Events :
         row[e].status \in {"dispatched", "failed"} => row'[e] = row[e]]_vars

\* What the subscribers have seen when the loop stands behind them.
ChainInv ==
    /\ \A e \in Events : notice[e] > 0 => e \in NoticeEvents /\ inbox[e] = Recipients(e)
    /\ \A e \in audited : e \in NoticeEvents => notice[e] > 0
    /\ \A r \in Relays, e \in Events : Current(r, e) =>
         /\ pc[r] \in {"audit", "mark"} /\ e \in NoticeEvents => notice[e] > 0
         /\ pc[r] = "mark" => e \in audited

\* The outbox implements what EventDelivery promises.
AbsState ==
    [e \in Events |->
        CASE row[e].status = "none" -> "absent"
          [] row[e].status \in {"pending", "leased"} -> "queued"
          [] OTHER -> row[e].status]
AbsDelivered == {e \in Events : notice[e] > 0}

Abs == INSTANCE EventDelivery WITH state <- AbsState, delivered <- AbsDelivered

DeliversEvents == Abs!Spec

\* Every event written is dispatched or given up, although a worker may die in
\* the middle of a batch: its leases time out and another tick takes them.
EventuallySettled ==
    \A e \in Events :
        row[e].status # "none" ~> row[e].status \in {"dispatched", "failed"}
=============================================================================
