------------------------------ MODULE PolicySync ------------------------------
(***************************************************************************)
(* How a change of the permission policy reaches every server process.     *)
(*                                                                         *)
(*   internal/core/permission/sync.go              outbox relay, reloads   *)
(*   internal/infrastructure/redisclient           Redis publish/subscribe *)
(*                                                                         *)
(* A transaction that changes roles or permissions adds a row to the       *)
(* policy outbox. The relay of any process claims the row, publishes its   *)
(* version over Redis and marks it dispatched. A process reloads its       *)
(* enforcer from the database after its own mutations, before it           *)
(* subscribes, for every notification, and every five seconds. Policies    *)
(* are numbered by the changes committed; an enforcer holds the number of  *)
(* the state it read. One update or one query is one step.                 *)
(*                                                                         *)
(* The relay computes the age from which a claim may be taken over when it *)
(* lists the rows; here a claim's age is looked at when it is taken over,  *)
(* which a relay that lists again may do as well.                          *)
(***************************************************************************)
EXTENDS Integers, FiniteSets

CONSTANTS
    Instances,      \* server processes
    Watched,        \* those whose enforcer is followed; of the others, which
                    \* share nothing else with it, the commits and the relay
    Nobody,         \* locked_by = ''
    Gone,           \* locked_by = an instance id of a process that has ended
    MaxVersion,     \* bound: policy changes
    MaxFaults       \* bound: restarts, failing or slow calls, lost connections

ASSUME BoundsAssumption == MaxVersion \in Nat /\ MaxFaults \in Nat
ASSUME WatchedAssumption == Watched \subseteq Instances
ASSUME NamesAssumption == Nobody \notin Instances /\ Gone \notin Instances

Versions == 1..MaxVersion

\* Who asks for a reload: the ticker, the subscription loop, a request's callback.
Sources == {"tick", "sub", "callback"}

VARIABLES
    version,    \* policy changes committed
    row,        \* row[v]: the outbox row of change v
    enforcer,   \* enforcer[i]: the policy that process i enforces
    want,       \* want[i]: goroutines that wait for reloadMu
    reading,    \* reading[i]: the reload under way, as <<source, policy read>>
    sub,        \* sub[i]: where the subscription loop stands
    mail,       \* processes with an unread notification
    relay,      \* relay[i]: rows listed, the row claimed, and the step
    published,  \* changes that were published
    faults      \* faults so far (bound)

reloadVars == <<enforcer, want, reading, sub, mail>>
policyVars == <<version, row, enforcer, want, reading, sub, mail, relay, published, faults>>

SubStates == {"down", "reload", "connect", "up", "consume"}
Resting == [pc |-> "idle", todo |-> {}, row |-> 0]
Subscribed == {i \in Watched : sub[i] \in {"up", "consume"}}

PolicyInit ==
    /\ version = 0
    /\ row = [v \in Versions |-> [status |-> "absent", by |-> Nobody, old |-> FALSE]]
    /\ enforcer = [i \in Watched |-> 0]
    /\ want = [i \in Watched |-> {}]
    /\ reading = [i \in Watched |-> {}]
    /\ sub = [i \in Watched |-> "down"]
    /\ mail = {}
    /\ relay = [i \in Instances |-> Resting]
    /\ published = {}
    /\ faults = 0

\* f with the value e for process i, if i is watched.
With(f, i, e) == [j \in Watched |-> IF j = i THEN e ELSE f[j]]

Fault == faults < MaxFaults /\ faults' = faults + 1

-----------------------------------------------------------------------------
\* A mutation on process i commits with its outbox row (recordPolicyChange) and
\* its callback is going to reload (reloadAfterMutation).
CommitChange(i) ==
    /\ version < MaxVersion
    /\ version' = version + 1
    /\ row' = [row EXCEPT ![version + 1] = [status |-> "pending", by |-> Nobody, old |-> FALSE]]
    /\ want' = [j \in Watched |-> IF j = i THEN want[j] \cup {"callback"} ELSE want[j]]
    /\ UNCHANGED <<enforcer, reading, sub, mail, relay, published, faults>>

\* Mutant: the tick does not reload.
NoTick(i) == UNCHANGED policyVars

\* The ticker's goroutine asks for its next reload when the last one has ended.
Tick(i) ==
    /\ "tick" \notin want[i] /\ \A r \in reading[i] : r[1] # "tick"
    /\ want' = [want EXCEPT ![i] = @ \cup {"tick"}]
    /\ UNCHANGED <<version, row, enforcer, reading, sub, mail, relay, published, faults>>

-----------------------------------------------------------------------------
(* reloadPolicy and its callers.                                           *)

\* Mutant: the reload does not take reloadMu.
BeginReloadUnlocked(i, s) ==
    /\ s \in want[i]
    /\ want' = [want EXCEPT ![i] = @ \ {s}]
    /\ reading' = [reading EXCEPT ![i] = @ \cup {<<s, version>>}]
    /\ UNCHANGED <<version, row, enforcer, sub, mail, relay, published, faults>>

\* reloadMu is taken and the policy is read ...
BeginReload(i, s) ==
    /\ s \in want[i]
    /\ reading[i] = {}
    /\ want' = [want EXCEPT ![i] = @ \ {s}]
    /\ reading' = [reading EXCEPT ![i] = {<<s, version>>}]
    /\ UNCHANGED <<version, row, enforcer, sub, mail, relay, published, faults>>

\* Mutant: the loop ends with the first error.
StopsAfterError(i, s, ok) ==
    IF s # "sub" THEN sub[i]
    ELSE IF ~ok THEN "stopped" ELSE IF sub[i] = "reload" THEN "connect" ELSE "up"

\* Where the subscription loop goes after its reload: an error before the
\* subscription is logged, one in the subscription ends it.
AfterReload(i, s, ok) ==
    IF s # "sub" THEN sub[i]
    ELSE IF sub[i] = "reload" THEN "connect" ELSE IF ok THEN "up" ELSE "down"

\* ... and becomes the one enforced; or the read fails.
EndReload(i, s, v) ==
    /\ <<s, v>> \in reading[i]
    /\ enforcer' = [enforcer EXCEPT ![i] = v]
    /\ reading' = [reading EXCEPT ![i] = @ \ {<<s, v>>}]
    /\ sub' = [sub EXCEPT ![i] = AfterReload(i, s, TRUE)]
    /\ UNCHANGED <<version, row, want, mail, relay, published, faults>>

ReloadFails(i, s, v) ==
    /\ Fault
    /\ <<s, v>> \in reading[i]
    /\ reading' = [reading EXCEPT ![i] = @ \ {<<s, v>>}]
    /\ sub' = [sub EXCEPT ![i] = AfterReload(i, s, FALSE)]
    /\ mail' = IF sub'[i] = "down" THEN mail \ {i} ELSE mail
    /\ UNCHANGED <<version, row, enforcer, want, relay, published>>

\* The loop reloads, subscribes, and reloads for every notification.
ReloadBeforeSubscribe(i) ==
    /\ sub[i] = "down"
    /\ sub' = [sub EXCEPT ![i] = "reload"]
    /\ want' = [want EXCEPT ![i] = @ \cup {"sub"}]
    /\ UNCHANGED <<version, row, enforcer, reading, mail, relay, published, faults>>

Subscribe(i) ==
    /\ sub[i] = "connect"
    /\ sub' = [sub EXCEPT ![i] = "up"]
    /\ UNCHANGED <<version, row, enforcer, want, reading, mail, relay, published, faults>>

Receive(i) ==
    /\ sub[i] = "up" /\ i \in mail
    /\ mail' = mail \ {i}
    /\ sub' = [sub EXCEPT ![i] = "consume"]
    /\ want' = [want EXCEPT ![i] = @ \cup {"sub"}]
    /\ UNCHANGED <<version, row, enforcer, reading, relay, published, faults>>

\* The subscription fails or breaks off; its notifications are lost.
Disconnect(i) ==
    /\ Fault
    /\ sub[i] \in {"connect", "up"}
    /\ sub' = [sub EXCEPT ![i] = "down"]
    /\ mail' = mail \ {i}
    /\ UNCHANGED <<version, row, enforcer, want, reading, relay, published>>

-----------------------------------------------------------------------------
(* relayPolicyChanges.                                                     *)

\* Mutant: the claim of a process that has ended is kept for ever.
ClaimableWhenFree(v) == row[v].status = "pending" /\ row[v].by = Nobody

Claimable(v) == row[v].status = "pending" /\ (row[v].by = Nobody \/ row[v].old)

List(i) ==
    LET rows == {v \in Versions : Claimable(v)} IN
    /\ relay[i] = Resting
    /\ rows # {}
    /\ relay' = [relay EXCEPT ![i].todo = rows]
    /\ UNCHANGED <<version, row, reloadVars, published, faults>>

\* The next row in the order of ids is claimed, or skipped if another has it.
Claim(i, v) ==
    /\ relay[i].pc = "idle"
    /\ v \in relay[i].todo /\ \A w \in relay[i].todo : v <= w
    /\ IF Claimable(v)
       THEN /\ row' = [row EXCEPT ![v] = [@ EXCEPT !.by = i, !.old = FALSE]]
            /\ relay' = [relay EXCEPT ![i] = [pc |-> "publish", todo |-> @.todo \ {v}, row |-> v]]
       ELSE /\ relay' = [relay EXCEPT ![i].todo = @ \ {v}]
            /\ UNCHANGED row
    /\ UNCHANGED <<version, reloadVars, published, faults>>

\* Redis hands the notification to whoever is subscribed now.
Publish(i) ==
    /\ relay[i].pc = "publish"
    /\ published' = published \cup {relay[i].row}
    /\ mail' = mail \cup Subscribed
    /\ relay' = [relay EXCEPT ![i].pc = "complete"]
    /\ UNCHANGED <<version, row, enforcer, want, reading, sub, faults>>

PublishFails(i) ==
    /\ Fault
    /\ relay[i].pc = "publish"
    /\ relay' = [relay EXCEPT ![i].pc = "release"]
    /\ UNCHANGED <<version, row, reloadVars, published>>

\* WHERE id = ? AND dispatched_at IS NULL AND locked_by = ?
Mine(i) == row[relay[i].row].status = "pending" /\ row[relay[i].row].by = i

Settled(i, status) ==
    row' = IF Mine(i)
           THEN [row EXCEPT ![relay[i].row] = [status |-> status, by |-> Nobody, old |-> FALSE]]
           ELSE row

Complete(i) ==
    /\ relay[i].pc = "complete"
    /\ Settled(i, "dispatched")
    /\ relay' = [relay EXCEPT ![i] = [pc |-> "idle", todo |-> @.todo, row |-> 0]]
    /\ UNCHANGED <<version, reloadVars, published, faults>>

\* The claim is given back, and the error ends the round.
Release(i) ==
    /\ relay[i].pc = "release"
    /\ Settled(i, "pending")
    /\ relay' = [relay EXCEPT ![i] = Resting]
    /\ UNCHANGED <<version, reloadVars, published, faults>>

\* A database error ends the round; a claim made stays until it is old.
RelayFails(i) ==
    /\ Fault
    /\ relay[i] # Resting
    /\ relay' = [relay EXCEPT ![i] = Resting]
    /\ UNCHANGED <<version, row, reloadVars, published>>

\* Time: a claim becomes older than policyClaimLease. That a relay is still at
\* work on the row then, having taken 30 seconds, counts as a fault.
WorkedOn(v) == \E i \in Instances : relay[i].row = v /\ row[v].by = i

ClaimAges(v) ==
    /\ row[v].by # Nobody /\ ~row[v].old
    /\ IF WorkedOn(v) THEN Fault ELSE UNCHANGED faults
    /\ row' = [row EXCEPT ![v].old = TRUE]
    /\ UNCHANGED <<version, reloadVars, relay, published>>

\* A process ends anywhere and starts again: it loads the policy first and has a
\* new instance id.
Restart(i) ==
    /\ Fault
    /\ row' = [v \in Versions |-> IF row[v].by = i THEN [row[v] EXCEPT !.by = Gone] ELSE row[v]]
    /\ enforcer' = With(enforcer, i, version)
    /\ want' = With(want, i, {})
    /\ reading' = With(reading, i, {})
    /\ sub' = With(sub, i, "down")
    /\ mail' = mail \ {i}
    /\ relay' = [relay EXCEPT ![i] = Resting]
    /\ UNCHANGED <<version, published>>

-----------------------------------------------------------------------------
ReloadStep(i) ==
    \E s \in Sources : \/ BeginReload(i, s)
                       \/ \E v \in 0..version : EndReload(i, s, v)

SubscriptionStep(i) == ReloadBeforeSubscribe(i) \/ Subscribe(i) \/ Receive(i)

RelayStep(i) ==
    \/ List(i)
    \/ \E v \in Versions : Claim(i, v)
    \/ Publish(i) \/ Complete(i) \/ Release(i)

ReloadFault(i) ==
    \/ \E s \in Sources, v \in 0..version : ReloadFails(i, s, v)
    \/ Disconnect(i)

RelayFault(i) == PublishFails(i) \/ RelayFails(i)

ProcessStep ==
    \/ \E i \in Instances : CommitChange(i) \/ RelayStep(i) \/ RelayFault(i) \/ Restart(i)
    \/ \E i \in Watched : Tick(i) \/ ReloadStep(i) \/ SubscriptionStep(i) \/ ReloadFault(i)

PolicyNext ==
    \/ ProcessStep
    \/ \E v \in Versions : ClaimAges(v)

PolicySpec == PolicyInit /\ [][PolicyNext]_policyVars

\* Progress: the loops of every process go on, and time passes.
PolicyLiveSpec ==
    /\ PolicySpec
    /\ \A i \in Instances : WF_policyVars(RelayStep(i))
    /\ \A i \in Watched : WF_policyVars(Tick(i)) /\ WF_policyVars(ReloadStep(i)) /\ WF_policyVars(SubscriptionStep(i))
    /\ \A v \in Versions : WF_policyVars(~WorkedOn(v) /\ ClaimAges(v))

-----------------------------------------------------------------------------
\* Types of the outbox, of the reloads and of the relays.
PolicyTypeOK ==
    /\ version \in 0..MaxVersion
    /\ row \in [Versions -> [status : {"absent", "pending", "dispatched"},
                             by : Instances \cup {Nobody, Gone}, old : BOOLEAN]]
    /\ enforcer \in [Watched -> 0..MaxVersion]
    /\ want \in [Watched -> SUBSET Sources]
    /\ reading \in [Watched -> SUBSET (Sources \X (0..MaxVersion))]
    /\ sub \in [Watched -> SubStates]
    /\ mail \subseteq Watched
    /\ relay \in [Instances -> [pc : {"idle", "publish", "complete", "release"},
                                todo : SUBSET Versions, row : 0..MaxVersion]]
    /\ published \subseteq Versions
    /\ faults \in Nat

\* reloadMu: reloads that callbacks, notifications, the ticker and restarts set
\* off concurrently never put an older policy over a newer one, so a right that
\* was taken away does not come back.
EnforcerNeverGoesBack == [][\A i \in Watched : enforcer'[i] >= enforcer[i]]_policyVars

\* "The durable row remains pending when publishing fails": a row is dispatched
\* only after its version was published, whoever claimed, lost, released or
\* completed it.
DispatchedWasPublished ==
    \A v \in Versions : row[v].status = "dispatched" => v \in published

\* A committed change is enforced by every process in the end, although
\* notifications get lost with connections, between a reload and the
\* subscription it precedes, and with restarts.
Converges ==
    \A i \in Watched, v \in Versions : version >= v ~> enforcer[i] >= v

\* Every change is dispatched in the end, also one claimed by a dead process.
EveryChangeDispatched ==
    \A v \in Versions : row[v].status = "pending" ~> row[v].status = "dispatched"
=============================================================================
