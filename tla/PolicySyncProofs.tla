--------------------------- MODULE PolicySyncProofs ---------------------------
(***************************************************************************)
(* Proofs about PolicySync, for any number of processes, of changes and of *)
(* faults. The inductive invariant IInv says of the relays that one which  *)
(* is about to complete a row has published it, and of the reloads that    *)
(* there is at most one per process, which read a policy not older than    *)
(* the one enforced.                                                       *)
(***************************************************************************)
EXTENDS PolicySync, TLAPS

\* A relay past its claim holds a row, and completes only what it published.
RelayInv ==
    \A i \in Instances :
        /\ relay[i].pc # "idle" => relay[i].row \in Versions
        /\ relay[i].pc = "complete" => relay[i].row \in published

\* reloadMu: one reload at a time, and what it read is not older than what is
\* enforced.
ReloadInv ==
    \A i \in Watched :
        /\ enforcer[i] <= version
        /\ \A r \in reading[i] : enforcer[i] <= r[2] /\ r[2] <= version
        /\ \A r, q \in reading[i] : r = q

IInv == PolicyTypeOK /\ RelayInv /\ ReloadInv /\ DispatchedWasPublished

USE BoundsAssumption, WatchedAssumption, NamesAssumption

-----------------------------------------------------------------------------
(* Initial states.                                                         *)

\* The initial states satisfy the inductive invariant.
LEMMA InitIInv == PolicyInit => IInv
BY DEF PolicyInit, IInv, PolicyTypeOK, RelayInv, ReloadInv, DispatchedWasPublished, Versions, Sources,
       SubStates, Resting

-----------------------------------------------------------------------------
(* The relays' steps leave the reloads alone, and the other way round.     *)

\* Steps that change neither enforcer nor reading, and no version, keep ReloadInv.
LEMMA ReloadInvStable ==
    ReloadInv /\ UNCHANGED <<version, enforcer, reading>> => ReloadInv'
BY DEF ReloadInv

\* Steps that change no row and no relay keep what is said of them.
LEMMA RelayInvStable ==
    RelayInv /\ DispatchedWasPublished /\ UNCHANGED <<row, relay, published>>
        => RelayInv' /\ DispatchedWasPublished'
BY DEF RelayInv, DispatchedWasPublished

\* Where the subscription loop goes is a state of the loop.
LEMMA AfterReloadType ==
    ASSUME PolicyTypeOK, NEW i \in Watched, NEW s, NEW ok \in BOOLEAN
    PROVE  AfterReload(i, s, ok) \in SubStates
BY DEF PolicyTypeOK, AfterReload, SubStates

\* The sets of outbox rows and of relay states.
Row == [status : {"absent", "pending", "dispatched"}, by : Instances \cup {Nobody, Gone},
        old : BOOLEAN]
Relay == [pc : {"idle", "publish", "complete", "release"}, todo : SUBSET Versions,
          row : 0..MaxVersion]

Reads == Sources \X (0..MaxVersion)

\* The types of rows, relays and reloads, by name.
LEMMA StateTypes ==
    PolicyTypeOK => /\ row \in [Versions -> Row] /\ relay \in [Instances -> Relay]
              /\ reading \in [Watched -> SUBSET Reads]
BY DEF PolicyTypeOK, Row, Relay, Reads

\* Changing the owner or the age of a row leaves a row with the same status.
LEMMA RowUpdates ==
    ASSUME NEW r \in Row, NEW b \in Instances \cup {Nobody, Gone}, NEW o \in BOOLEAN
    PROVE  /\ [r EXCEPT !.by = b] \in Row /\ [r EXCEPT !.by = b].status = r.status
           /\ [r EXCEPT !.old = o] \in Row /\ [r EXCEPT !.old = o].status = r.status
           /\ [r EXCEPT !.by = b, !.old = o] \in Row
           /\ [r EXCEPT !.by = b, !.old = o].status = r.status
BY DEF Row

\* A relay that skips, claims or completes a row is a relay.
LEMMA RelayUpdates ==
    ASSUME NEW r \in Relay, NEW v \in Versions
    PROVE  /\ [pc |-> "idle", todo |-> r.todo, row |-> 0] \in Relay
           /\ [r EXCEPT !.todo = @ \ {v}] \in Relay
           /\ [pc |-> "publish", todo |-> r.todo \ {v}, row |-> v] \in Relay
BY DEF Relay, Versions

-----------------------------------------------------------------------------
(* A mutation, and a restart, which touch both halves.                     *)

\* A mutation preserves the inductive invariant.
LEMMA CommitIInv ==
    ASSUME IInv, NEW i \in Instances, CommitChange(i)
    PROVE  IInv'
<1>1. PolicyTypeOK'
    BY DEF IInv, PolicyTypeOK, CommitChange, Versions, Sources
<1>2. RelayInv'
    BY DEF IInv, RelayInv, CommitChange
<1>3. ReloadInv'
    BY SMTT(30) DEF IInv, PolicyTypeOK, ReloadInv, CommitChange, Sources
<1>4. DispatchedWasPublished'
    BY DEF IInv, PolicyTypeOK, DispatchedWasPublished, CommitChange, Versions
<1> QED
    BY <1>1, <1>2, <1>3, <1>4 DEF IInv

\* So does a restart, which loads the policy of now.
LEMMA RestartIInv ==
    ASSUME IInv, NEW i \in Instances, Restart(i)
    PROVE  IInv'
<1>1. PolicyTypeOK'
    <2>1. row' \in [Versions -> Row]
        BY StateTypes, RowUpdates DEF IInv, Restart
    <2>2. relay' \in [Instances -> Relay]
        BY DEF IInv, PolicyTypeOK, Restart, Resting, Relay, Versions
    <2>3. /\ enforcer' \in [Watched -> 0..MaxVersion]
          /\ want' \in [Watched -> SUBSET Sources]
          /\ sub' \in [Watched -> SubStates]
        BY DEF IInv, PolicyTypeOK, Restart, With, SubStates
    <2>4. reading' \in [Watched -> SUBSET (Sources \X (0..MaxVersion))]
        BY DEF IInv, PolicyTypeOK, Restart, With
    <2>5. version' \in 0..MaxVersion /\ mail' \subseteq Watched /\ published' \subseteq Versions
          /\ faults' \in Nat
        BY DEF IInv, PolicyTypeOK, Restart, Fault
    <2> QED
        BY <2>1, <2>2, <2>3, <2>4, <2>5 DEF PolicyTypeOK, Row, Relay
<1>2. RelayInv'
    BY DEF IInv, PolicyTypeOK, RelayInv, Restart, Resting
<1>3. ReloadInv'
    BY DEF IInv, PolicyTypeOK, ReloadInv, Restart, With
<1>4. DispatchedWasPublished'
    BY DEF IInv, PolicyTypeOK, DispatchedWasPublished, Restart
<1> QED
    BY <1>1, <1>2, <1>3, <1>4 DEF IInv

-----------------------------------------------------------------------------
(* The reloads and the subscription loop.                                  *)

\* So do the steps of the ticker, of reloadPolicy and of the subscription loop.
LEMMA ReloadsIInv ==
    ASSUME IInv, NEW i \in Watched,
           Tick(i) \/ ReloadStep(i) \/ SubscriptionStep(i) \/ ReloadFault(i)
    PROVE  IInv'
<1>1. CASE Tick(i)
    <2>1. PolicyTypeOK'
        BY <1>1 DEF IInv, PolicyTypeOK, Tick, Sources
    <2> QED
        BY <1>1, <2>1, RelayInvStable, ReloadInvStable DEF IInv, Tick
<1>2. ASSUME NEW s \in Sources, BeginReload(i, s)
      PROVE  IInv'
    <2>1. PolicyTypeOK'
        BY <1>2 DEF IInv, PolicyTypeOK, BeginReload
    <2>2. ReloadInv'
        BY <1>2 DEF IInv, PolicyTypeOK, ReloadInv, BeginReload
    <2> QED
        BY <1>2, <2>1, <2>2, RelayInvStable DEF IInv, BeginReload
<1>3. ASSUME NEW s \in Sources, NEW v \in 0..version, EndReload(i, s, v)
      PROVE  IInv'
    <2>1. PolicyTypeOK'
        <3>1. AfterReload(i, s, TRUE) \in SubStates
            BY AfterReloadType DEF IInv
        <3>2. reading' \in [Watched -> SUBSET Reads]
            BY <1>3, StateTypes DEF IInv, EndReload
        <3>3. enforcer' \in [Watched -> 0..MaxVersion]
            BY <1>3 DEF IInv, PolicyTypeOK, EndReload
        <3> QED
            BY <1>3, <3>1, <3>2, <3>3 DEF IInv, PolicyTypeOK, EndReload, Reads
    <2>2. ReloadInv'
        BY <1>3 DEF IInv, PolicyTypeOK, ReloadInv, EndReload
    <2> QED
        BY <1>3, <2>1, <2>2, RelayInvStable DEF IInv, EndReload
<1>4. ASSUME NEW s \in Sources, NEW v \in 0..version, ReloadFails(i, s, v)
      PROVE  IInv'
    <2>1. PolicyTypeOK'
        <3>1. AfterReload(i, s, FALSE) \in SubStates
            BY AfterReloadType DEF IInv
        <3>2. reading' \in [Watched -> SUBSET Reads]
            BY <1>4, StateTypes DEF IInv, ReloadFails
        <3>3. sub' \in [Watched -> SubStates] /\ mail' \subseteq Watched
            BY <1>4, <3>1 DEF IInv, PolicyTypeOK, ReloadFails
        <3>4. faults' \in Nat
            BY <1>4 DEF IInv, PolicyTypeOK, ReloadFails, Fault
        <3> QED
            BY <1>4, <3>2, <3>3, <3>4 DEF IInv, PolicyTypeOK, ReloadFails, Reads
    <2>2. ReloadInv'
        BY <1>4 DEF IInv, PolicyTypeOK, ReloadInv, ReloadFails
    <2> QED
        BY <1>4, <2>1, <2>2, RelayInvStable DEF IInv, ReloadFails
<1>5. CASE SubscriptionStep(i)
    <2>1. PolicyTypeOK'
        <3>1. CASE ReloadBeforeSubscribe(i)
            BY <3>1 DEF IInv, PolicyTypeOK, ReloadBeforeSubscribe, Sources, SubStates
        <3>2. CASE Subscribe(i)
            BY <3>2 DEF IInv, PolicyTypeOK, Subscribe, SubStates
        <3>3. CASE Receive(i)
            BY <3>3 DEF IInv, PolicyTypeOK, Receive, Sources, SubStates
        <3> QED
            BY <1>5, <3>1, <3>2, <3>3 DEF SubscriptionStep
    <2> QED
        BY <1>5, <2>1, RelayInvStable, ReloadInvStable
        DEF IInv, SubscriptionStep, ReloadBeforeSubscribe, Subscribe, Receive
<1>6. CASE Disconnect(i)
    <2>1. PolicyTypeOK'
        BY <1>6 DEF IInv, PolicyTypeOK, Disconnect, Fault, SubStates
    <2> QED
        BY <1>6, <2>1, RelayInvStable, ReloadInvStable DEF IInv, Disconnect
<1> QED
    BY <1>1, <1>2, <1>3, <1>4, <1>5, <1>6 DEF ReloadStep, ReloadFault

-----------------------------------------------------------------------------
(* The relays.                                                             *)

\* So do the steps of relayPolicyChanges and its failures.
LEMMA RelaysIInv ==
    ASSUME IInv, NEW i \in Instances, RelayStep(i) \/ RelayFault(i)
    PROVE  IInv'
<1>1. CASE List(i)
    <2>1. PolicyTypeOK'
        BY <1>1 DEF IInv, PolicyTypeOK, List, reloadVars, Versions, Resting
    <2>2. RelayInv'
        BY <1>1 DEF IInv, PolicyTypeOK, RelayInv, List, Resting
    <2> QED
        BY <1>1, <2>1, <2>2, ReloadInvStable DEF IInv, List, reloadVars, DispatchedWasPublished
<1>2. ASSUME NEW v \in Versions, Claim(i, v)
      PROVE  IInv'
    <2> DEFINE claimed == [row[v] EXCEPT !.by = i, !.old = FALSE]
    <2>0. claimed \in Row /\ claimed.status = row[v].status
        BY StateTypes, RowUpdates DEF IInv
    <2>a. row' = row \/ row' = [row EXCEPT ![v] = claimed]
        BY <1>2 DEF Claim
    <2> HIDE DEF claimed
    <2>1. PolicyTypeOK'
        <3>1. row' \in [Versions -> Row]
            BY <2>0, <2>a, StateTypes DEF IInv
        <3>2. /\ [pc |-> "publish", todo |-> relay[i].todo \ {v}, row |-> v] \in Relay
              /\ [relay[i] EXCEPT !.todo = @ \ {v}] \in Relay
            BY StateTypes, RelayUpdates DEF IInv
        <3>3. relay' \in [Instances -> Relay]
            BY <1>2, <3>2, StateTypes DEF IInv, Claim
        <3> QED
            BY <1>2, <3>1, <3>3 DEF IInv, PolicyTypeOK, Claim, reloadVars, Row, Relay
    <2>2. RelayInv'
        BY <1>2 DEF IInv, PolicyTypeOK, RelayInv, Claim
    <2>3. DispatchedWasPublished'
        <3>1. \A w \in Versions : row'[w].status = row[w].status
            BY <2>0, <2>a, StateTypes DEF IInv
        <3> QED
            BY <1>2, <3>1 DEF IInv, DispatchedWasPublished, Claim
    <2> QED
        BY <1>2, <2>1, <2>2, <2>3, ReloadInvStable DEF IInv, Claim, reloadVars
<1>3. CASE Publish(i)
    <2>1. PolicyTypeOK'
        BY <1>3 DEF IInv, PolicyTypeOK, RelayInv, Publish, Subscribed
    <2>2. RelayInv'
        BY <1>3 DEF IInv, PolicyTypeOK, RelayInv, Publish
    <2>3. DispatchedWasPublished'
        BY <1>3 DEF IInv, DispatchedWasPublished, Publish
    <2> QED
        BY <1>3, <2>1, <2>2, <2>3, ReloadInvStable DEF IInv, Publish
<1>4. CASE Complete(i)
    <2>1. PolicyTypeOK'
        <3>1. row' \in [Versions -> Row]
            BY <1>4 DEF IInv, PolicyTypeOK, RelayInv, Complete, Settled, Row
        <3>2. [pc |-> "idle", todo |-> relay[i].todo, row |-> 0] \in Relay
            BY <1>4, StateTypes, RelayUpdates DEF IInv, RelayInv, Complete
        <3>3. relay' \in [Instances -> Relay]
            BY <1>4, <3>2, StateTypes DEF IInv, Complete
        <3> QED
            BY <1>4, <3>1, <3>3 DEF IInv, PolicyTypeOK, Complete, reloadVars, Row, Relay
    <2>2. RelayInv'
        BY <1>4 DEF IInv, PolicyTypeOK, RelayInv, Complete, reloadVars
    <2>3. DispatchedWasPublished'
        BY <1>4 DEF IInv, PolicyTypeOK, RelayInv, DispatchedWasPublished, Complete, Settled
    <2> QED
        BY <1>4, <2>1, <2>2, <2>3, ReloadInvStable DEF IInv, Complete, reloadVars
<1>5. CASE Release(i)
    <2>1. PolicyTypeOK'
        BY <1>5 DEF IInv, PolicyTypeOK, RelayInv, Release, Settled, Resting, reloadVars
    <2>2. RelayInv'
        BY <1>5 DEF IInv, PolicyTypeOK, RelayInv, Release, Resting, reloadVars
    <2>3. DispatchedWasPublished'
        BY <1>5 DEF IInv, PolicyTypeOK, RelayInv, DispatchedWasPublished, Release, Settled
    <2> QED
        BY <1>5, <2>1, <2>2, <2>3, ReloadInvStable DEF IInv, Release, reloadVars
<1>6. CASE PublishFails(i)
    <2>1. PolicyTypeOK'
        BY <1>6 DEF IInv, PolicyTypeOK, PublishFails, Fault, reloadVars
    <2>2. RelayInv'
        BY <1>6 DEF IInv, PolicyTypeOK, RelayInv, PublishFails
    <2> QED
        BY <1>6, <2>1, <2>2, ReloadInvStable
        DEF IInv, PublishFails, reloadVars, DispatchedWasPublished
<1>7. CASE RelayFails(i)
    <2>1. PolicyTypeOK'
        BY <1>7 DEF IInv, PolicyTypeOK, RelayFails, Fault, reloadVars, Resting
    <2>2. RelayInv'
        BY <1>7 DEF IInv, PolicyTypeOK, RelayInv, RelayFails, Resting
    <2> QED
        BY <1>7, <2>1, <2>2, ReloadInvStable
        DEF IInv, RelayFails, reloadVars, DispatchedWasPublished
<1> QED
    BY <1>1, <1>2, <1>3, <1>4, <1>5, <1>6, <1>7 DEF RelayStep, RelayFault

\* So does time.
LEMMA ClaimAgesIInv ==
    ASSUME IInv, NEW v \in Versions, ClaimAges(v)
    PROVE  IInv'
<1>1. PolicyTypeOK'
    <2>1. row' \in [Versions -> Row]
        BY StateTypes, RowUpdates DEF IInv, ClaimAges
    <2>2. faults' \in Nat
        BY DEF IInv, PolicyTypeOK, ClaimAges, Fault
    <2> QED
        BY <2>1, <2>2 DEF IInv, PolicyTypeOK, ClaimAges, reloadVars, Row
<1>2. RelayInv'
    BY DEF IInv, RelayInv, ClaimAges
<1>3. DispatchedWasPublished'
    BY DEF IInv, PolicyTypeOK, DispatchedWasPublished, ClaimAges
<1> QED
    BY <1>1, <1>2, <1>3, ReloadInvStable DEF IInv, ClaimAges, reloadVars

-----------------------------------------------------------------------------
\* So does every step.
LEMMA NextIInv == IInv /\ [PolicyNext]_policyVars => IInv'
<1> SUFFICES ASSUME IInv, [PolicyNext]_policyVars PROVE IInv'
    OBVIOUS
<1>1. CASE UNCHANGED policyVars
    BY <1>1 DEF IInv, PolicyTypeOK, RelayInv, ReloadInv, DispatchedWasPublished, policyVars
<1>2. CASE PolicyNext
    BY <1>2, CommitIInv, RestartIInv, ReloadsIInv, RelaysIInv, ClaimAgesIInv DEF PolicyNext, ProcessStep
<1> QED
    BY <1>1, <1>2

\* The inductive invariant holds in every reachable state.
THEOREM Inductive == PolicySpec => []IInv
BY InitIInv, NextIInv, PTL DEF PolicySpec

\* The outbox rows, the reloads, the subscription loops and the relays keep
\* their types.
THEOREM TypeCorrect == PolicySpec => []PolicyTypeOK
BY Inductive, PTL DEF IInv

\* relayPolicyChanges marks a row dispatched only after publishing its version,
\* however many relays claim it, lose it to another or are restarted.
THEOREM RowsArePublished == PolicySpec => []DispatchedWasPublished
BY Inductive, PTL DEF IInv

\* No step puts an older policy into an enforcer: only the end of a reload and a
\* restart store one, and reloadMu keeps a reload from overtaking another.
LEMMA StepNeverGoesBack ==
    IInv /\ [PolicyNext]_policyVars => [\A i \in Watched : enforcer'[i] >= enforcer[i]]_policyVars
<1> SUFFICES ASSUME IInv, PolicyNext, NEW j \in Watched PROVE enforcer'[j] >= enforcer[j]
    OBVIOUS
<1>0. enforcer[j] \in Int /\ version \in Int
    BY DEF IInv, PolicyTypeOK
<1>1. ASSUME NEW i \in Watched, NEW s \in Sources, NEW v \in 0..version, EndReload(i, s, v)
      PROVE  enforcer'[j] >= enforcer[j]
    BY <1>0, <1>1 DEF IInv, PolicyTypeOK, ReloadInv, EndReload
<1>2. ASSUME NEW i \in Instances, Restart(i)
      PROVE  enforcer'[j] >= enforcer[j]
    BY <1>0, <1>2 DEF IInv, PolicyTypeOK, ReloadInv, Restart, With
<1>3. CASE UNCHANGED enforcer
    BY <1>0, <1>3
<1> QED
    BY <1>1, <1>2, <1>3
    DEF PolicyNext, ProcessStep, CommitChange, RelayStep, RelayFault, Tick, ReloadStep, SubscriptionStep,
        ReloadFault, BeginReload, ReloadFails, ReloadBeforeSubscribe, Subscribe, Receive,
        Disconnect, List, Claim, Publish, PublishFails, Complete, Release, RelayFails, ClaimAges,
        reloadVars

\* reloadPolicy under reloadMu: concurrent reloads, notifications and restarts
\* never bring an older policy back.
THEOREM PolicyOnlyAdvances == PolicySpec => EnforcerNeverGoesBack
BY Inductive, StepNeverGoesBack, PTL DEF PolicySpec, EnforcerNeverGoesBack
=============================================================================
