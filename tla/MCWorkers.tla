------------------------------- MODULE MCWorkers -------------------------------
(* Small instances, for TLC, of the components with a worker, a retry or a    *)
(* reload that must get somewhere. They share no table: a behaviour chooses   *)
(* one of them and the others stay as they began.                             *)
EXTENDS Idempotency, PolicySync, Carpool, AcademicVerification

CONSTANTS a1, a2, a3, a4

\* a1, a2 and a3 use one key, a3 for another request; a4 uses a key of its own.
MCScope == [a \in Attempts |-> IF a = a4 THEN "s2" ELSE "s1"]
MCRequestHash == [a \in Attempts |-> IF a = a3 THEN "h2" ELSE "h1"]

VARIABLE focus   \* the component this behaviour is about

Components == {"idempotency", "policy", "carpool", "academic"}

workersVars == <<focus, vars, policyVars, carpoolVars, academicVars>>

WorkersInit ==
    /\ focus \in Components
    /\ Init /\ (focus # "idempotency" => gapLocks)
    /\ PolicyInit /\ CarpoolInit /\ AcademicInit

\* The variables of a component that is not looked at do not change.
Still(component, its) == IF focus = component THEN TRUE ELSE UNCHANGED its

WorkersNext ==
    /\ UNCHANGED focus
    /\ \/ focus = "idempotency" /\ Next
       \/ focus = "policy" /\ PolicyNext
       \/ focus = "carpool" /\ CarpoolNext
       \/ focus = "academic" /\ AcademicNext
    /\ Still("idempotency", vars) /\ Still("policy", policyVars)
    /\ Still("carpool", carpoolVars) /\ Still("academic", academicVars)

\* A running handler goes on; MySQL resolves deadlocks and times out waits.
HandlersGoOn == \A a \in Attempts : WF_vars(focus = "idempotency" /\ Step(a))

\* The loops of every process go on, and the claims of dead relays age.
PolicyLoopsGoOn ==
    /\ \A i \in Instances : WF_policyVars(focus = "policy" /\ RelayStep(i))
    /\ \A i \in Watched : /\ WF_policyVars(focus = "policy" /\ Tick(i))
                          /\ WF_policyVars(focus = "policy" /\ ReloadStep(i))
                          /\ WF_policyVars(focus = "policy" /\ SubscriptionStep(i))
    /\ \A v \in Versions : WF_policyVars(focus = "policy" /\ ~WorkedOn(v) /\ ClaimAges(v))

\* The worker's minute ticker runs CompleteDue, which goes through its batch.
DueTripsAreTaken ==
    /\ WF_carpoolVars(focus = "carpool" /\ SelectDue)
    /\ WF_carpoolVars(focus = "carpool" /\ CompleteTrip)

\* The worker's ticker runs CleanupExpired, and materials and claims grow old.
CleanupGoesOn ==
    /\ \A w \in Cleaners : WF_academicVars(focus = "academic" /\ Clean(w))
    /\ \A m \in MaterialIds : WF_academicVars(focus = "academic" /\ m \in DOMAIN material /\ TimePasses(m))

WorkersSpec ==
    /\ WorkersInit /\ [][WorkersNext]_workersVars
    /\ HandlersGoOn /\ PolicyLoopsGoOn /\ DueTripsAreTaken /\ CleanupGoesOn

\* The rows, caches, files and local variables of the four components have their types.
WorkersTypeOK ==
    /\ focus \in Components
    /\ TypeOK /\ PolicyTypeOK /\ CarpoolTypeOK /\ AcademicTypeOK
=============================================================================
