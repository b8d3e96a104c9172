------------------------------ MODULE WriteOnce ------------------------------
(***************************************************************************)
(* What an idempotency key promises the clients of the API, without        *)
(* transactions, locks, isolation levels or crashes in the middle: per     *)
(* scope one request makes its change, in the step that records it as the  *)
(* outcome of the scope; every request is answered once; success is that   *)
(* outcome and is told only for the same content; a refusal is told only   *)
(* to a request that changed nothing; the deferred effects of a request    *)
(* run with its own success and never with a replay.                       *)
(***************************************************************************)
CONSTANTS
    Attempts,       \* requests, retries included
    Scope,          \* Scope[a]: actor, operation and key of request a
    RequestHash,    \* RequestHash[a]: the content of request a
    NoAttempt       \* not a request

Scopes == {Scope[a] : a \in Attempts}

VARIABLES
    outcome,        \* outcome[s]: the request recorded for s, or NoAttempt
    changed,        \* the requests whose change was made
    told,           \* told[a]: "none", a refusal, "lost" or the request whose response a got
    ran             \* the requests whose deferred effects ran

vars == <<outcome, changed, told, ran>>

Init ==
    /\ outcome = [s \in Scopes |-> NoAttempt]
    /\ changed = {}
    /\ told = [a \in Attempts |-> "none"]
    /\ ran = {}

-----------------------------------------------------------------------------
Answer(a, answer) == told[a] = "none" /\ told' = [told EXCEPT ![a] = answer]

\* The first request of a scope that succeeds.
Change(a) ==
    /\ told[a] = "none"
    /\ outcome[Scope[a]] = NoAttempt
    /\ outcome' = [outcome EXCEPT ![Scope[a]] = a]
    /\ changed' = changed \cup {a}
    /\ UNCHANGED <<told, ran>>

Succeed(a) ==
    /\ a \in changed
    /\ Answer(a, a)
    /\ ran' = ran \cup {a}
    /\ UNCHANGED <<outcome, changed>>

Replay(a) ==
    LET first == outcome[Scope[a]] IN
    /\ a \notin changed /\ first # NoAttempt
    /\ Answer(a, IF RequestHash[first] = RequestHash[a] THEN first ELSE "idempotency_key_reused")
    /\ UNCHANGED <<outcome, changed, ran>>

Refuse(a) ==
    /\ a \notin changed
    /\ Answer(a, "error") \/ Answer(a, "rejected")
    /\ UNCHANGED <<outcome, changed, ran>>

\* The client gets no answer, and does not know whether the change was made.
Lose(a) ==
    /\ Answer(a, "lost")
    /\ UNCHANGED <<outcome, changed, ran>>

Next == \E a \in Attempts : Change(a) \/ Succeed(a) \/ Replay(a) \/ Refuse(a) \/ Lose(a)

Spec == Init /\ [][Next]_vars
=============================================================================
