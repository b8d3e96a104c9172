----------------------------- MODULE Idempotency -----------------------------
(***************************************************************************)
(* Idempotent write requests: internal/core/idempotency (Execute, reserve, *)
(* replay, AfterCommit) under internal/api/httpapi (idempotent).           *)
(*                                                                         *)
(* An attempt is one HTTP request. It opens a transaction, looks for the   *)
(* record of its scope (actor, operation, key) with SELECT ... FOR UPDATE, *)
(* inserts a pending record when there is none, runs the business handler  *)
(* in the same transaction, completes the record, commits, and then runs   *)
(* the deferred callbacks. MySQL's locks decide who waits: a locking read  *)
(* that finds nothing takes a gap lock under REPEATABLE READ and nothing   *)
(* under READ COMMITTED, and the code sets no isolation level, so both are *)
(* possible.                                                               *)
(***************************************************************************)
EXTENDS FiniteSets

CONSTANTS
    Attempts,       \* HTTP requests, retries included
    Scope,          \* Scope[a]: actor, operation and key of attempt a
    RequestHash,    \* RequestHash[a]: canonical hash of path, query and body
    NoAttempt       \* not an attempt

\* What a client may be told besides the response of an attempt.
Answers == {"none", "idempotency_key_reused", "in_progress", "error", "rejected", "lost"}

ASSUME AttemptsAssumption == NoAttempt \notin Attempts /\ Attempts \cap Answers = {}

Scopes == {Scope[a] : a \in Attempts}

VARIABLES
    gapLocks,       \* the server takes gap locks (REPEATABLE READ)
    record,         \* record[s]: the row of idempotency_records for scope s
    gap,            \* gap[s]: attempts whose lookup locked the empty place of s
    pc,             \* pc[a]: where attempt a stands
    reply,          \* reply[a]: what the client of a was told
    committed,      \* attempts whose business change is committed
    ran             \* attempts whose deferred callbacks ran

vars == <<gapLocks, record, gap, pc, reply, committed, ran>>

\* No row; `by` is the attempt whose response the record holds.
NoRecord == [status |-> "none", by |-> NoAttempt, visible |-> FALSE]

PCs == {"idle", "lookup", "create", "relookup", "work", "commit", "after", "done"}

Init ==
    /\ gapLocks \in BOOLEAN
    /\ record = [s \in Scopes |-> NoRecord]
    /\ gap = [s \in Scopes |-> {}]
    /\ pc = [a \in Attempts |-> "idle"]
    /\ reply = [a \in Attempts |-> "none"]
    /\ committed = {}
    /\ ran = {}

-----------------------------------------------------------------------------
Goto(a, there) == pc' = [pc EXCEPT ![a] = there]

\* The attempt's transaction ends and its locks are gone.
Unlock(a) == gap' = [gap EXCEPT ![Scope[a]] = @ \ {a}]

Finish(a, answer) ==
    /\ Goto(a, "done")
    /\ Unlock(a)
    /\ reply' = [reply EXCEPT ![a] = answer]

\* Another transaction has inserted the row and not ended: readers that lock wait.
LockedByOther(a) ==
    LET r == record[Scope[a]] IN r.status # "none" /\ ~r.visible /\ r.by # a

\* replay: the answer drawn from a visible record.
replay(a) ==
    LET r == record[Scope[a]] IN
    IF RequestHash[r.by] # RequestHash[a] THEN "idempotency_key_reused"
    ELSE IF r.status # "completed" THEN "in_progress"
    ELSE r.by

Begin(a) ==
    /\ pc[a] = "idle"
    /\ Goto(a, "lookup")
    /\ UNCHANGED <<gapLocks, record, gap, reply, committed, ran>>

\* reserve: the locking read.
Lookup(a) ==
    /\ pc[a] = "lookup"
    /\ ~LockedByOther(a)
    /\ IF record[Scope[a]].status = "none"
       THEN /\ Goto(a, "create")
            /\ gap' = IF gapLocks THEN [gap EXCEPT ![Scope[a]] = @ \cup {a}] ELSE gap
            /\ UNCHANGED reply
       ELSE Finish(a, replay(a))
    /\ UNCHANGED <<gapLocks, record, committed, ran>>

\* Mutant: the table has no unique key on the scope.
CreateSecond(a) ==
    /\ pc[a] = "create"
    /\ record' = [record EXCEPT ![Scope[a]] = [status |-> "pending", by |-> a, visible |-> FALSE]]
    /\ Goto(a, "work")
    /\ UNCHANGED <<gapLocks, gap, reply, committed, ran>>

\* reserve: the insert goes through.
Create(a) ==
    /\ pc[a] = "create"
    /\ record[Scope[a]].status = "none"
    /\ gap[Scope[a]] \subseteq {a}
    /\ record' = [record EXCEPT ![Scope[a]] = [status |-> "pending", by |-> a, visible |-> FALSE]]
    /\ Goto(a, "work")
    /\ UNCHANGED <<gapLocks, gap, reply, committed, ran>>

\* Mutant: a failed insert is tried again and again in the same transaction.
CreateRetries(a) ==
    /\ pc[a] = "create"
    /\ \/ record[Scope[a]].status # "none"
       \/ ~(gap[Scope[a]] \subseteq {a})
    /\ Goto(a, "create")
    /\ UNCHANGED <<gapLocks, record, gap, reply, committed, ran>>

\* reserve: the insert fails, because the row is there (duplicate key), or because
\* it waits for another's row or gap and is the victim of a deadlock or a timeout.
CreateError(a) ==
    /\ pc[a] = "create"
    /\ \/ record[Scope[a]].status # "none"
       \/ ~(gap[Scope[a]] \subseteq {a})
    /\ Goto(a, "relookup")
    /\ Unlock(a)
    /\ UNCHANGED <<gapLocks, record, reply, committed, ran>>

\* reserve: the locking read after a failed insert.
Relookup(a) ==
    /\ pc[a] = "relookup"
    /\ ~LockedByOther(a)
    /\ Finish(a, IF record[Scope[a]].status = "none" THEN "error" ELSE replay(a))
    /\ UNCHANGED <<gapLocks, record, committed, ran>>

LockTimeout(a) ==
    /\ pc[a] \in {"lookup", "relookup"}
    /\ LockedByOther(a)
    /\ Finish(a, "error")
    /\ UNCHANGED <<gapLocks, record, committed, ran>>

\* The handler succeeds and the record is completed in the same transaction.
Work(a) ==
    /\ pc[a] = "work"
    /\ record' = [record EXCEPT ![Scope[a]] = [@ EXCEPT !.status = "completed"]]
    /\ Goto(a, "commit")
    /\ UNCHANGED <<gapLocks, gap, reply, committed, ran>>

Rollback(a) ==
    record' = IF pc[a] \in {"work", "commit"}
              THEN [record EXCEPT ![Scope[a]] = NoRecord] ELSE record

\* The handler answers with a status of 400 or more, or its response is too
\* large: everything is rolled back, the record too.
WorkFails(a) ==
    /\ pc[a] = "work"
    /\ Rollback(a)
    /\ Finish(a, "rejected")
    /\ UNCHANGED <<gapLocks, committed, ran>>

Commit(a) ==
    /\ pc[a] = "commit"
    /\ record' = [record EXCEPT ![Scope[a]] = [@ EXCEPT !.visible = TRUE]]
    /\ committed' = committed \cup {a}
    /\ Goto(a, "after")
    /\ Unlock(a)
    /\ UNCHANGED <<gapLocks, reply, ran>>

\* AfterCommit.Run and the response.
RunAfterCommit(a) ==
    /\ pc[a] = "after"
    /\ ran' = ran \cup {a}
    /\ Finish(a, a)
    /\ UNCHANGED <<gapLocks, record, committed>>

\* The process or the connection dies; an open transaction is rolled back.
Crash(a) ==
    /\ pc[a] \notin {"idle", "done"}
    /\ Rollback(a)
    /\ Finish(a, "lost")
    /\ UNCHANGED <<gapLocks, committed, ran>>

Step(a) ==
    \/ Lookup(a) \/ Create(a) \/ CreateError(a) \/ Relookup(a) \/ LockTimeout(a)
    \/ Work(a) \/ WorkFails(a) \/ Commit(a) \/ RunAfterCommit(a)

Next == \E a \in Attempts : Begin(a) \/ Step(a) \/ Crash(a)

Spec == Init /\ [][Next]_vars

\* A running handler goes on; MySQL resolves deadlocks and times out waits.
LiveSpec == Spec /\ \A a \in Attempts : WF_vars(Step(a))

-----------------------------------------------------------------------------
\* Types, with the answers a client can get.
TypeOK ==
    /\ gapLocks \in BOOLEAN
    /\ record \in [Scopes -> [status : {"none", "pending", "completed"},
                              by : Attempts \cup {NoAttempt}, visible : BOOLEAN]]
    /\ gap \in [Scopes -> SUBSET Attempts]
    /\ pc \in [Attempts -> PCs]
    /\ reply \in [Attempts -> Attempts \cup Answers]
    /\ committed \subseteq Attempts
    /\ ran \subseteq Attempts

\* The business change of one scope is committed at most once, whichever
\* attempts race, crash or are retried, at either isolation level.
AtMostOnce ==
    \A a, b \in committed : Scope[a] = Scope[b] => a = b

\* The attempt between its reservation and its commit owns the record of its
\* scope alone; a visible record is completed and belongs to a committed attempt.
OneOwner ==
    \A s \in Scopes :
        /\ \A a \in Attempts : Scope[a] = s /\ pc[a] \in {"work", "commit"} =>
             record[s].by = a /\ ~record[s].visible
        /\ record[s].status # "none" =>
             LET a == record[s].by IN
             /\ Scope[a] = s
             /\ record[s].visible <=> a \in committed
             /\ record[s].visible => record[s].status = "completed"
             /\ ~record[s].visible => pc[a] \in {"work", "commit"}
        /\ \A a \in committed : Scope[a] = s => record[s].by = a /\ record[s].visible

\* Whoever is told success, first or replayed, is told the outcome of the one
\* committed attempt with the same request content.
SuccessIsShared ==
    \A a \in Attempts : reply[a] \in Attempts =>
        LET b == reply[a] IN
        b \in committed /\ Scope[b] = Scope[a] /\ RequestHash[b] = RequestHash[a]

\* Because the reservation is never committed on its own, nobody meets it half
\* done: "idempotency_in_progress" is not an answer MySQL lets a client see.
NeverInProgress == \A a \in Attempts : reply[a] # "in_progress"

\* AfterCommit: "side effects that must run only after the owning database
\* transaction commits successfully".
CallbacksAfterCommit == ran \subseteq committed

\* What the table says of each scope to whoever reads it.
Recorded == [s \in Scopes |-> IF record[s].visible THEN record[s].by ELSE NoAttempt]

Once == INSTANCE WriteOnce WITH outcome <- Recorded, changed <- committed, told <- reply

\* Execute keeps the promise of an idempotency key, whichever attempts race, crash
\* or are retried and at either isolation level: the change and the record of it
\* appear in one step and once per scope, every attempt is answered once, from that
\* record, a refused attempt has changed nothing and only the attempt that made the
\* change runs its deferred callbacks.
KeepsItsPromise == Once!Spec

\* Every attempt ends, although racing attempts lock each other's gaps.
EveryAttemptEnds == \A a \in Attempts : pc[a] = "lookup" ~> pc[a] = "done"
=============================================================================
