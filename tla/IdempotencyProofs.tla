-------------------------- MODULE IdempotencyProofs --------------------------
(* Proofs about Idempotency, for any set of attempts, scopes and hashes.   *)
EXTENDS Idempotency, TLAPS

\* The scope of an attempt is a scope.
LEMMA ScopeType == \A a \in Attempts : Scope[a] \in Scopes
BY DEF Scopes

\* What replay answers is the response of an attempt or one of the refusals.
LEMMA ReplayType ==
    ASSUME NEW a \in Attempts, TypeOK, record[Scope[a]].by \in Attempts
    PROVE  replay(a) \in Attempts \cup Answers
BY ScopeType DEF replay, TypeOK, Answers

\* A record exists only with an owner; the steps of its owner lead to the commit.
OwnerInv ==
    /\ OneOwner
    /\ \A s \in Scopes : record[s].status = "none" => record[s] = NoRecord
    /\ \A s \in Scopes : record[s].status # "none" => record[s].by \in Attempts
    /\ \A a \in Attempts :
         /\ pc[a] = "commit" => record[Scope[a]].status = "completed"
         /\ pc[a] = "after" => a \in committed
         /\ a \in committed => pc[a] \in {"after", "done"}

\* The answers given so far, and the callbacks run so far.
AnswerInv == SuccessIsShared /\ NeverInProgress /\ CallbacksAfterCommit

\* The conjunction that is inductive.
IInv == TypeOK /\ OwnerInv /\ AnswerInv

\* The initial states satisfy it.
LEMMA InitIInv == Init => IInv
<1> SUFFICES ASSUME Init PROVE IInv
  OBVIOUS
<1>1. TypeOK
  BY DEF Init, TypeOK, NoRecord, PCs, Answers
<1>2. OwnerInv
  BY AttemptsAssumption DEF Init, OwnerInv, OneOwner, NoRecord
<1>3. AnswerInv
  BY AttemptsAssumption DEF Init, AnswerInv, SuccessIsShared, NeverInProgress, CallbacksAfterCommit,
     Answers
<1> QED
  BY <1>1, <1>2, <1>3 DEF IInv

\* A locking read that does not wait meets no record of its own and no half-done
\* one: replay's answer is a committed attempt's, with the same content, or a refusal.
LEMMA ReplayIsShared ==
    ASSUME IInv, NEW a \in Attempts, pc[a] \in {"lookup", "relookup"}, ~LockedByOther(a),
           record[Scope[a]].status # "none"
    PROVE  \/ replay(a) = "idempotency_key_reused"
           \/ /\ replay(a) \in committed
              /\ Scope[replay(a)] = Scope[a] /\ RequestHash[replay(a)] = RequestHash[a]
<1> DEFINE r == record[Scope[a]]
<1>1. Scope[a] \in Scopes
  BY ScopeType
<1>2. r.visible
  BY <1>1 DEF IInv, OwnerInv, OneOwner, LockedByOther, TypeOK
<1>3. r.status = "completed" /\ r.by \in committed /\ Scope[r.by] = Scope[a]
  BY <1>1, <1>2 DEF IInv, OwnerInv, OneOwner
<1> QED
  BY <1>3 DEF replay

\* A step that changes no record, no commit and moves no attempt into or out of
\* the steps of an owner keeps the ownership of the records.
LEMMA OwnerFrame ==
    ASSUME IInv, NEW a \in Attempts, NEW there \in PCs,
           UNCHANGED <<record, committed>>,
           pc' = [pc EXCEPT ![a] = there],
           pc[a] \notin {"work", "commit"},
           there \notin {"work", "commit", "after"},
           a \in committed => there = "done"
    PROVE  OwnerInv'
<1>1. \A b \in Attempts : pc'[b] = IF b = a THEN there ELSE pc[b]
  BY DEF IInv, TypeOK
<1>2. OneOwner'
  BY <1>1 DEF IInv, OwnerInv, OneOwner
<1> QED
  BY <1>1, <1>2, ScopeType DEF IInv, OwnerInv

\* Ending with an answer that is no success keeps what was told to clients.
LEMMA AnswerFrame ==
    ASSUME IInv, NEW a \in Attempts, NEW answer \in Attempts \cup Answers,
           \/ answer \in Answers \ {"in_progress"}
           \/ /\ answer \in committed
              /\ Scope[answer] = Scope[a] /\ RequestHash[answer] = RequestHash[a],
           reply' = [reply EXCEPT ![a] = answer],
           committed \subseteq committed', ran' = ran
    PROVE  AnswerInv'
<1>1. \A b \in Attempts : reply'[b] = IF b = a THEN answer ELSE reply[b]
  BY DEF IInv, TypeOK
<1>2. SuccessIsShared'
  BY <1>1, AttemptsAssumption DEF IInv, AnswerInv, SuccessIsShared
<1>3. NeverInProgress'
  <2>1. answer # "in_progress"
    BY AttemptsAssumption DEF IInv, TypeOK, Answers
  <2> QED
    BY <1>1, <2>1 DEF IInv, AnswerInv, NeverInProgress
<1> QED
  BY <1>2, <1>3 DEF IInv, AnswerInv, CallbacksAfterCommit

\* A rollback of the attempt that owns the record leaves no trace of it.
LEMMA RollbackOwner ==
    ASSUME IInv, NEW a \in Attempts, Rollback(a), UNCHANGED committed,
           pc' = [pc EXCEPT ![a] = "done"],
           pc[a] \notin {"idle", "done"}
    PROVE  OwnerInv' /\ record' \in [Scopes -> [status : {"none", "pending", "completed"},
                              by : Attempts \cup {NoAttempt}, visible : BOOLEAN]]
<1>1. \A b \in Attempts : pc'[b] = IF b = a THEN "done" ELSE pc[b]
  BY DEF IInv, TypeOK
<1>2. CASE pc[a] \in {"work", "commit"}
  <2>0. Scope[a] \in Scopes /\ record[Scope[a]].by = a /\ ~record[Scope[a]].visible
    BY <1>2, ScopeType DEF IInv, OwnerInv, OneOwner
  <2>1. record' = [record EXCEPT ![Scope[a]] = NoRecord]
    BY <1>2 DEF Rollback
  <2>2. \A s \in Scopes : record'[s] = IF s = Scope[a] THEN NoRecord ELSE record[s]
    BY <2>1 DEF IInv, TypeOK
  <2>3. \A b \in Attempts : Scope[b] = Scope[a] /\ b # a =>
          pc[b] \notin {"work", "commit"} /\ b \notin committed
    BY <2>0 DEF IInv, OwnerInv, OneOwner
  <2>4. a \notin committed
    BY <1>2 DEF IInv, OwnerInv
  <2>5. committed \subseteq Attempts
    BY DEF IInv, TypeOK
  <2>6. OneOwner'
    <3> SUFFICES ASSUME NEW s \in Scopes
                 PROVE  /\ \A b \in Attempts : Scope[b] = s /\ pc'[b] \in {"work", "commit"} =>
                             record'[s].by = b /\ ~record'[s].visible
                        /\ record'[s].status # "none" =>
                             LET b == record'[s].by IN
                             /\ Scope[b] = s
                             /\ record'[s].visible <=> b \in committed
                             /\ record'[s].visible => record'[s].status = "completed"
                             /\ ~record'[s].visible => pc'[b] \in {"work", "commit"}
                        /\ \A b \in committed : Scope[b] = s => record'[s].by = b /\ record'[s].visible
      BY DEF OneOwner
    <3>1. CASE s = Scope[a]
      BY <1>1, <2>2, <2>3, <2>4, <2>5, <3>1 DEF NoRecord
    <3>2. CASE s # Scope[a]
      <4>1. record'[s] = record[s]
        BY <2>2, <3>2
      <4>2. record[s].status # "none" => record[s].by # a /\ record[s].by \in Attempts
        BY <3>2 DEF IInv, OwnerInv, OneOwner
      <4> QED
        BY <1>1, <4>1, <4>2, <3>2 DEF IInv, OwnerInv, OneOwner
    <3> QED
      BY <3>1, <3>2
  <2>7. OwnerInv'
    <3>1. \A s \in Scopes : /\ record'[s].status = "none" => record'[s] = NoRecord
                            /\ record'[s].status # "none" => record'[s].by \in Attempts
      <4>1. NoRecord.status = "none"
        BY DEF NoRecord
      <4> QED
        BY <2>2, <4>1 DEF IInv, OwnerInv
    <3>2. ASSUME NEW b \in Attempts
          PROVE  /\ pc'[b] = "commit" => record'[Scope[b]].status = "completed"
                 /\ pc'[b] = "after" => b \in committed
                 /\ b \in committed => pc'[b] \in {"after", "done"}
      <4>1. CASE b = a
        BY <1>1, <2>4, <4>1
      <4>2. CASE b # a
        <5>1. pc'[b] = pc[b]
          BY <1>1, <4>2
        <5>2. pc[b] = "commit" => record'[Scope[b]] = record[Scope[b]]
          BY <2>2, <2>3, <4>2, ScopeType
        <5> QED
          BY <5>1, <5>2 DEF IInv, OwnerInv
      <4> QED
        BY <4>1, <4>2
    <3> QED
      BY <2>6, <3>1, <3>2 DEF OwnerInv
  <2> QED
    BY <2>1, <2>7 DEF IInv, TypeOK, NoRecord
<1>3. CASE pc[a] \notin {"work", "commit"}
  <2>1. record' = record
    BY <1>3 DEF Rollback
  <2> QED
    BY <1>3, <2>1, OwnerFrame DEF IInv, TypeOK, PCs
<1> QED
  BY <1>2, <1>3

\* The owner's own steps: it alone writes the record of its scope.
LEMMA OwnerUpdate ==
    ASSUME IInv, NEW a \in Attempts, NEW there \in {"work", "commit", "after"},
           NEW x \in [status : {"pending", "completed"}, by : {a}, visible : BOOLEAN],
           record' = [record EXCEPT ![Scope[a]] = x],
           pc' = [pc EXCEPT ![a] = there],
           committed' = IF there = "after" THEN committed \cup {a} ELSE committed,
           x.visible <=> there = "after",
           there # "work" => x.status = "completed",
           a \notin committed,
           \A b \in Attempts \ {a} : Scope[b] = Scope[a] =>
               pc[b] \notin {"work", "commit"} /\ b \notin committed
    PROVE  OwnerInv'
<1>0. Scope[a] \in Scopes /\ committed \subseteq Attempts /\ x.by = a
  BY ScopeType DEF IInv, TypeOK
<1>1. \A b \in Attempts : pc'[b] = IF b = a THEN there ELSE pc[b]
  BY DEF IInv, TypeOK
<1>2. \A s \in Scopes : record'[s] = IF s = Scope[a] THEN x ELSE record[s]
  BY DEF IInv, TypeOK
<1>3. OneOwner'
  <2> SUFFICES ASSUME NEW s \in Scopes
               PROVE  /\ \A b \in Attempts : Scope[b] = s /\ pc'[b] \in {"work", "commit"} =>
                           record'[s].by = b /\ ~record'[s].visible
                      /\ record'[s].status # "none" =>
                           LET b == record'[s].by IN
                           /\ Scope[b] = s
                           /\ record'[s].visible <=> b \in committed'
                           /\ record'[s].visible => record'[s].status = "completed"
                           /\ ~record'[s].visible => pc'[b] \in {"work", "commit"}
                      /\ \A b \in committed' : Scope[b] = s => record'[s].by = b /\ record'[s].visible
    BY DEF OneOwner
  <2>1. CASE s = Scope[a]
    <3>1. record'[s] = x
      BY <1>2, <2>1
    <3> QED
      BY <1>0, <1>1, <2>1, <3>1
  <2>2. CASE s # Scope[a]
    <3>1. record'[s] = record[s]
      BY <1>2, <2>2
    <3>2. record[s].status # "none" => record[s].by # a /\ record[s].by \in Attempts
      BY <2>2 DEF IInv, OwnerInv, OneOwner
    <3> QED
      BY <1>0, <1>1, <2>2, <3>1, <3>2 DEF IInv, OwnerInv, OneOwner
  <2> QED
    BY <2>1, <2>2
<1>4. \A s \in Scopes : /\ record'[s].status = "none" => record'[s] = NoRecord
                        /\ record'[s].status # "none" => record'[s].by \in Attempts
  BY <1>0, <1>2 DEF IInv, OwnerInv
<1>5. ASSUME NEW b \in Attempts
      PROVE  /\ pc'[b] = "commit" => record'[Scope[b]].status = "completed"
             /\ pc'[b] = "after" => b \in committed'
             /\ b \in committed' => pc'[b] \in {"after", "done"}
  <2>1. CASE b = a
    BY <1>0, <1>1, <1>2, <2>1
  <2>2. CASE b # a
    <3>1. pc'[b] = pc[b] /\ (b \in committed' <=> b \in committed)
      BY <1>1, <2>2
    <3>2. pc[b] = "commit" => record'[Scope[b]] = record[Scope[b]]
      BY <1>2, <2>2, ScopeType
    <3> QED
      BY <3>1, <3>2 DEF IInv, OwnerInv
  <2> QED
    BY <2>1, <2>2
<1> QED
  BY <1>3, <1>4, <1>5 DEF OwnerInv

\* The owner is alone in its scope.
LEMMA OwnerAlone ==
    ASSUME IInv, NEW a \in Attempts,
           pc[a] \in {"work", "commit"} \/ (pc[a] = "create" /\ record[Scope[a]].status = "none")
    PROVE  /\ a \notin committed
           /\ \A b \in Attempts \ {a} : Scope[b] = Scope[a] =>
                pc[b] \notin {"work", "commit"} /\ b \notin committed
<1>0. Scope[a] \in Scopes
  BY ScopeType
<1>1. a \notin committed
  BY DEF IInv, OwnerInv
<1>2. CASE pc[a] \in {"work", "commit"}
  BY <1>0, <1>1, <1>2 DEF IInv, OwnerInv, OneOwner
<1>3. CASE record[Scope[a]].status = "none"
  <2>1. record[Scope[a]].by = NoAttempt /\ ~record[Scope[a]].visible
    BY <1>0, <1>3 DEF IInv, OwnerInv, NoRecord
  <2> QED
    BY <1>0, <1>1, <2>1, AttemptsAssumption DEF IInv, OwnerInv, OneOwner
<1> QED
  BY <1>1, <1>2, <1>3

\* No step of any attempt breaks the inductive invariant.
LEMMA IInvStep == IInv /\ [Next]_vars => IInv'
<1> SUFFICES ASSUME IInv, [Next]_vars PROVE IInv'
  OBVIOUS
<1> USE DEF PCs
<1>0. Attempts \cap Answers = {} /\ \A a \in Attempts : Scope[a] \in Scopes
  BY ScopeType, AttemptsAssumption
<1>1. ASSUME NEW a \in Attempts, Begin(a) PROVE IInv'
  <2>1. TypeOK'
    BY <1>1 DEF IInv, TypeOK, Begin, Goto
  <2>2. OwnerInv'
    <3>1. a \notin committed
      BY <1>1 DEF IInv, OwnerInv, Begin
    <3> QED
      BY <1>1, <3>1, OwnerFrame DEF Begin, Goto
  <2>3. AnswerInv'
    BY <1>1 DEF Begin, IInv, AnswerInv, SuccessIsShared, NeverInProgress, CallbacksAfterCommit
  <2> QED
    BY <2>1, <2>2, <2>3 DEF IInv
<1>2. ASSUME NEW a \in Attempts, NEW answer \in Attempts \cup Answers,
             pc[a] \in {"lookup", "relookup"}, Finish(a, answer),
             UNCHANGED <<gapLocks, record, committed, ran>>,
             \/ answer \in Answers \ {"in_progress"}
             \/ /\ answer \in committed
                /\ Scope[answer] = Scope[a] /\ RequestHash[answer] = RequestHash[a]
      PROVE  IInv'
  <2>1. TypeOK'
    BY <1>0, <1>2 DEF IInv, TypeOK, Finish, Goto, Unlock
  <2>2. OwnerInv'
    BY <1>2, OwnerFrame DEF Finish, Goto
  <2>3. AnswerInv'
    BY <1>2, AnswerFrame DEF Finish
  <2> QED
    BY <2>1, <2>2, <2>3 DEF IInv
<1>3. ASSUME NEW a \in Attempts, Lookup(a) PROVE IInv'
  <2>1. CASE record[Scope[a]].status = "none"
    <3>1. TypeOK'
      BY <1>0, <1>3, <2>1 DEF IInv, TypeOK, Lookup, Goto
    <3>2. OwnerInv'
      <4>1. a \notin committed
        BY <1>3 DEF IInv, OwnerInv, Lookup
      <4> QED
        BY <1>3, <2>1, <4>1, OwnerFrame DEF Lookup, Goto
    <3>3. AnswerInv'
      BY <1>3, <2>1 DEF Lookup, IInv, AnswerInv, SuccessIsShared, NeverInProgress,
         CallbacksAfterCommit
    <3> QED
      BY <3>1, <3>2, <3>3 DEF IInv
  <2>2. CASE record[Scope[a]].status # "none"
    <3>1. replay(a) \in Attempts \cup Answers
      BY <1>0, <2>2, ReplayType DEF IInv, OwnerInv
    <3>2. Finish(a, replay(a)) /\ UNCHANGED <<gapLocks, record, committed, ran>>
      BY <1>3, <2>2 DEF Lookup
    <3>3. \/ replay(a) \in Answers \ {"in_progress"}
          \/ /\ replay(a) \in committed
             /\ Scope[replay(a)] = Scope[a] /\ RequestHash[replay(a)] = RequestHash[a]
      BY <1>3, <2>2, ReplayIsShared DEF Lookup, Answers
    <3>4. pc[a] \in {"lookup", "relookup"}
      BY <1>3 DEF Lookup
    <3> QED
      BY <1>2, <3>1, <3>2, <3>3, <3>4
  <2> QED
    BY <2>1, <2>2
<1>4. ASSUME NEW a \in Attempts, Relookup(a) PROVE IInv'
  <2>1. CASE record[Scope[a]].status = "none"
    <3>1. Finish(a, "error") /\ UNCHANGED <<gapLocks, record, committed, ran>>
      BY <1>4, <2>1 DEF Relookup
    <3> QED
      BY <1>2, <1>4, <3>1 DEF Relookup, Answers
  <2>2. CASE record[Scope[a]].status # "none"
    <3>1. replay(a) \in Attempts \cup Answers
      BY <1>0, <2>2, ReplayType DEF IInv, OwnerInv
    <3>2. Finish(a, replay(a)) /\ UNCHANGED <<gapLocks, record, committed, ran>>
      BY <1>4, <2>2 DEF Relookup
    <3>3. \/ replay(a) \in Answers \ {"in_progress"}
          \/ /\ replay(a) \in committed
             /\ Scope[replay(a)] = Scope[a] /\ RequestHash[replay(a)] = RequestHash[a]
      BY <1>4, <2>2, ReplayIsShared DEF Relookup, Answers
    <3>4. pc[a] \in {"lookup", "relookup"}
      BY <1>4 DEF Relookup
    <3> QED
      BY <1>2, <3>1, <3>2, <3>3, <3>4
  <2> QED
    BY <2>1, <2>2
<1>5. ASSUME NEW a \in Attempts, LockTimeout(a) PROVE IInv'
  <2>1. Finish(a, "error") /\ UNCHANGED <<gapLocks, record, committed, ran>>
    BY <1>5 DEF LockTimeout
  <2> QED
    BY <1>2, <1>5, <2>1 DEF LockTimeout, Answers
<1>6. ASSUME NEW a \in Attempts, CreateError(a) PROVE IInv'
  <2>1. TypeOK'
    BY <1>0, <1>6 DEF IInv, TypeOK, CreateError, Goto, Unlock
  <2>2. OwnerInv'
    <3>1. a \notin committed
      BY <1>6 DEF IInv, OwnerInv, CreateError
    <3> QED
      BY <1>6, <3>1, OwnerFrame DEF CreateError, Goto
  <2>3. AnswerInv'
    BY <1>6 DEF CreateError, IInv, AnswerInv, SuccessIsShared, NeverInProgress,
       CallbacksAfterCommit
  <2> QED
    BY <2>1, <2>2, <2>3 DEF IInv
<1>7. ASSUME NEW a \in Attempts, Create(a) PROVE IInv'
  <2> DEFINE x == [status |-> "pending", by |-> a, visible |-> FALSE]
  <2>1. TypeOK'
    BY <1>0, <1>7 DEF IInv, TypeOK, Create, Goto
  <2>2. OwnerInv'
    BY <1>7, OwnerAlone, OwnerUpdate DEF Create, Goto
  <2>3. AnswerInv'
    BY <1>7 DEF Create, IInv, AnswerInv, SuccessIsShared, NeverInProgress, CallbacksAfterCommit
  <2> QED
    BY <2>1, <2>2, <2>3 DEF IInv
<1>8. ASSUME NEW a \in Attempts, Work(a) PROVE IInv'
  <2> DEFINE x == [record[Scope[a]] EXCEPT !.status = "completed"]
  <2>1. record' = [record EXCEPT ![Scope[a]] = x]
    BY <1>8 DEF Work
  <2>2. /\ record[Scope[a]] \in [status : {"none", "pending", "completed"},
                                 by : Attempts \cup {NoAttempt}, visible : BOOLEAN]
        /\ record[Scope[a]].by = a /\ ~record[Scope[a]].visible
    BY <1>0, <1>8 DEF IInv, TypeOK, OwnerInv, OneOwner, Work
  <2>3. /\ x \in [status : {"pending", "completed"}, by : {a}, visible : BOOLEAN]
        /\ ~x.visible /\ x.status = "completed"
    BY <2>2
  <2> HIDE DEF x
  <2>4. TypeOK'
    <3>1. record' \in [Scopes -> [status : {"none", "pending", "completed"},
                                  by : Attempts \cup {NoAttempt}, visible : BOOLEAN]]
      BY <2>1, <2>3 DEF IInv, TypeOK
    <3> QED
      BY <1>8, <3>1 DEF IInv, TypeOK, Work, Goto
  <2>5. OwnerInv'
    <3>1. pc' = [pc EXCEPT ![a] = "commit"] /\ committed' = committed
      BY <1>8 DEF Work, Goto
    <3>2. /\ a \notin committed
          /\ \A b \in Attempts \ {a} : Scope[b] = Scope[a] =>
               pc[b] \notin {"work", "commit"} /\ b \notin committed
      BY <1>8, OwnerAlone DEF Work
    <3> QED
      BY <2>1, <2>3, <3>1, <3>2, OwnerUpdate
  <2>6. AnswerInv'
    BY <1>8 DEF Work, IInv, AnswerInv, SuccessIsShared, NeverInProgress, CallbacksAfterCommit
  <2> QED
    BY <2>4, <2>5, <2>6 DEF IInv
<1>9. ASSUME NEW a \in Attempts, Commit(a) PROVE IInv'
  <2> DEFINE x == [record[Scope[a]] EXCEPT !.visible = TRUE]
  <2>1. record' = [record EXCEPT ![Scope[a]] = x]
    BY <1>9 DEF Commit
  <2>2. /\ record[Scope[a]] \in [status : {"none", "pending", "completed"},
                                 by : Attempts \cup {NoAttempt}, visible : BOOLEAN]
        /\ record[Scope[a]].by = a /\ record[Scope[a]].status = "completed"
    BY <1>0, <1>9 DEF IInv, TypeOK, OwnerInv, OneOwner, Commit
  <2>3. /\ x \in [status : {"pending", "completed"}, by : {a}, visible : BOOLEAN]
        /\ x.visible /\ x.status = "completed"
    BY <2>2
  <2> HIDE DEF x
  <2>4. TypeOK'
    <3>1. record' \in [Scopes -> [status : {"none", "pending", "completed"},
                                  by : Attempts \cup {NoAttempt}, visible : BOOLEAN]]
      BY <2>1, <2>3 DEF IInv, TypeOK
    <3> QED
      BY <1>9, <3>1 DEF IInv, TypeOK, Commit, Goto, Unlock
  <2>5. OwnerInv'
    <3>1. pc' = [pc EXCEPT ![a] = "after"] /\ committed' = committed \cup {a}
      BY <1>9 DEF Commit, Goto
    <3>2. /\ a \notin committed
          /\ \A b \in Attempts \ {a} : Scope[b] = Scope[a] =>
               pc[b] \notin {"work", "commit"} /\ b \notin committed
      BY <1>9, OwnerAlone DEF Commit
    <3> QED
      BY <2>1, <2>3, <3>1, <3>2, OwnerUpdate
  <2>6. AnswerInv'
    BY <1>9 DEF Commit, IInv, AnswerInv, SuccessIsShared, NeverInProgress, CallbacksAfterCommit
  <2> QED
    BY <2>4, <2>5, <2>6 DEF IInv
<1>10. ASSUME NEW a \in Attempts, WorkFails(a) \/ Crash(a) PROVE IInv'
  <2>1. PICK answer \in {"rejected", "lost"} :
          /\ Rollback(a) /\ Finish(a, answer)
          /\ pc[a] \notin {"idle", "done"}
          /\ UNCHANGED <<gapLocks, committed, ran>>
    BY <1>10 DEF WorkFails, Crash
  <2>2. answer \in Answers \ {"in_progress"}
    BY <2>1 DEF Answers
  <2>3. /\ OwnerInv'
        /\ record' \in [Scopes -> [status : {"none", "pending", "completed"},
                                   by : Attempts \cup {NoAttempt}, visible : BOOLEAN]]
    BY <2>1, RollbackOwner DEF Finish, Goto
  <2>4. TypeOK'
    BY <2>1, <2>2, <2>3 DEF IInv, TypeOK, Finish, Goto, Unlock
  <2>5. AnswerInv'
    BY <2>1, <2>2, AnswerFrame DEF Finish
  <2> QED
    BY <2>3, <2>4, <2>5 DEF IInv
<1>11. ASSUME NEW a \in Attempts, RunAfterCommit(a) PROVE IInv'
  <2>1. a \in committed
    BY <1>11 DEF RunAfterCommit, IInv, OwnerInv
  <2>2. TypeOK'
    BY <1>11 DEF RunAfterCommit, IInv, TypeOK, Finish, Goto, Unlock
  <2>3. OwnerInv'
    BY <1>11, OwnerFrame DEF RunAfterCommit, Finish, Goto
  <2>4. SuccessIsShared' /\ NeverInProgress'
    <3>1. \A b \in Attempts : reply'[b] = IF b = a THEN a ELSE reply[b]
      BY <1>11 DEF RunAfterCommit, Finish, IInv, TypeOK
    <3>2. a # "in_progress"
      BY <1>0 DEF Answers
    <3>3. committed' = committed
      BY <1>11 DEF RunAfterCommit
    <3> QED
      BY <2>1, <3>1, <3>2, <3>3 DEF IInv, AnswerInv, SuccessIsShared, NeverInProgress
  <2>5. CallbacksAfterCommit'
    BY <1>11, <2>1 DEF RunAfterCommit, IInv, AnswerInv, CallbacksAfterCommit
  <2> QED
    BY <2>2, <2>3, <2>4, <2>5 DEF IInv, AnswerInv
<1>12. CASE UNCHANGED vars
  BY <1>12 DEF vars, IInv, TypeOK, OwnerInv, OneOwner, AnswerInv, SuccessIsShared,
     NeverInProgress, CallbacksAfterCommit
<1> QED
  BY <1>1, <1>3, <1>4, <1>5, <1>6, <1>7, <1>8, <1>9, <1>10, <1>11, <1>12 DEF Next, Step

\* The inductive invariant holds in every reachable state.
LEMMA IInvAlways == Spec => []IInv
BY InitIInv, IInvStep, PTL DEF Spec

\* The records, the locks on them and the local variables of the attempts have their
\* types, whatever crashes and times out.
THEOREM TypeCorrect == Spec => []TypeOK
<1>1. IInv => TypeOK
  BY DEF IInv
<1> QED
  BY <1>1, IInvAlways, PTL

\* The business change of a scope is committed at most once, at either isolation
\* level and whichever attempts race, crash or are retried.
THEOREM CommittedAtMostOnce == Spec => []AtMostOnce
<1>1. IInv => AtMostOnce
  BY ScopeType DEF IInv, TypeOK, OwnerInv, OneOwner, AtMostOnce
<1> QED
  BY <1>1, IInvAlways, PTL

\* Every success a client is told of is the committed one, for the same content.
THEOREM SuccessShared == Spec => []SuccessIsShared
<1>1. IInv => SuccessIsShared
  BY DEF IInv, AnswerInv
<1> QED
  BY <1>1, IInvAlways, PTL

\* No client ever meets a reservation whose request is still in progress.
THEOREM NobodyInProgress == Spec => []NeverInProgress
<1>1. IInv => NeverInProgress
  BY DEF IInv, AnswerInv
<1> QED
  BY <1>1, IInvAlways, PTL

\* Deferred side effects run only for transactions that committed.
THEOREM CallbacksOnlyAfterCommit == Spec => []CallbacksAfterCommit
<1>1. IInv => CallbacksAfterCommit
  BY DEF IInv, AnswerInv
<1> QED
  BY <1>1, IInvAlways, PTL

-----------------------------------------------------------------------------
\* An attempt that has not ended has told its client nothing: it may still answer.
AnsweredWhenDone == \A a \in Attempts : pc[a] # "done" => reply[a] = "none"

\* The answer of an attempt is written in the step that ends it.
LEMMA AnsweredStep == TypeOK /\ AnsweredWhenDone /\ [Next]_vars => AnsweredWhenDone'
<1> SUFFICES ASSUME TypeOK, AnsweredWhenDone, [Next]_vars PROVE AnsweredWhenDone'
  OBVIOUS
<1>1. ASSUME NEW a \in Attempts, NEW answer, Finish(a, answer) PROVE AnsweredWhenDone'
  BY <1>1 DEF AnsweredWhenDone, TypeOK, Finish, Goto
<1>2. ASSUME NEW a \in Attempts, NEW there \in PCs, pc[a] # "done", Goto(a, there), reply' = reply
      PROVE  AnsweredWhenDone'
  BY <1>2 DEF AnsweredWhenDone, TypeOK, Goto
<1>3. ASSUME NEW a \in Attempts, Begin(a) PROVE AnsweredWhenDone'
  BY <1>2, <1>3 DEF Begin, PCs
<1>4. ASSUME NEW a \in Attempts, Lookup(a) PROVE AnsweredWhenDone'
  <2>1. CASE record[Scope[a]].status = "none"
    BY <1>2, <1>4, <2>1 DEF Lookup, PCs
  <2>2. CASE record[Scope[a]].status # "none"
    BY <1>1, <1>4, <2>2 DEF Lookup
  <2> QED
    BY <2>1, <2>2
<1>5. ASSUME NEW a \in Attempts, Create(a) PROVE AnsweredWhenDone'
  BY <1>2, <1>5 DEF Create, PCs
<1>6. ASSUME NEW a \in Attempts, CreateError(a) PROVE AnsweredWhenDone'
  BY <1>2, <1>6 DEF CreateError, PCs
<1>7. ASSUME NEW a \in Attempts, Work(a) PROVE AnsweredWhenDone'
  BY <1>2, <1>7 DEF Work, PCs
<1>8. ASSUME NEW a \in Attempts, Commit(a) PROVE AnsweredWhenDone'
  BY <1>2, <1>8 DEF Commit, PCs
<1>9. ASSUME NEW a \in Attempts,
             Relookup(a) \/ LockTimeout(a) \/ WorkFails(a) \/ RunAfterCommit(a) \/ Crash(a)
      PROVE  AnsweredWhenDone'
  <2>1. PICK answer : Finish(a, answer)
    BY <1>9 DEF Relookup, LockTimeout, WorkFails, RunAfterCommit, Crash
  <2> QED
    BY <1>1, <2>1
<1>10. CASE UNCHANGED vars
  BY <1>10 DEF vars, AnsweredWhenDone
<1> QED
  BY <1>3, <1>4, <1>5, <1>6, <1>7, <1>8, <1>9, <1>10 DEF Next, Step

\* What readers see of a scope is the committed attempt of that scope, or nothing.
LEMMA RecordedIs ==
    ASSUME IInv, NEW s \in Scopes
    PROVE  /\ Recorded[s] = IF record[s].visible THEN record[s].by ELSE NoAttempt
           /\ record[s].visible => record[s].by \in committed /\ record[s].status = "completed"
<1>1. record[s].visible => record[s].status # "none"
  BY DEF IInv, OwnerInv, NoRecord
<1> QED
  BY <1>1 DEF Recorded, IInv, OwnerInv, OneOwner

\* A row nobody else can see comes and goes without a reader noticing.
LEMMA RecordedFrame ==
    ASSUME \A s \in Scopes : record'[s] = record[s] \/ (~record[s].visible /\ ~record'[s].visible)
    PROVE  Recorded' = Recorded
BY DEF Recorded

\* The attempt that owns the record of its scope has not shown it yet.
LEMMA OwnRecordHidden ==
    ASSUME IInv, NEW a \in Attempts,
           pc[a] \in {"work", "commit"} \/ (pc[a] = "create" /\ record[Scope[a]].status = "none")
    PROVE  ~record[Scope[a]].visible
BY ScopeType DEF IInv, OwnerInv, OneOwner, NoRecord

\* A rollback takes away only a row that nobody else could see.
LEMMA RollbackHidden ==
    ASSUME IInv, NEW a \in Attempts, Rollback(a)
    PROVE  Recorded' = Recorded
<1>1. CASE pc[a] \in {"work", "commit"}
  <2>1. ~record[Scope[a]].visible
    BY <1>1, OwnRecordHidden
  <2>2. record' = [record EXCEPT ![Scope[a]] = NoRecord] /\ record \in [Scopes -> [status : {"none", "pending", "completed"},
                              by : Attempts \cup {NoAttempt}, visible : BOOLEAN]]
    BY <1>1 DEF Rollback, IInv, TypeOK
  <2>3. \A s \in Scopes : record'[s] = IF s = Scope[a] THEN NoRecord ELSE record[s]
    BY <2>2
  <2> QED
    BY <2>1, <2>3, RecordedFrame DEF NoRecord
<1>2. CASE pc[a] \notin {"work", "commit"}
  BY <1>2, RecordedFrame DEF Rollback
<1> QED
  BY <1>1, <1>2

\* Every step of an attempt is a step of WriteOnce or a stutter.
LEMMA OnceStep == IInv /\ AnsweredWhenDone /\ [Next]_vars => [Once!Next]_(Once!vars)
<1> SUFFICES ASSUME IInv, AnsweredWhenDone, [Next]_vars
             PROVE  Once!Next \/ UNCHANGED <<Recorded, committed, reply, ran>>
  BY DEF Once!vars
<1>0. record' = record => Recorded' = Recorded
  BY RecordedFrame
<1>1. ASSUME NEW a \in Attempts, Begin(a) \/ CreateError(a)
      PROVE  UNCHANGED <<Recorded, committed, reply, ran>>
  BY <1>0, <1>1 DEF Begin, CreateError
<1>2. ASSUME NEW a \in Attempts, Create(a) \/ Work(a)
      PROVE  UNCHANGED <<Recorded, committed, reply, ran>>
  <2>1. ~record[Scope[a]].visible
    BY <1>2, OwnRecordHidden DEF Create, Work
  <2>2. PICK x \in {[status |-> "pending", by |-> a, visible |-> FALSE],
                    [record[Scope[a]] EXCEPT !.status = "completed"]} :
          record' = [record EXCEPT ![Scope[a]] = x]
    BY <1>2 DEF Create, Work
  <2>3. /\ Scope[a] \in Scopes
        /\ record \in [Scopes -> [status : {"none", "pending", "completed"},
                                  by : Attempts \cup {NoAttempt}, visible : BOOLEAN]]
    BY ScopeType DEF IInv, TypeOK
  <2>4. ~x.visible
    BY <2>1, <2>2, <2>3
  <2>5. \A s \in Scopes : record'[s] = IF s = Scope[a] THEN x ELSE record[s]
    BY <2>2, <2>3
  <2> QED
    BY <1>2, <2>1, <2>4, <2>5, RecordedFrame DEF Create, Work
<1>3. ASSUME NEW a \in Attempts, Commit(a) PROVE Once!Next
  <2>1. /\ Scope[a] \in Scopes
        /\ record \in [Scopes -> [status : {"none", "pending", "completed"},
                                  by : Attempts \cup {NoAttempt}, visible : BOOLEAN]]
    BY ScopeType DEF IInv, TypeOK
  <2>2. record[Scope[a]].by = a /\ ~record[Scope[a]].visible
    BY <1>3, <2>1 DEF Commit, IInv, OwnerInv, OneOwner
  <2>3. record' = [record EXCEPT ![Scope[a]] = [record[Scope[a]] EXCEPT !.visible = TRUE]]
    BY <1>3 DEF Commit
  <2>4. /\ record'[Scope[a]].by = a /\ record'[Scope[a]].visible
        /\ \A s \in Scopes \ {Scope[a]} : record'[s] = record[s]
    BY <2>1, <2>2, <2>3
  <2>5. Recorded' = [Recorded EXCEPT ![Scope[a]] = a]
    BY <2>4 DEF Recorded
  <2>6. Recorded[Scope[a]] = NoAttempt
    BY <2>1, <2>2, RecordedIs
  <2>7. reply[a] = "none"
    BY <1>3 DEF Commit, AnsweredWhenDone
  <2>8. Once!Change(a)
    BY <1>3, <2>5, <2>6, <2>7 DEF Once!Change, Commit
  <2> QED
    BY <2>8 DEF Once!Next
<1>4. ASSUME NEW a \in Attempts, RunAfterCommit(a) PROVE Once!Next
  <2>1. a \in committed /\ reply[a] = "none"
    BY <1>4 DEF RunAfterCommit, IInv, OwnerInv, AnsweredWhenDone
  <2>2. Once!Succeed(a)
    BY <1>0, <1>4, <2>1 DEF Once!Succeed, Once!Answer, RunAfterCommit, Finish
  <2> QED
    BY <2>2 DEF Once!Next
<1>5. ASSUME NEW a \in Attempts, pc[a] \in {"lookup", "relookup"}, ~LockedByOther(a),
             record[Scope[a]].status # "none", Finish(a, replay(a)),
             UNCHANGED <<record, committed, ran>>
      PROVE  Once!Next
  <2>1. Scope[a] \in Scopes /\ a \notin committed /\ reply[a] = "none"
    BY <1>5, ScopeType DEF IInv, OwnerInv, AnsweredWhenDone
  <2>2. record[Scope[a]].visible
    BY <1>5, <2>1 DEF IInv, TypeOK, OwnerInv, OneOwner, LockedByOther
  <2>3. /\ Recorded[Scope[a]] = record[Scope[a]].by
        /\ record[Scope[a]].by \in committed /\ record[Scope[a]].status = "completed"
    BY <2>1, <2>2, RecordedIs
  <2>4. Recorded[Scope[a]] # NoAttempt
    BY <2>3, AttemptsAssumption DEF IInv, TypeOK
  <2>5. replay(a) = IF RequestHash[Recorded[Scope[a]]] = RequestHash[a]
                    THEN Recorded[Scope[a]] ELSE "idempotency_key_reused"
    BY <2>3 DEF replay
  <2>6. reply' = [reply EXCEPT ![a] = replay(a)]
    BY <1>5 DEF Finish
  <2>7. Once!Replay(a)
    BY <1>0, <1>5, <2>1, <2>4, <2>5, <2>6 DEF Once!Replay, Once!Answer
  <2> QED
    BY <2>7 DEF Once!Next
<1>6. ASSUME NEW a \in Attempts, NEW answer \in {"error", "rejected"}, a \notin committed,
             pc[a] # "done", Finish(a, answer), Recorded' = Recorded, UNCHANGED <<committed, ran>>
      PROVE  Once!Next
  <2>1. reply[a] = "none"
    BY <1>6 DEF AnsweredWhenDone
  <2>2. Once!Refuse(a)
    BY <1>6, <2>1 DEF Once!Refuse, Once!Answer, Finish
  <2> QED
    BY <2>2 DEF Once!Next
<1>7. ASSUME NEW a \in Attempts, Lookup(a)
      PROVE  Once!Next \/ UNCHANGED <<Recorded, committed, reply, ran>>
  <2>1. CASE record[Scope[a]].status = "none"
    BY <1>0, <1>7, <2>1 DEF Lookup
  <2>2. CASE record[Scope[a]].status # "none"
    BY <1>5, <1>7, <2>2 DEF Lookup
  <2> QED
    BY <2>1, <2>2
<1>8. ASSUME NEW a \in Attempts, Relookup(a) PROVE Once!Next
  <2>1. CASE record[Scope[a]].status = "none"
    <3>1. a \notin committed
      BY <1>8 DEF Relookup, IInv, OwnerInv
    <3>2. Finish(a, "error")
      BY <1>8, <2>1 DEF Relookup
    <3> QED
      BY <1>0, <1>6, <1>8, <3>1, <3>2 DEF Relookup
  <2>2. CASE record[Scope[a]].status # "none"
    BY <1>5, <1>8, <2>2 DEF Relookup
  <2> QED
    BY <2>1, <2>2
<1>9. ASSUME NEW a \in Attempts, LockTimeout(a) PROVE Once!Next
  <2>1. a \notin committed
    BY <1>9 DEF LockTimeout, IInv, OwnerInv
  <2> QED
    BY <1>0, <1>6, <1>9, <2>1 DEF LockTimeout
<1>10. ASSUME NEW a \in Attempts, WorkFails(a) PROVE Once!Next
  <2>1. a \notin committed
    BY <1>10 DEF WorkFails, IInv, OwnerInv
  <2>2. Recorded' = Recorded
    BY <1>10, RollbackHidden DEF WorkFails
  <2> QED
    BY <1>6, <1>10, <2>1, <2>2 DEF WorkFails
<1>11. ASSUME NEW a \in Attempts, Crash(a) PROVE Once!Next
  <2>1. Recorded' = Recorded
    BY <1>11, RollbackHidden DEF Crash
  <2>2. reply[a] = "none"
    BY <1>11 DEF Crash, AnsweredWhenDone
  <2>3. Once!Lose(a)
    BY <1>11, <2>1, <2>2 DEF Once!Lose, Once!Answer, Crash, Finish
  <2> QED
    BY <2>3 DEF Once!Next
<1>12. CASE UNCHANGED vars
  BY <1>0, <1>12 DEF vars
<1> QED
  BY <1>1, <1>2, <1>3, <1>4, <1>7, <1>8, <1>9, <1>10, <1>11, <1>12 DEF Next, Step

\* Execute, with its reservation, its locking reads, its rollbacks and its callbacks,
\* implements WriteOnce: one change per scope, made in the step that records it, and
\* every answer drawn from that record.
THEOREM KeepsPromise == Spec => KeepsItsPromise
<1>1. Init => Once!Init
  <2> SUFFICES ASSUME Init PROVE Once!Init
    OBVIOUS
  <2>1. Recorded = [s \in Scopes |-> NoAttempt]
    BY DEF Init, Recorded, NoRecord
  <2> QED
    BY <2>1 DEF Init, Once!Init, Once!Scopes, Scopes
<1>2. Init => AnsweredWhenDone
  BY DEF Init, AnsweredWhenDone
<1>3. IInv => TypeOK
  BY DEF IInv
<1> QED
  BY <1>1, <1>2, <1>3, IInvAlways, AnsweredStep, OnceStep, PTL
  DEF Spec, KeepsItsPromise, Once!Spec
=============================================================================
