------------------------ MODULE AcademicVerification ------------------------
(***************************************************************************)
(* Student identity checks: internal/modules/academic_verification, the    *)
(* encrypted material files, and the cleanup task of cmd/worker.           *)
(*                                                                         *)
(* A decision is one transaction that locks the rows it decides about, and *)
(* is one step here: its commit. A request has its id from its insert, so  *)
(* that transactions which overlap commit in any order of their ids.       *)
(* An upload writes a file and then a row; a cleanup claims rows in one    *)
(* transaction, and then, for each, deletes the file and completes the row *)
(* in statements of their own, so it can stop anywhere in between. Clocks  *)
(* are abstracted to what the code compares them with: an upload token     *)
(* expires, a retention runs out, a claim goes stale.                      *)
(***************************************************************************)
EXTENDS Naturals, FiniteSets, FiniteSetsExt

CONSTANTS
    Students,            \* accounts
    StudentNos,          \* student numbers
    MaterialIds,         \* uploads: row ids and, with them, storage keys
    RequestIds,          \* row ids of academic_verification_requests
    Cleaners,            \* worker processes that run the cleanup task
    CleanupBatch,        \* rows one cleanup claims (100 in the code)
    MaxIdentityVersion,  \* bound: versions of an identity
    MaxCleanupFaults     \* bound: crashes of workers and failed deletions

ASSUME AcademicAssumption ==
    /\ MaterialIds \subseteq Nat \ {0} /\ RequestIds \subseteq Nat \ {0}
    /\ IsFiniteSet(MaterialIds) /\ IsFiniteSet(RequestIds)
    /\ CleanupBatch \in Nat \ {0} /\ {MaxIdentityVersion, MaxCleanupFaults} \subseteq Nat

\* A row of academic_verification_materials; request 0 is unbound. `expired`: the
\* upload token's 24 hours are over; `retention`: delete_after is unset, ahead or
\* past; `stale`: the cleanup claim is older than its lease.
MaterialRows == [user : Students, status : {"available", "bound", "deleting", "deleted"},
                 request : {0} \cup RequestIds, expired : BOOLEAN,
                 retention : {"none", "running", "over"}, stale : BOOLEAN]

RequestRows == [user : Students, no : StudentNos, method : {"student_card", "credentials"},
                material : {0} \cup MaterialIds,
                status : {"pending", "approved", "rejected", "superseded", "revoked"}]

IdentityRows == [no : StudentNos, method : {"student_card", "credentials"},
                 status : {"verified", "revoked"}, version : Nat]

VARIABLES
    material,      \* the rows, a function on the ids inserted
    files,         \* storage keys of the files that exist
    uploading,     \* uploads whose file is saved and whose row is not yet inserted
    verification,  \* the requests, a function on the ids inserted
    identity,      \* the identities, a function on the users who have one
    members,       \* users whose base role is member
    cleaner,       \* cleaner[w]: the rows the cleanup of w has still to do, and its step
    cleanupFaults  \* faults so far

materialVars == <<material, files, uploading, cleaner, cleanupFaults>>
academicVars == <<materialVars, verification, identity, members>>

NoCleanup == [batch |-> {}, step |-> "idle"]
Cleanups == [batch : SUBSET MaterialIds, step : {"idle", "delete", "complete", "release"}]

AcademicInit ==
    /\ material = [m \in {} |-> [status |-> "available"]]
    /\ files = {}
    /\ uploading = {}
    /\ verification = [r \in {} |-> [status |-> "pending"]]
    /\ identity = [u \in {} |-> [status |-> "verified"]]
    /\ members = {}
    /\ cleaner = [w \in Cleaners |-> NoCleanup]
    /\ cleanupFaults = 0

-----------------------------------------------------------------------------
Having(f, x, v) == [y \in DOMAIN f \cup {x} |-> IF y = x THEN v ELSE f[y]]

\* A transaction that inserts a request has taken its id by then, and others may have
\* taken later ids and be through before it commits: where a row appears, any id is
\* possible that no row has.
FreeRequestIds == RequestIds \ DOMAIN verification

\* Upload, first half: nothing reusable is found (all uploads of a user have the
\* same content here) and the encrypted file is saved.
SaveMaterial(u) ==
    /\ ~ \E m \in DOMAIN material : /\ material[m].user = u /\ material[m].status = "available"
                                    /\ ~material[m].expired
    /\ \E m \in MaterialIds \ (files \cup DOMAIN material) :
          /\ files' = files \cup {m}
          /\ uploading' = uploading \cup {[user |-> u, key |-> m]}
    /\ UNCHANGED <<material, cleaner, cleanupFaults, verification, identity, members>>

\* Upload, second half: the row.
CreateMaterial(up) ==
    /\ uploading' = uploading \ {up}
    /\ material' = Having(material, up.key,
                        [user |-> up.user, status |-> "available", request |-> 0, expired |-> FALSE,
                         retention |-> "none", stale |-> FALSE])
    /\ UNCHANGED <<files, cleaner, cleanupFaults, verification, identity, members>>

\* The insert fails and the file is removed again, or the process stops and it stays.
UploadFails(up) ==
    /\ cleanupFaults < MaxCleanupFaults
    /\ cleanupFaults' = cleanupFaults + 1
    /\ uploading' = uploading \ {up}
    /\ files' \in {files, files \ {up.key}}
    /\ UNCHANGED <<material, cleaner, verification, identity, members>>

SubmitStudentCard(u, no, m, r) ==
    /\ material[m].user = u /\ material[m].status = "available" /\ ~material[m].expired
    /\ verification' = Having(verification, r, [user |-> u, no |-> no, method |-> "student_card",
                                               material |-> m, status |-> "pending"])
    /\ material' = [material EXCEPT ![m].status = "bound", ![m].request = r]
    /\ UNCHANGED <<files, uploading, cleaner, cleanupFaults, identity, members>>

\* replaceIdentity: the unique keys on user and student number decide; a revoked
\* identity keeps its number.
replaceIdentity(u, no, method) ==
    LET version == IF u \in DOMAIN identity THEN identity[u].version + 1 ELSE 1 IN
    /\ version <= MaxIdentityVersion
    /\ \A v \in DOMAIN identity \ {u} : identity[v].no # no
    /\ identity' = Having(identity, u, [no |-> no, method |-> method, status |-> "verified",
                                      version |-> version])

\* supersedePending, on the requests as the transaction has them by then.
supersedePending(u, r, requests) ==
    [s \in DOMAIN requests |->
        IF s # r /\ requests[s].user = u /\ requests[s].status = "pending"
        THEN [requests[s] EXCEPT !.status = "superseded"] ELSE requests[s]]

\* The bound materials of the requests a transaction takes out of pending get
\* their retention.
StartRetention ==
    material' = [m \in DOMAIN material |->
        LET r == material[m].request IN
        IF r # 0 /\ verification[r].status = "pending" /\ verification'[r].status # "pending"
        THEN [material[m] EXCEPT !.retention = "running"] ELSE material[m]]

\* VerifyCredentials, once the provider has accepted the password. The request is
\* inserted, and has its id, before replaceIdentity waits for the identity: another
\* check of the user, or an approval, with a later id may have it first.
VerifyCredentials(u, no, r) ==
    /\ verification' = supersedePending(u, r,
           Having(verification, r, [user |-> u, no |-> no, method |-> "credentials",
                                  material |-> 0, status |-> "approved"]))
    /\ replaceIdentity(u, no, "credentials")
    /\ StartRetention
    /\ members' = members \cup {u}
    /\ UNCHANGED <<files, uploading, cleaner, cleanupFaults>>

\* Approve and Reject: a pending request is at version 1, which the client must name.
ApproveVerification(r) ==
    LET v == verification[r] IN
    /\ v.status = "pending"
    /\ replaceIdentity(v.user, v.no, "student_card")
    /\ verification' = supersedePending(v.user, r, [verification EXCEPT ![r].status = "approved"])
    /\ StartRetention
    /\ members' = members \cup {v.user}
    /\ UNCHANGED <<files, uploading, cleaner, cleanupFaults>>

RejectVerification(r) ==
    /\ verification[r].status = "pending"
    /\ verification' = [verification EXCEPT ![r].status = "rejected"]
    /\ StartRetention
    /\ UNCHANGED <<files, uploading, cleaner, cleanupFaults, identity, members>>

ApprovedOf(u) == {r \in DOMAIN verification : verification[r].user = u /\ verification[r].status = "approved"}

\* Mutant: the identity is revoked and the base role is left alone.
RevokeKeepsMember(u) ==
    /\ identity[u].status = "verified" /\ identity[u].version < MaxIdentityVersion
    /\ ApprovedOf(u) # {}
    /\ identity' = [identity EXCEPT ![u].status = "revoked", ![u].version = @ + 1]
    /\ verification' = [verification EXCEPT ![Max(ApprovedOf(u))].status = "revoked"]
    /\ UNCHANGED <<materialVars, members>>

\* Revoke: with the identity goes the approved request of its user that has the
\* highest id, the one the identity came from or not.
RevokeIdentity(u) ==
    /\ identity[u].status = "verified" /\ identity[u].version < MaxIdentityVersion
    /\ ApprovedOf(u) # {}
    /\ identity' = [identity EXCEPT ![u].status = "revoked", ![u].version = @ + 1]
    /\ verification' = [verification EXCEPT ![Max(ApprovedOf(u))].status = "revoked"]
    /\ members' = members \ {u}
    /\ UNCHANGED materialVars

-----------------------------------------------------------------------------
\* Mutant: a bound material is as old as its upload token.
DueWhenExpired == {m \in DOMAIN material :
    \/ material[m].status \in {"available", "bound"} /\ material[m].expired
    \/ material[m].status = "deleting" /\ material[m].stale}

\* Mutant: the claim of a worker that stopped is never taken over.
DueOnce == {m \in DOMAIN material :
    \/ material[m].status = "available" /\ material[m].expired
    \/ material[m].status = "bound" /\ material[m].retention = "over"}

\* The rows a cleanup may claim.
DueMaterials == {m \in DOMAIN material :
    \/ material[m].status = "available" /\ material[m].expired
    \/ material[m].status = "bound" /\ material[m].retention = "over"
    \/ material[m].status = "deleting" /\ material[m].stale}

\* The first of them in id order, as many as a batch takes.
ClaimedRows == {m \in DueMaterials : Cardinality({n \in DueMaterials : n < m}) < CleanupBatch}

\* ClaimCleanup: every row is updated only if it is still as read, so one step
\* stands for the read and the updates.
ClaimCleanup(w) ==
    /\ cleaner[w] = NoCleanup
    /\ DueMaterials # {}
    /\ cleaner' = [cleaner EXCEPT ![w] = [batch |-> ClaimedRows, step |-> "delete"]]
    /\ material' = [m \in DOMAIN material |->
                       IF m \in ClaimedRows
                       THEN [material[m] EXCEPT !.status = "deleting", !.stale = FALSE]
                       ELSE material[m]]
    /\ UNCHANGED <<files, uploading, cleanupFaults, verification, identity, members>>

\* The row the cleanup of w is at: it takes them in id order.
RowInHand(w) == Min(cleaner[w].batch)

\* Delete tolerates a file that is already gone.
DeleteFile(w) ==
    /\ cleaner[w].step = "delete"
    /\ files' = files \ {RowInHand(w)}
    /\ cleaner' = [cleaner EXCEPT ![w].step = "complete"]
    /\ UNCHANGED <<material, uploading, cleanupFaults, verification, identity, members>>

DeleteFails(w) ==
    /\ cleaner[w].step = "delete"
    /\ cleanupFaults < MaxCleanupFaults
    /\ cleanupFaults' = cleanupFaults + 1
    /\ cleaner' = [cleaner EXCEPT ![w].step = "release"]
    /\ UNCHANGED <<material, files, uploading, verification, identity, members>>

\* CompleteCleanup names no claim: any worker's deleting row will do. A row that is
\* not deleting any more ends the batch with an error.
CompleteCleanup(w) ==
    LET m == RowInHand(w) IN
    /\ cleaner[w].step = "complete"
    /\ IF material[m].status = "deleting"
       THEN /\ material' = [material EXCEPT ![m].status = "deleted"]
            /\ cleaner' = [cleaner EXCEPT ![w] =
                  IF @.batch = {m} THEN NoCleanup ELSE [batch |-> @.batch \ {m}, step |-> "delete"]]
       ELSE cleaner' = [cleaner EXCEPT ![w] = NoCleanup] /\ UNCHANGED material
    /\ UNCHANGED <<files, uploading, cleanupFaults, verification, identity, members>>

\* ReleaseCleanup, after which the run ends with the error of the deletion.
ReleaseCleanup(w) ==
    LET m == RowInHand(w) IN
    /\ cleaner[w].step = "release"
    /\ material' = IF material[m].status # "deleting" THEN material
                   ELSE [material EXCEPT ![m].status = IF material[m].request = 0 THEN "available" ELSE "bound"]
    /\ cleaner' = [cleaner EXCEPT ![w] = NoCleanup]
    /\ UNCHANGED <<files, uploading, cleanupFaults, verification, identity, members>>

CleanerStops(w) ==
    /\ cleaner[w] # NoCleanup
    /\ cleanupFaults < MaxCleanupFaults
    /\ cleanupFaults' = cleanupFaults + 1
    /\ cleaner' = [cleaner EXCEPT ![w] = NoCleanup]
    /\ UNCHANGED <<material, files, uploading, verification, identity, members>>

\* 24 hours since the upload, 30 days since the review, 15 minutes since the claim.
TimePasses(m) ==
    /\ material' \in {[material EXCEPT ![m].expired = TRUE],
                      [material EXCEPT ![m].retention = IF @ = "running" THEN "over" ELSE @],
                      [material EXCEPT ![m].stale = (material[m].status = "deleting")]}
    /\ material' # material
    /\ UNCHANGED <<files, uploading, cleaner, cleanupFaults, verification, identity, members>>

Clean(w) == ClaimCleanup(w) \/ DeleteFile(w) \/ CompleteCleanup(w) \/ ReleaseCleanup(w)

AcademicNext ==
    \/ \E u \in Students :
          \/ SaveMaterial(u)
          \/ \E no \in StudentNos, r \in FreeRequestIds :
                \/ VerifyCredentials(u, no, r)
                \/ \E m \in DOMAIN material : SubmitStudentCard(u, no, m, r)
    \/ \E up \in uploading : CreateMaterial(up) \/ UploadFails(up)
    \/ \E r \in DOMAIN verification : ApproveVerification(r) \/ RejectVerification(r)
    \/ \E u \in DOMAIN identity : RevokeIdentity(u)
    \/ \E w \in Cleaners : Clean(w) \/ DeleteFails(w) \/ CleanerStops(w)
    \/ \E m \in DOMAIN material : TimePasses(m)

AcademicSpec == AcademicInit /\ [][AcademicNext]_academicVars

-----------------------------------------------------------------------------
AcademicTypeOK ==
    /\ \A m \in DOMAIN material : m \in MaterialIds /\ material[m] \in MaterialRows
    /\ files \subseteq MaterialIds
    /\ uploading \subseteq [user : Students, key : MaterialIds]
    /\ \A r \in DOMAIN verification : r \in RequestIds /\ verification[r] \in RequestRows
    /\ \A u \in DOMAIN identity : u \in Students /\ identity[u] \in IdentityRows
    /\ members \subseteq Students
    /\ cleaner \in [Cleaners -> Cleanups]
    /\ cleanupFaults \in 0 .. MaxCleanupFaults

\* A reviewer can open what a pending request was submitted with: its material is
\* bound to it and its file is there, whatever the cleanups do, and however old
\* the upload is. A row is only marked deleted when its file is gone, although the
\* row is completed without naming the claim.
PendingMaterialKept ==
    /\ \A r \in DOMAIN verification :
          verification[r].status = "pending" =>
              LET m == verification[r].material IN
              /\ material[m].status = "bound" /\ material[m].request = r
              /\ m \in files
    /\ \A m \in DOMAIN material : material[m].status = "deleted" => m \notin files

\* Being a member, having a verified identity and having an approved request are
\* kept in three tables by four operations: a user is a member exactly while the
\* identity is verified, and what the identity says was approved in a request that
\* still counts as approved, whatever checks, approvals and revocations of the user
\* overlap. No number belongs to two users.
MembershipHasItsRequest ==
    /\ members = {u \in DOMAIN identity : identity[u].status = "verified"}
    /\ \A u \in members : \E r \in ApprovedOf(u) :
          verification[r].no = identity[u].no /\ verification[r].method = identity[u].method
    /\ \A u, v \in DOMAIN identity : identity[u].no = identity[v].no => u = v

\* No material outlives its time: whatever becomes due is in the end deleted, when
\* the cleanup task keeps running and the faults stop.
DueMaterialsDeleted == \A m \in MaterialIds :
    (m \in DueMaterials) ~> (m \in DOMAIN material /\ material[m].status = "deleted")
=============================================================================
