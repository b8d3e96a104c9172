---------------------------- MODULE CampusCircle ----------------------------
(***************************************************************************)
(* The campus circle: sections, posts and likes of                         *)
(* internal/modules/campus_circle.                                         *)
(*                                                                         *)
(* A post enters moderation, or leaves it approved, only in a child        *)
(* section that is active under an active root. The rows of the section    *)
(* and its root are read FOR SHARE in the transaction that writes the      *)
(* post; archiving takes the section's row FOR UPDATE. Whether that is     *)
(* enough depends on the interleaving of the statements, so a transaction  *)
(* that takes more than one lock is several steps here and holds its locks *)
(* from one to the next. One that takes a single lock is one step.         *)
(***************************************************************************)
EXTENDS Naturals, FiniteSets

CONSTANTS
    Sections,        \* row ids of campus_circle_sections, given out in order
    Posts,           \* row ids of campus_circle_posts
    Authors,         \* members
    CircleCalls,     \* transactions that take several locks
    MaxPostVersion,  \* bound: versions of a post
    MaxSectionVersion \* bound: versions of a section

ASSUME CampusCircleAssumption ==
    /\ Sections \subseteq Nat \ {0} /\ IsFiniteSet(CircleCalls)
    /\ {MaxPostVersion, MaxSectionVersion} \subseteq Nat

\* A row of campus_circle_sections; parent 0 is a root.
SectionRows == [parent : Nat, status : {"active", "archived"}, version : Nat]

\* A row of campus_circle_posts with the likes of its own table.
PostRows == [section : Sections, author : Authors, likes : SUBSET Authors, version : Nat,
             status : {"pending_review", "approved", "rejected", "withdrawn"}]

VARIABLES
    section,   \* section[s]: the row, a function on the sections created
    post,      \* post[p]: the row, a function on the posts created
    call,      \* call[k]: a transaction under way, or NoTransaction
    shared,    \* shared[s]: transactions with a SHARE lock on section s
    sectionLock  \* sectionLock[s]: transactions with an UPDATE lock on section s

circleVars == <<section, post, call, shared, sectionLock>>

NoTransaction == [op |-> "none", post |-> 0, section |-> 0, version |-> 0, author |-> 0, at |-> "done"]

CircleInit ==
    /\ section = [s \in {} |-> [status |-> "active"]]
    /\ post = [p \in {} |-> [status |-> "approved"]]
    /\ call = [k \in CircleCalls |-> NoTransaction]
    /\ shared = [s \in Sections |-> {}]
    /\ sectionLock = [s \in Sections |-> {}]

-----------------------------------------------------------------------------
Opened == DOMAIN section
Published == DOMAIN post

\* The lock table: SHARE waits for UPDATE, UPDATE waits for both.
MayShare(k, s) == sectionLock[s] \subseteq {k}
MayLock(k, s) == (sectionLock[s] \cup shared[s]) \subseteq {k}
Share(k, s) == MayShare(k, s) /\ shared' = [shared EXCEPT ![s] = @ \cup {k}]

\* lockPost: a post is locked by the call that works on it.
PostFree(p) == \A k \in CircleCalls : call[k].post # p \/ call[k].at = "start"

EndCall(k) ==
    /\ call' = [call EXCEPT ![k] = NoTransaction]
    /\ shared' = [s \in Sections |-> shared[s] \ {k}]
    /\ sectionLock' = [s \in Sections |-> sectionLock[s] \ {k}]

CanAcceptPosts(s) ==
    /\ s \in Opened /\ section[s].parent # 0 /\ section[s].status = "active"
    /\ section[section[s].parent].parent = 0 /\ section[section[s].parent].status = "active"

\* ValidateSectionParent: none, or an active root.
ValidParent(p) == p = 0 \/ (p \in Opened /\ section[p].parent = 0 /\ section[p].status = "active")

\* A call is one of these, with the versions its client has read.
PostOps == {"create_post", "update_post", "submit_review", "approve"}

BeginPost(k, op, p, s, u) ==
    /\ call[k] = NoTransaction
    /\ op \in PostOps
    /\ (op = "create_post") = (p \notin Published)
    /\ p \in Published /\ op # "update_post" => s = post[p].section
    /\ s \in Opened
    /\ p \in Published => post[p].version < MaxPostVersion
    /\ call' = [call EXCEPT ![k] = [op |-> op, post |-> p, section |-> s, author |-> u,
                                    version |-> IF p \in Published THEN post[p].version ELSE 0,
                                    at |-> "start"]]
    /\ UNCHANGED <<section, post, shared, sectionLock>>

\* The post's own checks, under its lock (mutatePost and the Can... rules).
PostAllows(c) ==
    \/ c.op = "create_post" /\ c.post \notin Published
    \/ /\ c.post \in Published /\ post[c.post].version = c.version
       /\ \/ /\ c.op = "update_post" /\ c.author = post[c.post].author
             /\ post[c.post].status # "withdrawn"
          \/ /\ c.op = "submit_review" /\ c.author = post[c.post].author
             /\ post[c.post].status = "rejected"
          \/ c.op = "approve" /\ post[c.post].status = "pending_review"

LockPost(k) ==
    /\ call[k].at = "start" /\ PostFree(call[k].post)
    /\ IF PostAllows(call[k])
       THEN call' = [call EXCEPT ![k].at = "section"] /\ UNCHANGED <<shared, sectionLock>>
       ELSE EndCall(k)
    /\ UNCHANGED <<section, post>>

\* Mutant: the section and its root are read without a lock.
ReadSectionUnlocked(k) ==
    /\ call[k].at = "section"
    /\ IF CanAcceptPosts(call[k].section)
       THEN call' = [call EXCEPT ![k].at = "write"] /\ UNCHANGED <<shared, sectionLock>>
       ELSE EndCall(k)
    /\ UNCHANGED <<section, post>>

\* ensureSectionAcceptsPosts: the section FOR SHARE ...
ShareSection(k) ==
    /\ call[k].at = "section" /\ MayShare(k, call[k].section)
    /\ IF section[call[k].section].parent # 0
       THEN /\ Share(k, call[k].section)
            /\ call' = [call EXCEPT ![k].at = "root"]
            /\ UNCHANGED sectionLock
       ELSE EndCall(k)
    /\ UNCHANGED <<section, post>>

\* ... and its root FOR SHARE, before CanAcceptPosts looks at both.
ShareRoot(k) ==
    /\ call[k].at = "root"
    /\ LET root == section[call[k].section].parent IN
       /\ MayShare(k, root)
       /\ IF CanAcceptPosts(call[k].section)
          THEN /\ Share(k, root)
               /\ call' = [call EXCEPT ![k].at = "write"]
               /\ UNCHANGED sectionLock
          ELSE EndCall(k)
    /\ UNCHANGED <<section, post>>

\* The post's row as the transaction leaves it.
PostWritten(c) ==
    IF c.op = "create_post"
    THEN [section |-> c.section, author |-> c.author, likes |-> {}, version |-> 1,
          status |-> "pending_review"]
    ELSE [post[c.post] EXCEPT !.section = c.section, !.version = @ + 1,
                              !.status = IF c.op = "approve" THEN "approved" ELSE "pending_review"]

WritePost(k) ==
    /\ call[k].at = "write"
    /\ post' = [p \in Published \cup {call[k].post} |->
                   IF p = call[k].post THEN PostWritten(call[k]) ELSE post[p]]
    /\ EndCall(k)
    /\ UNCHANGED section

-----------------------------------------------------------------------------
\* The writes of a post that look at no section: one lock, one step.
SettlePost(p, version, status) ==
    /\ PostFree(p)
    /\ post[p].version = version /\ version < MaxPostVersion
    /\ post' = [post EXCEPT ![p].status = status, ![p].version = @ + 1]
    /\ UNCHANGED <<section, call, shared, sectionLock>>

WithdrawPost(p, u, version) ==
    /\ u = post[p].author /\ post[p].status # "withdrawn"
    /\ SettlePost(p, version, "withdrawn")

RejectPost(p, version) ==
    /\ post[p].status = "pending_review"
    /\ SettlePost(p, version, "rejected")

RevokePostReview(p, version) ==
    /\ post[p].status \in {"approved", "rejected"}
    /\ SettlePost(p, version, "pending_review")

\* changeLike: a second like, or an unlike of nothing, changes nothing.
LikePost(p, u, liked) ==
    /\ PostFree(p)
    /\ post[p].status = "approved" /\ u # post[p].author
    /\ post' = [post EXCEPT ![p].likes = IF liked THEN @ \cup {u} ELSE @ \ {u}]
    /\ UNCHANGED <<section, call, shared, sectionLock>>

-----------------------------------------------------------------------------
\* CreateSection under a root shares the root's row, inserts and commits.
CreateSection(s, parent) ==
    /\ s \notin Opened
    /\ \A t \in Sections : t < s => t \in Opened
    /\ parent # 0 => sectionLock[parent] = {}
    /\ ValidParent(parent)
    /\ section' = [t \in Opened \cup {s} |->
                      IF t = s THEN [parent |-> parent, status |-> "active", version |-> 1]
                      ELSE section[t]]
    /\ UNCHANGED <<post, call, shared, sectionLock>>

\* UpdateSection changes how a section is presented, and SetSectionStatus archives
\* it: both lock one row.
SaveSection(s, version, status) ==
    /\ sectionLock[s] \cup shared[s] = {}
    /\ section[s].version = version /\ version < MaxSectionVersion
    /\ section' = [section EXCEPT ![s].status = status, ![s].version = @ + 1]
    /\ UNCHANGED <<post, call, shared, sectionLock>>

UpdateSection(s, version) == SaveSection(s, version, section[s].status)

ArchiveSection(s, version) ==
    /\ section[s].status = "active"
    /\ SaveSection(s, version, "archived")

\* SetSectionStatus to active: lock the section, then share its root.
BeginActivate(k, s) ==
    /\ call[k] = NoTransaction
    /\ section[s].version < MaxSectionVersion
    /\ MayLock(k, s)
    /\ section[s].status = "archived"
    /\ sectionLock' = [sectionLock EXCEPT ![s] = {k}]
    /\ call' = [call EXCEPT ![k] = [NoTransaction EXCEPT !.op = "activate", !.section = s, !.at = "activate"]]
    /\ UNCHANGED <<section, post, shared>>

Activate(k) ==
    /\ call[k].at = "activate"
    /\ LET s == call[k].section
           parent == section[s].parent
       IN  /\ parent # 0 => MayShare(k, parent)
           /\ section' = IF ValidParent(parent)
                         THEN [section EXCEPT ![s].status = "active", ![s].version = @ + 1]
                         ELSE section
    /\ EndCall(k)
    /\ UNCHANGED post

CallStep(k) ==
    \/ LockPost(k)
    \/ ShareSection(k)
    \/ ShareRoot(k)
    \/ WritePost(k)
    \/ Activate(k)

CircleNext ==
    \/ \E k \in CircleCalls :
          \/ \E op \in PostOps, p \in Posts, s \in Opened, u \in Authors : BeginPost(k, op, p, s, u)
          \/ \E s \in Opened : BeginActivate(k, s)
          \/ CallStep(k)
    \/ \E p \in Published, version \in 1 .. MaxPostVersion :
          \/ \E u \in Authors : WithdrawPost(p, u, version)
          \/ RejectPost(p, version)
          \/ RevokePostReview(p, version)
    \/ \E p \in Published, u \in Authors, liked \in BOOLEAN : LikePost(p, u, liked)
    \/ \E s \in Sections, parent \in {0} \cup Opened : CreateSection(s, parent)
    \/ \E s \in Opened, version \in 1 .. MaxSectionVersion :
          \/ UpdateSection(s, version)
          \/ ArchiveSection(s, version)

CircleSpec == CircleInit /\ [][CircleNext]_circleVars

-----------------------------------------------------------------------------
\* ListSections and BuildSectionTree for the public: active roots with their active
\* children.
SectionTree ==
    [r \in {s \in Opened : section[s].parent = 0 /\ section[s].status = "active"} |->
        {s \in Opened : section[s].parent = r /\ section[s].status = "active"}]

PublicPosts == {p \in Published : post[p].status = "approved"}

CircleTypeOK ==
    /\ Opened \subseteq Sections /\ \A s \in Opened : section[s] \in SectionRows
    /\ Published \subseteq Posts /\ \A p \in Published : post[p] \in PostRows
    /\ \A s \in Sections : shared[s] \subseteq CircleCalls /\ Cardinality(sectionLock[s]) <= 1

\* No post is created, moved, resubmitted or approved in a section that is archived
\* at that moment, or whose root is: the check made before the write still holds
\* when the write is committed.
PostsEnterOpenSections ==
    [][\A p \in Posts :
          (/\ p \in DOMAIN post'
           /\ \/ p \notin Published
              \/ post'[p].section # post[p].section
              \/ post[p].status = "rejected" /\ post'[p].status = "pending_review"
                 /\ \E k \in CircleCalls : call[k].post = p /\ call[k].at = "write" /\ call'[k] # call[k]
              \/ post[p].status # "approved" /\ post'[p].status = "approved")
          => \E r \in DOMAIN SectionTree' : post'[p].section \in SectionTree'[r]]_circleVars
=============================================================================
