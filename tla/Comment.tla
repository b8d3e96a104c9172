------------------------------- MODULE Comment -------------------------------
(***************************************************************************)
(* Comments on campus resources: internal/modules/comment and the target   *)
(* resolver of internal/app/comment_targets.go.                            *)
(*                                                                         *)
(* A write locks the comment row (a reply locks its parent) and compares   *)
(* the client's version. The pin of a target lives in a table of its own,  *)
(* which only the writes of the pinned comment keep in step. The reads are *)
(* operators on one state; that ListRoots issues several statements, which *)
(* a write can fall between, is left out.                                  *)
(***************************************************************************)
EXTENDS Naturals, FiniteSets

CONSTANTS
    CommentIds,        \* row ids of comments, given out in order
    CommentUsers,      \* members
    Targets,           \* resources that can be commented on
    TargetOwner,       \* TargetOwner[g]: the member who published resource g
    CommentMaxDepth,   \* domain.MaxDepth (8 in the code)
    MaxCommentVersion  \* bound: versions of a comment

ASSUME CommentAssumption ==
    /\ CommentIds \subseteq Nat \ {0} /\ IsFiniteSet(CommentIds)
    /\ TargetOwner \in [Targets -> CommentUsers]
    /\ {CommentMaxDepth, MaxCommentVersion} \subseteq Nat

CommentStatuses == {"pending_review", "approved", "rejected", "withdrawn"}

\* A row of comments, but for its text; parent 0 is a root.
CommentRows == [target : Targets, author : CommentUsers, parent : Nat, root : Nat,
                depth : Nat, status : CommentStatuses, version : Nat]

VARIABLES
    comment,   \* comment[c]: the row, a function on the comments created
    pin        \* pin[g]: the comment pinned on g, 0 for no row

commentVars == <<comment, pin>>

CommentInit ==
    /\ comment = [c \in {} |-> [status |-> "approved"]]
    /\ pin = [g \in Targets |-> 0]

-----------------------------------------------------------------------------
Written == DOMAIN comment

VisibleTo(c, viewer) == comment[c].status = "approved" \/ comment[c].author = viewer

\* Mutant: a reply to a reply takes its parent for the root.
NewCommentUnderParent(c, u, g, p) ==
    [target |-> g, author |-> u, parent |-> p,
     root |-> IF p = 0 THEN c ELSE p,
     depth |-> IF p = 0 THEN 0 ELSE comment[p].depth + 1,
     status |-> "pending_review", version |-> 1]

\* The row Create inserts: a root, or a reply one level below its parent.
NewComment(c, u, g, p) ==
    [target |-> g, author |-> u, parent |-> p,
     root |-> IF p = 0 THEN c ELSE comment[p].root,
     depth |-> IF p = 0 THEN 0 ELSE comment[p].depth + 1,
     status |-> "pending_review", version |-> 1]

\* A reply needs a parent on the same target, visible to its author and not withdrawn.
MayCreateComment(c, u, g, p) ==
    /\ c \notin Written
    /\ \A d \in CommentIds : d < c => d \in Written
    /\ p # 0 =>
          /\ p \in Written
          /\ comment[p].target = g
          /\ comment[p].status # "withdrawn" /\ VisibleTo(p, u)
          /\ comment[p].depth + 1 <= CommentMaxDepth

CreateComment(c, u, g, p) ==
    /\ MayCreateComment(c, u, g, p)
    /\ comment' = [d \in Written \cup {c} |-> IF d = c THEN NewComment(c, u, g, p) ELSE comment[d]]
    /\ UNCHANGED pin

\* mutate: the row is locked and has the version the client sent.
CommentAtVersion(c, version) == comment[c].version = version /\ version < MaxCommentVersion

SaveComment(c, status) ==
    comment' = [comment EXCEPT ![c].status = status, ![c].version = @ + 1]

removePin(c) ==
    pin' = [g \in Targets |->
               IF comment[c].parent = 0 /\ g = comment[c].target /\ pin[g] = c THEN 0 ELSE pin[g]]

\* Update and Withdraw make the same checks.
MayChangeComment(c, u, version) ==
    /\ CommentAtVersion(c, version)
    /\ u = comment[c].author
    /\ comment[c].status # "withdrawn"

UpdateComment(c, u, version) ==
    /\ MayChangeComment(c, u, version)
    /\ SaveComment(c, "pending_review")
    /\ removePin(c)

WithdrawComment(c, u, version) ==
    /\ MayChangeComment(c, u, version)
    /\ SaveComment(c, "withdrawn")
    /\ removePin(c)

MaySubmitCommentReview(c, u, version) ==
    /\ CommentAtVersion(c, version)
    /\ u = comment[c].author
    /\ comment[c].status = "rejected"

SubmitCommentReview(c, u, version) ==
    /\ MaySubmitCommentReview(c, u, version)
    /\ SaveComment(c, "pending_review")
    /\ UNCHANGED pin

ReviewComment(c, version, approved) ==
    /\ CommentAtVersion(c, version)
    /\ comment[c].status = "pending_review"
    /\ SaveComment(c, IF approved THEN "approved" ELSE "rejected")
    /\ IF approved THEN UNCHANGED pin ELSE removePin(c)

RevokeCommentReview(c, version) ==
    /\ CommentAtVersion(c, version)
    /\ comment[c].status \in {"approved", "rejected"}
    /\ SaveComment(c, "pending_review")
    /\ removePin(c)

\* Pin: the manager has checked that the actor may see the comment and owns the
\* target; the store locks the comment and replaces the target's pin.
MayPinComment(c, u, version) ==
    /\ u = TargetOwner[comment[c].target]
    /\ comment[c].version = version
    /\ comment[c].parent = 0 /\ comment[c].status = "approved"

PinComment(c, u, version) ==
    /\ MayPinComment(c, u, version)
    /\ pin' = [pin EXCEPT ![comment[c].target] = c]
    /\ UNCHANGED comment

MayUnpinComment(c, u, version) ==
    /\ u = TargetOwner[comment[c].target]
    /\ VisibleTo(c, u)
    /\ comment[c].version = version
    /\ pin[comment[c].target] = c

UnpinComment(c, u, version) ==
    /\ MayUnpinComment(c, u, version)
    /\ pin' = [pin EXCEPT ![comment[c].target] = 0]
    /\ UNCHANGED comment

CommentNext ==
    \/ \E c \in CommentIds, u \in CommentUsers, g \in Targets, p \in {0} \cup Written :
          CreateComment(c, u, g, p)
    \/ \E c \in Written, version \in 1 .. MaxCommentVersion :
          \/ \E u \in CommentUsers :
                \/ UpdateComment(c, u, version)
                \/ WithdrawComment(c, u, version)
                \/ SubmitCommentReview(c, u, version)
                \/ PinComment(c, u, version)
                \/ UnpinComment(c, u, version)
          \/ \E approved \in BOOLEAN : ReviewComment(c, version, approved)
          \/ RevokeCommentReview(c, version)

CommentSpec == CommentInit /\ [][CommentNext]_commentVars

-----------------------------------------------------------------------------
\* The rows Thread loads: those of the root, as far as the viewer may see them.
ThreadRows(r, viewer) == {c \in Written : comment[c].root = r /\ c # r /\ VisibleTo(c, viewer)}

\* depthFirst keeps what it reaches from the root through loaded rows. Parents have
\* smaller ids than their replies.
ThreadComments(r, viewer) ==
    LET reached[c \in Written] ==
            \/ c = r
            \/ c \in ThreadRows(r, viewer) /\ comment[c].parent \in Written /\ reached[comment[c].parent]
    IN  {c \in Written \ {r} : reached[c]}

\* The approved comments and the viewer's own on a target, the pinned one first.
ListRoots(g, viewer) ==
    {c \in Written : comment[c].target = g /\ comment[c].parent = 0 /\ VisibleTo(c, viewer)} \cup ({pin[g]} \ {0})

\* item: the number of replies shown next to a comment.
ReplyCount(c, viewer) ==
    Cardinality({d \in Written : /\ IF comment[c].parent = 0 THEN comment[d].root = c /\ d # c
                                    ELSE comment[d].parent = c
                                 /\ VisibleTo(d, viewer)})

\* AvailableActions.
CommentActions(c, viewer) ==
    LET st == comment[c].status
        mine == comment[c].author = viewer
        owner == TargetOwner[comment[c].target] = viewer
    IN  {x \in {"edit", "withdraw", "submit_review", "reply", "pin_comment", "unpin_comment"} :
            \/ x \in {"edit", "withdraw"} /\ mine /\ st # "withdrawn"
            \/ x = "submit_review" /\ mine /\ st = "rejected"
            \/ x = "reply" /\ st = "approved"
            \/ /\ owner /\ comment[c].parent = 0 /\ st = "approved"
               /\ x = IF pin[comment[c].target] = c THEN "unpin_comment" ELSE "pin_comment"}

CommentTypeOK ==
    /\ Written \subseteq CommentIds
    /\ \A c \in Written : comment[c] \in CommentRows
    /\ pin \in [Targets -> Nat]

\* The comments that hang under r through comments the viewer may see.
HangingUnder(r, viewer) ==
    LET hangs[c \in Written] ==
            /\ VisibleTo(c, viewer)
            /\ \/ comment[c].parent = r
               \/ comment[c].parent \in Written /\ hangs[comment[c].parent]
    IN  {c \in Written : hangs[c]}

\* Readers see the visible tree. A thread is exactly the comments that hang under
\* its root through comments the viewer may see, none deeper than the limit: rows
\* are selected by root_id and linked by parent_id, so both must tell the same
\* story. A pin names an approved root of its own target, so ListRoots, which
\* shows the pinned comment without looking at its status, shows nobody a root
\* that is hidden from them: whatever hides a comment takes its pin away.
ReadersSeeTheVisibleTree ==
    /\ \A r \in {c \in Written : comment[c].parent = 0}, u \in CommentUsers :
          /\ ThreadComments(r, u) = HangingUnder(r, u)
          /\ \A c \in ThreadComments(r, u) :
                /\ comment[c].depth <= CommentMaxDepth
                /\ comment[c].target = comment[r].target
          /\ Cardinality(ThreadComments(r, u)) <= ReplyCount(r, u)
    /\ \A g \in Targets :
          /\ pin[g] # 0 => /\ pin[g] \in Written
                           /\ comment[pin[g]].status = "approved"
                           /\ comment[pin[g]].parent = 0 /\ comment[pin[g]].target = g
          /\ \A u \in CommentUsers : \A c \in ListRoots(g, u) : VisibleTo(c, u)

\* Whatever AvailableActions offers a viewer of a comment, the store accepts from
\* that viewer now; but for a reply below the last level.
CommentOffersAccepted ==
    \A c \in Written, u \in CommentUsers :
        LET offered == CommentActions(c, u)
            v == comment[c].version
        IN  /\ v < MaxCommentVersion =>
                  /\ "edit" \in offered \/ "withdraw" \in offered => MayChangeComment(c, u, v)
                  /\ "submit_review" \in offered => MaySubmitCommentReview(c, u, v)
            /\ "reply" \in offered /\ Written # CommentIds /\ comment[c].depth < CommentMaxDepth =>
                  \E d \in CommentIds : MayCreateComment(d, u, comment[c].target, c)
            /\ "pin_comment" \in offered => MayPinComment(c, u, v)
            /\ "unpin_comment" \in offered => MayUnpinComment(c, u, v)
=============================================================================
