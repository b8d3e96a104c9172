---------------------------- MODULE MCNoticeCenter ----------------------------
(* Small instances of NoticeCenter for TLC.                                *)
EXTENDS NoticeCenter

CONSTANTS n1, u1, u2, g1, h1, h2, r1, r2

\* A push notice to everybody, one to a role and a named user, and an inbox notice.
ToAll == [push |-> TRUE, all |-> TRUE, roles |-> {}, users |-> {}]
ToSome == [push |-> TRUE, all |-> FALSE, roles |-> {g1}, users |-> {u1}]
InboxOnly == [push |-> FALSE, all |-> TRUE, roles |-> {}, users |-> {}]

MCRoleMembers == [g \in {g1} |-> {u1}]

AllDrafts == {ToAll, ToSome, InboxOnly}
SomeDraft == {ToSome}
=============================================================================
