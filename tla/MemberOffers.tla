----------------------------- MODULE MemberOffers -----------------------------
(***************************************************************************)
(* What the pages of activities, errands and comments offer a member, next *)
(* to what the stores then accept. AvailableActions of each module decides *)
(* from the row a member was shown; the store decides from the locked row. *)
(***************************************************************************)
EXTENDS Activity, Errand, Comment

\* Activities, errands and comments: whatever AvailableActions offers a viewer, the
\* store accepts from that viewer (the checks of the offered call all pass).
OffersAccepted == ActivityOffersAccepted /\ TaskOffersAccepted /\ CommentOffersAccepted
=============================================================================
