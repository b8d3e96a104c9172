---------------------------- MODULE MCMarketplace ----------------------------
(* Small instances of Marketplace for TLC.                                 *)
EXTENDS Marketplace

CONSTANTS l1, l2, u1, u2, u3

\* u1 sells l1; u2 sells l2 and may buy l1.
MCOwner == [l \in Listings |-> IF l = l1 THEN u1 ELSE u2]
=============================================================================
