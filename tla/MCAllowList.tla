---------------------------- MODULE MCAllowList ----------------------------
(* The instance of AllowList for TLC.                                         *)
EXTENDS AllowList

\* Enough changes to fill several pages and to take a gateway away again.
ASSUME InterestingBounds == MaxChanges > 2 * PageSize /\ Pinned # {}
=============================================================================
