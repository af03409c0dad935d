--------------------------- MODULE MCRequestClient ---------------------------
(* The instance of RequestClient for TLC.                                     *)
EXTENDS RequestClient

\* More peers than places, so that every place is taken by a lookup while yet
\* another peer could need one, and ids enough to retry all and go on.
ASSUME InterestingBounds ==
    Cardinality(Peers) > MaxBuffered /\ MaxBuffered >= 2 /\ MaxIds > 2 * MaxBuffered
=============================================================================
