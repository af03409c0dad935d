------------------------------ MODULE MCGateway ------------------------------
(* The instance of Gateway for TLC.                                           *)
EXTENDS Gateway

\* Two queries can be confused, two requests can time out together, and there is
\* an id for a retry besides.
ASSUME InterestingBounds ==
    Cardinality(QueryId) >= 2 /\ MaxBuffered >= 2 /\ MaxIds > MaxBuffered
=============================================================================
