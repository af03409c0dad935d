------------------------------ MODULE MCWorker ------------------------------
(* The instance of Worker for TLC.                                            *)
EXTENDS Worker, FiniteSets

\* Some query is repeated while another is executed, the queue of results is full
\* after one and that of events holds a query behind another event.
ASSUME InterestingBounds ==
    /\ Cardinality(QueryId) >= 2
    /\ MaxChannels > Cardinality(QueryId)
    /\ EventsQueueSize = 2 /\ ResultsQueueSize = 1
=============================================================================
