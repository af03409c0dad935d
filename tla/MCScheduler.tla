----------------------------- MODULE MCScheduler -----------------------------
(* The instance of Scheduler for TLC.                                         *)
EXTENDS Scheduler

\* The probe timers can be full, every peer can be looked up and connected more
\* than once, the queues can be full, and two verdicts can wait for the next poll.
ASSUME InterestingBounds ==
    /\ Cardinality(Peers) > MaxProbes
    /\ MaxQueries >= Cardinality(Peers)
    /\ MaxOutbound >= 2
    /\ MaxPending >= 2
=============================================================================
