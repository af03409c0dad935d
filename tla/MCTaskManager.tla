--------------------------- MODULE MCTaskManager ---------------------------
(* The instance of TaskManager for TLC.                                       *)
EXTENDS TaskManager

\* A tick can fall due while another one is kept.
ASSUME InterestingBounds == Periodic # {} /\ MaxDue >= 2
=============================================================================
