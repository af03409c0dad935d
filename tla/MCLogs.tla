------------------------------- MODULE MCLogs -------------------------------
(* The instance of Logs for TLC.                                              *)
EXTENDS Logs

\* Some logs share a bundle, some need one each, some fill one beyond what
\* gossipsub takes and some are too large for any, and acks can overtake each
\* other.
ASSUME InterestingBounds ==
    /\ \E s \in Sizes : 2 * s + Overhead <= SizeLimit
    /\ \E s \in Sizes : s + Overhead <= SizeLimit /\ 2 * s > SizeLimit
    /\ \E s, t \in Sizes : s + t <= SizeLimit /\ s + t + Overhead > SizeLimit
    /\ \E s \in Sizes : s > SizeLimit
    /\ MaxLogs >= 2
=============================================================================
