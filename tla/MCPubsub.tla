------------------------------ MODULE MCPubsub ------------------------------
(* Instances of Pubsub for TLC. *)
EXTENDS Pubsub, TLC

\* The widths in use are 1 (pings, collected logs) and a window (worker logs).
KeepLastValue == ("pings" :> 1) @@ ("logs" :> 2)
=============================================================================
