--------------------------- MODULE RequestService ---------------------------
(* What ClientBehaviour promises its owner, whatever happens to connections,  *)
(* lookups and retries underneath: every accepted request is resolved once,   *)
(* either by the response to that very request or by a Timeout, and a resolved *)
(* request never changes again.                                               *)
CONSTANT ReqId

VARIABLE status

Outcome == {"answered", "expired"}

Init == status = [r \in ReqId |-> "unsent"]

\* try_send_request returned Ok(r).
Accept(r) ==
    /\ status[r] = "unsent"
    /\ status' = [status EXCEPT ![r] = "open"]

\* The events of one poll resolve the requests of S, each with an outcome of
\* its own (a lookup that times out resolves everything that waited for it).
Resolve(S, out) ==
    /\ \A r \in S : status[r] = "open"
    /\ status' = [r \in ReqId |-> IF r \in S THEN out[r] ELSE status[r]]

Next ==
    \/ \E r \in ReqId : Accept(r)
    \/ \E S \in SUBSET ReqId : \E out \in [S -> Outcome] : Resolve(S, out)

Spec == Init /\ [][Next]_status
=============================================================================
