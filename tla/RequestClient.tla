---------------------------- MODULE RequestClient ----------------------------
(* ClientBehaviour of transport/src/behaviour/request_client.rs inside the    *)
(* Wrapped behaviour of wrapped.rs: requests to remote peers with one retry.  *)
(* A request that fails for the first time waits until its peer is connected  *)
(* and is then submitted again under a new id; the owner must never notice.   *)
(*                                                                            *)
(* The inner libp2p request_response behaviour is external.  It numbers the   *)
(* requests it is given and reports on each of them once, with a response or  *)
(* a failure.  A request is identified by the id of its first submission,     *)
(* which also stands for its contents.                                        *)
EXTENDS Integers, FiniteSets, Sequences, Functions

CONSTANTS
    Peers,         \* remote peers
    MaxBuffered,   \* ClientConfig::max_buffered
    MaxIds         \* bound: how many ids the inner behaviour hands out

ASSUME MaxBufferedAssumption == MaxBuffered \in Nat
ASSUME MaxIdsAssumption == MaxIds \in Nat

VARIABLES
    next_id,                 \* external: ids handed out so far
    inflight,                \* external: submissions the inner behaviour has
    original_requests,       \* ids with a copy kept for the retry
    waiting_for_connection,  \* per peer, the failed requests that wait for it
    resubmitted_requests,    \* new id -> old id, NoId where there is no entry
    lookup_timeouts,         \* peers with a running lookup timer
    pending_events,          \* Wrapped::pending_events
    sent,                    \* history: how often a request was submitted
    answers                  \* history: final events generated for a request

clientVars == <<next_id, inflight, original_requests, waiting_for_connection,
                resubmitted_requests, lookup_timeouts, pending_events, sent,
                answers>>

NoId == 0
ReqId == 1..MaxIds
Submission == [id : ReqId, peer : Peers, call : ReqId]

\* ClientEvent.  PeerUnknown concerns a peer and no request.
Response(p, r) == [kind |-> "Response", peer |-> p, req |-> r]
Timeout(p, r) == [kind |-> "Timeout", peer |-> p, req |-> r]
PeerUnknown(p) == [kind |-> "PeerUnknown", peer |-> p, req |-> NoId]
Event == [kind : {"Response", "Timeout"}, peer : Peers, req : ReqId]
            \cup [kind : {"PeerUnknown"}, peer : Peers, req : {NoId}]

ClientInit ==
    /\ next_id = 0
    /\ inflight = {}
    /\ original_requests = {}
    /\ waiting_for_connection = [p \in Peers |-> {}]
    /\ resubmitted_requests = [i \in ReqId |-> NoId]
    /\ lookup_timeouts = {}
    /\ pending_events = <<>>
    /\ sent = [r \in ReqId |-> 0]
    /\ answers = [r \in ReqId |-> <<>>]

(* ------------------------------------------------------------------------ *)
(* The steps the handlers are made of; each is preceded by the faults that  *)
(* the properties below must notice.                                        *)
(* ------------------------------------------------------------------------ *)

HasRoom_OffByOne == Cardinality(original_requests) <= MaxBuffered

\* The check of try_send_request.
HasRoom == Cardinality(original_requests) < MaxBuffered

OldId_NewId(i) == i
OldId_NoDefault(i) == resubmitted_requests[i]

\* The id the owner knows a submission by.
OldId(i) == IF resubmitted_requests[i] = NoId THEN i ELSE resubmitted_requests[i]

TakeWaiting_Copies(p) == waiting_for_connection

\* waiting_for_connection without the entry of p.
TakeWaiting(p) == [waiting_for_connection EXCEPT ![p] = {}]

StopLookup_Forgotten(p) == lookup_timeouts

\* lookup_timeouts.remove(p); a timer that fires is gone as well.
StopLookup(p) == lookup_timeouts \ {p}

TryPush_OffByOne(p) ==
    IF Cardinality(lookup_timeouts) + 1 < MaxBuffered
    THEN lookup_timeouts \cup {p} ELSE lookup_timeouts

\* FuturesMap::try_push: refused, without an effect, at capacity.
TryPush(p) ==
    IF Cardinality(lookup_timeouts) < MaxBuffered
    THEN lookup_timeouts \cup {p} ELSE lookup_timeouts

Forget_Keeps(ids) == original_requests

\* original_requests.remove, for every id of a set.
Forget(ids) == original_requests \ ids

(* ------------------------------------------------------------------------ *)
(* Operations of the owner                                                  *)
(* ------------------------------------------------------------------------ *)

\* Accepting a request: hand it to the inner behaviour, keep a copy.  A full
\* buffer refuses (Err(QueueFull)) and changes nothing.
try_send_request(p) ==
    /\ HasRoom
    /\ next_id < MaxIds
    /\ next_id' = next_id + 1
    /\ inflight' = inflight \cup
          {[id |-> next_id + 1, peer |-> p, call |-> next_id + 1]}
    /\ original_requests' = original_requests \cup {next_id + 1}
    /\ sent' = [sent EXCEPT ![next_id + 1] = @ + 1]
    /\ UNCHANGED <<waiting_for_connection, resubmitted_requests,
                   lookup_timeouts, pending_events, answers>>

(* ------------------------------------------------------------------------ *)
(* What Wrapped::poll finds, in its order: queued events first, then the    *)
(* lookup timers, then the inner behaviour.  So the handlers below run only *)
(* while pending_events is empty.                                           *)
(* ------------------------------------------------------------------------ *)

\* Poll::Ready with the oldest queued event: the owner gets it.
poll ==
    /\ pending_events # <<>>
    /\ pending_events' = Tail(pending_events)
    /\ UNCHANGED <<next_id, inflight, original_requests, waiting_for_connection,
                   resubmitted_requests, lookup_timeouts, sent, answers>>

\* The lookup of p took longer than send_timeout: everything that waits for p
\* is given up, in the arbitrary order of a HashSet.
on_timeout(p) ==
    LET buffered == waiting_for_connection[p]
        n == Cardinality(buffered)
    IN
    /\ pending_events = <<>>
    /\ p \in lookup_timeouts
    /\ lookup_timeouts' = StopLookup(p)
    /\ waiting_for_connection' = TakeWaiting(p)
    /\ original_requests' = Forget(buffered)
    /\ \E order \in Bijection(1..n, buffered) :
          pending_events' = [k \in 1..n |-> Timeout(p, order[k])]
    /\ answers' = [r \in ReqId |->
          IF r \in buffered THEN Append(answers[r], NoId) ELSE answers[r]]
    /\ UNCHANGED <<next_id, inflight, resubmitted_requests, sent>>

\* The response to submission m arrived.
on_success(m) ==
    /\ pending_events = <<>>
    /\ inflight' = inflight \ {m}
    /\ original_requests' = Forget({m.id})
    /\ resubmitted_requests' = [resubmitted_requests EXCEPT ![m.id] = NoId]
    /\ pending_events' = <<Response(m.peer, OldId(m.id))>>
    /\ answers' = [answers EXCEPT ![OldId(m.id)] = Append(@, m.call)]
    /\ UNCHANGED <<next_id, waiting_for_connection, lookup_timeouts, sent>>

\* on_failure for a request that was submitted for the second time: give up.
failed_again(m) ==
    LET req == resubmitted_requests[m.id] IN
    /\ req # NoId
    /\ resubmitted_requests' = [resubmitted_requests EXCEPT ![m.id] = NoId]
    /\ pending_events' = <<Timeout(m.peer, req)>>
    /\ answers' = [answers EXCEPT ![req] = Append(@, NoId)]
    /\ UNCHANGED <<waiting_for_connection, lookup_timeouts>>

\* on_failure for a first submission: wait for the peer, and have it looked up
\* unless that is under way.
failed_first(m) ==
    /\ resubmitted_requests[m.id] = NoId
    /\ waiting_for_connection' =
          [waiting_for_connection EXCEPT ![m.peer] = @ \cup {m.id}]
    /\ \/ /\ m.peer \in lookup_timeouts
          /\ UNCHANGED <<lookup_timeouts, pending_events>>
       \/ /\ m.peer \notin lookup_timeouts
          /\ lookup_timeouts' = TryPush(m.peer)
          /\ pending_events' = <<PeerUnknown(m.peer)>>
    /\ UNCHANGED <<resubmitted_requests, answers>>

\* Submission m failed: dialling failed, the connection broke, no response came
\* in time, or the protocol is not supported.
on_failure(m) ==
    /\ pending_events = <<>>
    /\ inflight' = inflight \ {m}
    /\ failed_again(m) \/ failed_first(m)
    /\ UNCHANGED <<next_id, original_requests, sent>>

(* ------------------------------------------------------------------------ *)
(* The swarm's ConnectionEstablished, at any time, whatever is queued       *)
(* ------------------------------------------------------------------------ *)

\* Everything that waits for p is submitted again, in an arbitrary order; an id
\* without a kept copy is skipped ("Unknown request").
on_connection_established(p) ==
    LET known == waiting_for_connection[p] \cap original_requests
        last == next_id + Cardinality(known)
        fresh == (next_id + 1)..last
    IN
    /\ last <= MaxIds
    /\ next_id' = last
    /\ lookup_timeouts' = StopLookup(p)
    /\ waiting_for_connection' = TakeWaiting(p)
    /\ original_requests' = Forget(known)
    /\ \E old \in Bijection(fresh, known) :
          /\ inflight' = inflight \cup
                {[id |-> i, peer |-> p, call |-> old[i]] : i \in fresh}
          /\ resubmitted_requests' = [i \in ReqId |->
                IF i \in fresh THEN old[i] ELSE resubmitted_requests[i]]
    /\ sent' = [r \in ReqId |-> IF r \in known THEN sent[r] + 1 ELSE sent[r]]
    /\ UNCHANGED <<pending_events, answers>>

ClientNext ==
    \/ \E p \in Peers : try_send_request(p)
    \/ poll
    \/ \E p \in Peers : on_timeout(p)
    \/ \E m \in inflight : on_success(m)
    \/ \E m \in inflight : on_failure(m)
    \/ \E p \in Peers : on_connection_established(p)

ClientSpec == ClientInit /\ [][ClientNext]_clientVars

\* The inner behaviour reports on every submission (with_request_timeout and
\* the dial timeout see to that), a timer that is not removed fires, and the
\* swarm keeps polling.  Nothing makes a peer connect or the owner send.
reported(i) == \E m \in inflight : m.id = i /\ (on_success(m) \/ on_failure(m))

ClientFairness ==
    /\ WF_clientVars(poll)
    /\ \A p \in Peers : WF_clientVars(on_timeout(p))
    /\ \A i \in ReqId : WF_clientVars(reported(i))

ClientFairSpec == ClientSpec /\ ClientFairness

(* ------------------------------------------------------------------------ *)
(* Properties                                                               *)
(* ------------------------------------------------------------------------ *)

\* Every variable has its type; in particular every event but PeerUnknown that
\* the handlers queue names a request.
ClientTypeOK ==
    /\ next_id \in 0..MaxIds
    /\ inflight \in SUBSET Submission
    /\ original_requests \in SUBSET ReqId
    /\ waiting_for_connection \in [Peers -> SUBSET ReqId]
    /\ resubmitted_requests \in [ReqId -> ReqId \cup {NoId}]
    /\ lookup_timeouts \in SUBSET Peers
    /\ pending_events \in Seq(Event)
    /\ sent \in [ReqId -> Nat]
    /\ answers \in [ReqId -> Seq(ReqId \cup {NoId})]

\* A request accepted from the owner and not resolved yet.
Open(r) == sent[r] > 0 /\ answers[r] = <<>>

FirstTry(r) == \E m \in inflight : m.id = r /\ m.call = r
Retry(r) == \E m \in inflight : m.id # r /\ m.call = r
Waiting(r) == \E p \in Peers : r \in waiting_for_connection[p]

\* However responses, failures, connections and timers interleave, the final
\* events generated for a request are none, the response to that very request,
\* or one Timeout; the id of a resubmission never reaches the owner.
OneOwnAnswer ==
    \A r \in ReqId :
        /\ answers[r] \in {<<>>, <<r>>, <<NoId>>}
        /\ answers[r] # <<>> => sent[r] > 0

\* An open request is in one place only: with the inner behaviour for the first
\* time, waiting for its peer, or with the inner behaviour for the second time.
\* A copy is kept exactly until the retry, and there is no third submission.
OneStage ==
    \A r \in ReqId :
        /\ Open(r) <=> FirstTry(r) \/ Waiting(r) \/ Retry(r)
        /\ ~(FirstTry(r) /\ Waiting(r))
        /\ ~(FirstTry(r) /\ Retry(r))
        /\ ~(Waiting(r) /\ Retry(r))
        /\ r \in original_requests <=> FirstTry(r) \/ Waiting(r)
        /\ sent[r] <= 2

\* Requests wait for a peer exactly while a timer for its lookup runs: nobody is
\* stranded without a timer, and no stale timer suppresses PeerUnknown or cuts
\* the next lookup short.
LookupArmed ==
    \A p \in Peers : waiting_for_connection[p] # {} <=> p \in lookup_timeouts

\* The result of try_push is ignored (`_ = ...`).  It cannot be an error: the
\* requests that wait, and the one that just failed, are all buffered, so a new
\* lookup always finds room.
PushNeverFails ==
    \A m \in inflight :
        resubmitted_requests[m.id] = NoId /\ m.peer \notin lookup_timeouts
            => Cardinality(lookup_timeouts) < MaxBuffered

(* ------------------------------------------------------------------------ *)
(* The inductive invariant behind the safety properties                     *)
(* ------------------------------------------------------------------------ *)

\* Ids that were not handed out yet are not in use.
FreshIds ==
    /\ \A i \in ReqId : i > next_id =>
          sent[i] = 0 /\ answers[i] = <<>> /\ resubmitted_requests[i] = NoId
    /\ \A m \in inflight : m.id <= next_id /\ m.call <= next_id

\* No two submissions share an id or a request.
OneSubmission ==
    \A m, n \in inflight : m.id = n.id \/ m.call = n.call => m = n

\* The books about a submission that the inner behaviour has.
FirstInv(m) ==
    /\ m.call = m.id
    /\ m.id \in original_requests
    /\ sent[m.id] = 1

RetryInv(m) ==
    /\ m.call = resubmitted_requests[m.id]
    /\ m.call # m.id
    /\ m.call \notin original_requests
    /\ sent[m.call] = 2
    /\ sent[m.id] = 0
    /\ answers[m.id] = <<>>

InflightInv ==
    \A m \in inflight :
        /\ IF resubmitted_requests[m.id] = NoId THEN FirstInv(m) ELSE RetryInv(m)
        /\ answers[m.call] = <<>>
        /\ \A p \in Peers : m.call \notin waiting_for_connection[p]

\* The books about a request that waits for its peer.
WaitingInv ==
    \A p \in Peers : \A r \in waiting_for_connection[p] :
        /\ r \in original_requests
        /\ sent[r] = 1
        /\ answers[r] = <<>>
        /\ \A q \in Peers : r \in waiting_for_connection[q] => q = p

\* No entry of the maps outlives its request.
NoLeak ==
    /\ \A i \in ReqId : resubmitted_requests[i] # NoId => \E m \in inflight : m.id = i
    /\ \A r \in original_requests : FirstTry(r) \/ Waiting(r)

\* No request is lost.
OpenInv ==
    \A r \in ReqId :
        /\ Open(r) => FirstTry(r) \/ Waiting(r) \/ Retry(r)
        /\ sent[r] <= 2

BufferBound == Cardinality(original_requests) <= MaxBuffered

ClientInv ==
    /\ ClientTypeOK
    /\ FreshIds
    /\ OneSubmission
    /\ InflightInv
    /\ WaitingInv
    /\ NoLeak
    /\ OpenInv
    /\ OneOwnAnswer
    /\ LookupArmed
    /\ BufferBound

(* ------------------------------------------------------------------------ *)
(* The service, and liveness                                                *)
(* ------------------------------------------------------------------------ *)

\* RequestService, with the events generated so far as the outcome.
ServiceStatus ==
    [r \in ReqId |->
        IF answers[r] = <<>> THEN IF sent[r] = 0 THEN "unsent" ELSE "open"
        ELSE IF answers[r] = <<r>> THEN "answered"
        ELSE IF answers[r] = <<NoId>> THEN "expired" ELSE "broken"]

Service == INSTANCE RequestService WITH status <- ServiceStatus

\* The retry machinery implements the service the owner relies on.
ImplementsService == Service!Spec

\* Every accepted request is resolved, and the owner gets the event.
EveryRequestResolved ==
    \A r \in ReqId :
        Open(r) ~> /\ answers[r] # <<>>
                   /\ \A k \in 1..Len(pending_events) : pending_events[k].req # r
=============================================================================
