------------------------------- MODULE Gateway -------------------------------
(* The gateway actor (transport/src/actors/gateway.rs) on top of its query    *)
(* client: the user's handle, the bounded queues between the user's tasks and *)
(* the transport task, and GatewayBehaviour, which matches responses with     *)
(* queries.  Workers are not trusted: a response may carry any query id.      *)
(* The transport task runs a swarm event to its end (poll, on_query_event,    *)
(* on_swarm_event, send_lossy) before it looks at anything else, so that is   *)
(* one action.  find_and_dial is in module PeerLookup; here a peer connects   *)
(* at any time or never.  The log client, a second RequestClient whose        *)
(* answers are only logged, is in module Logs.                                *)
EXTENDS RequestClient

CONSTANTS
    QueryId,           \* ids the user gives to queries
    NoQuery,           \* a query whose query_id is None
    QueriesQueueSize,  \* GatewayConfig::queries_queue_size
    EventsQueueSize    \* GatewayConfig::events_queue_size

ASSUME QueueSizesAssumption ==
    QueriesQueueSize \in Nat \ {0} /\ EventsQueueSize \in Nat \ {0}
ASSUME NoQueryAssumption == NoQuery \notin QueryId

VARIABLES
    queries,   \* the queue behind queries_tx and queries_rx
    query_ids, \* request id -> query id, NoQuery where there is no entry
    events,    \* the queue behind events_tx and the user's stream
    asked,     \* history: peer and query of every request, <<>> before
    results,   \* history: the QueryResult events made for a request
    mismatched \* history: requests answered under another query's id

gatewayVars == <<queries, query_ids, events, asked, results, mismatched>>
vars == <<clientVars, gatewayVars>>

\* GatewayEvent in the queue; what a QueryResult says is kept in results.
QueryResult == "QueryResult"
Ping == "Ping"

QueuesEmpty == queries = <<>> /\ events = <<>>

Init ==
    /\ ClientInit
    /\ QueuesEmpty
    /\ query_ids = [r \in ReqId |-> NoQuery]
    /\ asked = [r \in ReqId |-> <<>>]
    /\ results = [r \in ReqId |-> <<>>]
    /\ mismatched = {}

(* ------------------------------------------------------------------------ *)
(* The user's side                                                          *)
(* ------------------------------------------------------------------------ *)

\* GatewayTransportHandle::send_query; a full queue refuses with QueueFull.
handle_send_query(p, q) ==
    /\ Len(queries) < QueriesQueueSize
    /\ queries' = Append(queries, [peer |-> p, query |-> q])
    /\ UNCHANGED <<clientVars, query_ids, events, asked, results, mismatched>>

next_event ==
    /\ events # <<>>
    /\ events' = Tail(events)
    /\ UNCHANGED <<clientVars, queries, query_ids, asked, results, mismatched>>

(* ------------------------------------------------------------------------ *)
(* The transport task                                                       *)
(* ------------------------------------------------------------------------ *)

send_lossy_Unbounded(ev) == events' = Append(events, ev)

\* events_tx.send_lossy: an event that finds the queue full is dropped.
send_lossy(ev) ==
    events' = IF Len(events) < EventsQueueSize THEN Append(events, ev) ELSE events

record_query_Stale(q) == query_ids' = [query_ids EXCEPT ![next_id] = q]

\* query_ids.insert under the id try_send_request returned.
record_query(q) == query_ids' = [query_ids EXCEPT ![next_id'] = q]

\* GatewayBehaviour::send_query on the oldest queued query.  A query without an
\* id and a query that finds the client's buffer full are dropped with a log
\* line only.
send_query ==
    /\ queries # <<>>
    /\ queries' = Tail(queries)
    /\ LET p == Head(queries).peer
           q == Head(queries).query
       IN
       \/ /\ q = NoQuery \/ ~HasRoom
          /\ UNCHANGED <<clientVars, query_ids, asked>>
       \/ /\ q # NoQuery
          /\ try_send_request(p)
          /\ record_query(q)
          /\ asked' = [asked EXCEPT ![next_id'] = <<p, q>>]
    /\ UNCHANGED <<events, results, mismatched>>

ForgetQuery_Keeps(r) == query_ids

\* query_ids.remove
ForgetQuery(r) == [query_ids EXCEPT ![r] = NoQuery]

IdMatches_Unchecked(r, q) == query_ids[r] # NoQuery

\* The id in the response is the one recorded for the request.
IdMatches(r, q) == query_ids[r] # NoQuery /\ query_ids[r] = q

\* The response to request r names query q.
on_query_result(p, r, q) ==
    /\ query_ids' = ForgetQuery(r)
    /\ \/ /\ IdMatches(r, q)
          /\ send_lossy(QueryResult)
          /\ results' = [results EXCEPT ![r] = Append(@, <<p, q>>)]
          /\ UNCHANGED mismatched
       \/ /\ ~IdMatches(r, q)
          /\ mismatched' = mismatched \cup {s \in {r} : asked[s] # <<p, q>>}
          /\ UNCHANGED <<events, results>>

on_query_timeout(p, r) ==
    /\ query_ids' = ForgetQuery(r)
    /\ \/ /\ query_ids[r] # NoQuery
          /\ send_lossy(QueryResult)
          /\ results' = [results EXCEPT ![r] = Append(@, <<p, query_ids[r]>>)]
       \/ /\ query_ids[r] = NoQuery
          /\ UNCHANGED <<events, results>>
    /\ UNCHANGED mismatched

\* The next event of the query client.
on_query_event ==
    /\ poll
    /\ LET ev == Head(pending_events) IN
       \/ /\ ev.kind = "Response"
          /\ \E q \in QueryId : on_query_result(ev.peer, ev.req, q)
       \/ /\ ev.kind = "Timeout"
          /\ on_query_timeout(ev.peer, ev.req)
       \/ /\ ev.kind = "PeerUnknown"
          /\ UNCHANGED <<query_ids, events, results, mismatched>>
    /\ UNCHANGED <<queries, asked>>

\* A ping that arrived over gossip from p, claiming to come from worker w.
on_ping(p, w) ==
    /\ p = w
    /\ send_lossy(Ping)
    /\ UNCHANGED <<clientVars, queries, query_ids, asked, results, mismatched>>

\* The query client's own handlers.
client_step ==
    /\ \/ \E p \in Peers : on_timeout(p) \/ on_connection_established(p)
       \/ \E m \in inflight : on_success(m) \/ on_failure(m)
    /\ UNCHANGED gatewayVars

Next ==
    \/ \E p \in Peers, q \in QueryId \cup {NoQuery} : handle_send_query(p, q)
    \/ next_event
    \/ send_query
    \/ on_query_event
    \/ \E p, w \in Peers : on_ping(p, w)
    \/ client_step

Spec == Init /\ [][Next]_vars

\* The transport task keeps running; the user reads no event and sends no query
\* that it does not want to.
Fairness ==
    /\ WF_vars(on_query_event)
    /\ WF_vars(send_query)
    /\ \A p \in Peers : WF_clientVars(on_timeout(p))
    /\ \A i \in ReqId : WF_clientVars(reported(i))

FairSpec == Spec /\ Fairness

(* ------------------------------------------------------------------------ *)
(* Properties                                                               *)
(* ------------------------------------------------------------------------ *)

\* Every variable has its type and the queues keep to their sizes.
TypeOK ==
    /\ ClientTypeOK
    /\ queries \in Seq([peer : Peers, query : QueryId \cup {NoQuery}])
    /\ Len(queries) <= QueriesQueueSize
    /\ query_ids \in [ReqId -> QueryId \cup {NoQuery}]
    /\ events \in Seq({QueryResult, Ping})
    /\ Len(events) <= EventsQueueSize
    /\ asked \in [ReqId -> {<<>>} \cup (Peers \X QueryId)]
    /\ results \in [ReqId -> Seq(Peers \X QueryId)]
    /\ mismatched \in SUBSET ReqId

\* The user hears at most once about a request, and what it hears names the
\* worker that was asked and the query it was asked, whatever id an untrusted
\* worker put into its response and however often the request was retried.
ResultMatchesQuery ==
    \A r \in ReqId : results[r] # <<>> => results[r] = <<asked[r]>>

Queued(r) == \E k \in 1..Len(pending_events) : pending_events[k].req = r

\* query_ids has an entry for exactly the requests the query client still owes
\* an event for: no entry leaks, and no event meets "Unknown request ID".
QueryIdsAreOpenRequests ==
    \A r \in ReqId : query_ids[r] # NoQuery <=> Open(r) \/ Queued(r)

\* A request is settled by an event for the user; only a worker that answers
\* under another query's id leaves the user without one.
EveryQuerySettled ==
    \A r \in ReqId :
        asked[r] # <<>> ~> results[r] = <<asked[r]>> \/ r \in mismatched
=============================================================================
