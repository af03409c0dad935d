------------------------------- MODULE Worker -------------------------------
(* The worker actor (transport/src/actors/worker.rs): queries that arrive     *)
(* over request_response (request_server.rs), the response channels kept for  *)
(* them by query id, the bounded queues to and from the worker's own tasks.   *)
(* The same query may arrive again: the gateway's client submits a request a  *)
(* second time when it could not tell what became of the first one.           *)
(*                                                                            *)
(* External: request_response, which makes a channel per inbound request and  *)
(* closes it when the requester is gone, and the program that executes        *)
(* queries.  Queries without an id or a valid signature are dropped with      *)
(* their channel and change nothing.  Outgoing pings and logs are published   *)
(* (modules Pubsub and Logs) and leave no state here.                         *)
EXTENDS Integers, Sequences

CONSTANTS
    Peers, Scheduler, LogsCollector,
    QueryId,
    EventsQueueSize, ResultsQueueSize,  \* WorkerConfig
    MaxChannels                         \* bound: inbound query requests

ASSUME SizesAssumption ==
    /\ EventsQueueSize \in Nat \ {0}
    /\ ResultsQueueSize \in Nat \ {0}
    /\ MaxChannels \in Nat
ASSUME RolesAssumption == {Scheduler, LogsCollector} \subseteq Peers

VARIABLES
    query_response_channels,  \* query id -> channel, NoChannel without an entry
    events,                   \* the queue behind events_tx and the user's stream
    results,                  \* the queue behind query_results_tx and _rx
    inbound,                  \* external: the requests, in order of arrival
    open,                     \* external: channels whose requester is waiting
    working,                  \* external: query id -> executions under way
    responses,                \* history: channel -> query ids of its responses
    lost                      \* history: queries of which an event or a result was
                              \* lost, since or with their last request

vars == <<query_response_channels, events, results, inbound, open, working,
          responses, lost>>

NoChannel == 0
Channel == 1..MaxChannels
NoQuery == "none"

QueuesEmpty == events = <<>> /\ results = <<>>

Init ==
    /\ QueuesEmpty
    /\ query_response_channels = [q \in QueryId |-> NoChannel]
    /\ inbound = <<>>
    /\ open = {}
    /\ working = [q \in QueryId |-> 0]
    /\ responses = [c \in Channel |-> <<>>]
    /\ lost = {}

(* ------------------------------------------------------------------------ *)
(* The transport task                                                       *)
(* ------------------------------------------------------------------------ *)

HasRoom == Len(events) < EventsQueueSize

send_lossy_Unbounded(ev) == events' = Append(events, ev)

send_lossy_DropsOldest(ev) ==
    events' = Append(IF HasRoom THEN events ELSE Tail(events), ev)

\* events_tx.send_lossy
send_lossy(ev) == events' = IF HasRoom THEN Append(events, ev) ELSE events

keep_channel_First(q, c) ==
    query_response_channels' = [query_response_channels EXCEPT
        ![q] = IF @ = NoChannel THEN c ELSE @]

\* query_response_channels.insert
keep_channel(q, c) ==
    query_response_channels' = [query_response_channels EXCEPT ![q] = c]

\* A verified query arrives.  Of its channel and the one on record for the query
\* one is kept; the other is dropped, which closes it.  A full queue drops the
\* event but not the channel.
on_query(p, q) ==
    LET c == Len(inbound) + 1 IN
    /\ c <= MaxChannels
    /\ inbound' = Append(inbound, [peer |-> p, query |-> q])
    /\ keep_channel(q, c)
    /\ open' = (open \cup {c}) \
                 ({c, query_response_channels[q]} \ {query_response_channels'[q]})
    /\ send_lossy([kind |-> "Query", query |-> q])
    /\ lost' = IF HasRoom THEN lost \ {q} ELSE lost \cup {q}
    /\ UNCHANGED <<results, working, responses>>

\* Pongs count only from the scheduler, collected logs only from the collector.
on_pong_event(p) ==
    /\ p = Scheduler
    /\ send_lossy([kind |-> "Pong", query |-> NoQuery])
    /\ UNCHANGED <<query_response_channels, results, inbound, open, working,
                   responses, lost>>

on_logs_collected(p) ==
    /\ p = LogsCollector
    /\ send_lossy([kind |-> "LogsCollected", query |-> NoQuery])
    /\ UNCHANGED <<query_response_channels, results, inbound, open, working,
                   responses, lost>>

TakeChannel_Copies(q) == query_response_channels

\* query_response_channels.remove
TakeChannel(q) == [query_response_channels EXCEPT ![q] = NoChannel]

\* WorkerBehaviour::send_query_result on the oldest queued result.  Without a
\* channel, or if the requester is gone, the result is dropped.
send_query_result ==
    /\ results # <<>>
    /\ results' = Tail(results)
    /\ LET q == Head(results)
           c == query_response_channels[q]
       IN
       /\ query_response_channels' = TakeChannel(q)
       /\ open' = open \ {c}
       /\ responses' = [r \in Channel |->
             IF r = c /\ c \in open THEN Append(responses[r], q) ELSE responses[r]]
    /\ UNCHANGED <<events, inbound, working, lost>>

(* ------------------------------------------------------------------------ *)
(* The requester and the worker's own tasks                                 *)
(* ------------------------------------------------------------------------ *)

\* The connection breaks or the requester gives up.
requester_gone(c) ==
    /\ c \in open
    /\ open' = open \ {c}
    /\ UNCHANGED <<query_response_channels, events, results, inbound, working,
                   responses, lost>>

take_event ==
    /\ events # <<>>
    /\ events' = Tail(events)
    /\ working' = [q \in QueryId |->
          IF Head(events).query = q THEN working[q] + 1 ELSE working[q]]
    /\ UNCHANGED <<query_response_channels, results, inbound, open, responses, lost>>

\* WorkerTransportHandle::send_query_result; a full queue refuses with QueueFull
\* and the result is lost.
finish(q) ==
    /\ working[q] > 0
    /\ working' = [working EXCEPT ![q] = @ - 1]
    /\ \/ /\ Len(results) < ResultsQueueSize
          /\ results' = Append(results, q)
          /\ UNCHANGED lost
       \/ /\ Len(results) >= ResultsQueueSize
          /\ lost' = lost \cup {q}
          /\ UNCHANGED results
    /\ UNCHANGED <<query_response_channels, events, inbound, open, responses>>

Next ==
    \/ \E p \in Peers, q \in QueryId : on_query(p, q)
    \/ \E p \in Peers : on_pong_event(p)
    \/ \E p \in Peers : on_logs_collected(p)
    \/ send_query_result
    \/ \E c \in Channel : requester_gone(c)
    \/ take_event
    \/ \E q \in QueryId : finish(q)

Spec == Init /\ [][Next]_vars

\* The transport's select! gets to the results, and the worker's user reads its
\* events and ends each execution.  Requesters need not leave or repeat.
Fairness ==
    /\ WF_vars(send_query_result)
    /\ WF_vars(take_event)
    /\ \A q \in QueryId : WF_vars(finish(q))

FairSpec == Spec /\ Fairness

(* ------------------------------------------------------------------------ *)
(* Properties                                                               *)
(* ------------------------------------------------------------------------ *)

\* Every variable has its type and the queues keep to their sizes.
TypeOK ==
    /\ query_response_channels \in [QueryId -> Channel \cup {NoChannel}]
    /\ events \in Seq([kind : {"Query", "Pong", "LogsCollected"},
                       query : QueryId \cup {NoQuery}])
    /\ Len(events) <= EventsQueueSize
    /\ results \in Seq(QueryId)
    /\ Len(results) <= ResultsQueueSize
    /\ inbound \in Seq([peer : Peers, query : QueryId])
    /\ open \in SUBSET Channel
    /\ working \in [QueryId -> Nat]
    /\ responses \in [Channel -> Seq(QueryId)]
    /\ lost \in SUBSET QueryId

\* The channel kept for a query is that of the request for it that came last, so
\* a repeated request, whose predecessor the requester has given up, gets the
\* result; and a requester gets one response at most, to its own query.
ResponseToLastRequest ==
    /\ \A q \in QueryId : LET c == query_response_channels[q] IN
          c # NoChannel =>
             /\ inbound[c].query = q
             /\ \A d \in 1..Len(inbound) : inbound[d].query = q => d <= c
    /\ \A c \in Channel :
          responses[c] # <<>> => responses[c] = <<inbound[c].query>>

Pending(q) ==
    \/ \E k \in 1..Len(events) : events[k].query = q
    \/ working[q] > 0
    \/ \E k \in 1..Len(results) : results[k] = q

\* A channel is kept only as long as a result for it can still come: however
\* often a query is repeated, and whichever execution finishes first, an entry
\* stays behind only where a full queue lost the event of the last request for
\* the query, or a result since.
ChannelsNotLeaked ==
    \A q \in QueryId :
        query_response_channels[q] # NoChannel => Pending(q) \/ q \in lost

\* A requester does not wait for ever while the worker works: it is answered, or
\* its channel is closed because the query was repeated, or it left, or nothing
\* that could answer it remains and that is because a full queue lost its event
\* or its result.  Other events and other queries cannot keep it waiting.
RequesterAnswered ==
    \A c \in Channel :
        c \in open ~>
            \/ c \notin open
            \/ LET q == inbound[c].query IN q \in lost /\ ~Pending(q)
=============================================================================
