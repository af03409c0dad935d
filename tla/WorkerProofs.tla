---------------------------- MODULE WorkerProofs ----------------------------
(* The worker's response channels, for any queries, queue sizes and number of *)
(* inbound requests.                                                          *)
EXTENDS Worker, SequenceTheorems, TLAPS

(* ------------------------------------------------------------------------ *)
(* The inductive invariant                                                  *)
(* ------------------------------------------------------------------------ *)

\* Channels exist for the requests that came in, and a channel that is still
\* open, or not yet made, has had no response.
ChannelsMade ==
    /\ Len(inbound) <= MaxChannels
    /\ open \subseteq 1..Len(inbound)
    /\ \A q \in QueryId : query_response_channels[q] <= Len(inbound)
    /\ \A c \in Channel : c \in open \/ c > Len(inbound) => responses[c] = <<>>

\* A requester that waits has its channel on record: the others are dropped, and
\* so closed.  Rust's ownership gives this; what it is good for is the step from
\* the channels on record to the requesters (WaiterServed).
WaitingOnRecord ==
    \A c \in open : query_response_channels[inbound[c].query] = c

WorkerInv ==
    /\ TypeOK
    /\ ChannelsMade
    /\ ResponseToLastRequest
    /\ ChannelsNotLeaked
    /\ WaitingOnRecord

(* ------------------------------------------------------------------------ *)
(* Lemmas about the queues                                                  *)
(* ------------------------------------------------------------------------ *)

Event == [kind : {"Query", "Pong", "LogsCollected"}, query : QueryId \cup {NoQuery}]

\* What send_lossy leaves: a queue within its size, which starts with what was
\* there, and ends with the new event if there was room.
LEMMA SendLossy ==
    ASSUME TypeOK, NEW ev \in Event, send_lossy(ev)
    PROVE  /\ events' \in Seq(Event)
           /\ Len(events') <= EventsQueueSize
           /\ \A i \in 1..Len(events) : i \in 1..Len(events') /\ events'[i] = events[i]
           /\ HasRoom => \E i \in 1..Len(events') : events'[i] = ev
<1>1. /\ events \in Seq(Event) /\ Len(events) \in Nat
      /\ Len(events) <= EventsQueueSize /\ EventsQueueSize \in Nat
  BY LenProperties, SizesAssumption DEF TypeOK, Event
<1>2. CASE HasRoom
  <2>1. events' = Append(events, ev)
    BY <1>2 DEF send_lossy
  <2>2. /\ events' \in Seq(Event)
        /\ Len(events') = Len(events) + 1
        /\ \A i \in 1..Len(events) : events'[i] = events[i]
        /\ events'[Len(events) + 1] = ev
    BY <1>1, <2>1, AppendProperties
  <2>3. Len(events) + 1 \in 1..Len(events')
    BY <1>1, <2>2
  <2> QED
    BY <1>1, <1>2, <2>2, <2>3 DEF HasRoom
<1>3. CASE ~HasRoom
  <2>1. events' = events
    BY <1>3 DEF send_lossy
  <2> QED
    BY <1>1, <1>3, <2>1
<1> QED
  BY <1>2, <1>3

\* A query that was pending is so while its event, its executions and its
\* results are all kept.
LEMMA StillPending ==
    ASSUME NEW q \in QueryId, Pending(q),
           \A i \in 1..Len(events) : i \in 1..Len(events') /\ events'[i] = events[i],
           UNCHANGED <<working, results>>
    PROVE  Pending(q)'
BY DEF Pending

\* Every request that came in is for a query.
LEMMA InboundQuery ==
    ASSUME TypeOK, NEW c \in 1..Len(inbound)
    PROVE  inbound[c].query \in QueryId
<1>1. inbound \in Seq([peer : Peers, query : QueryId])
  BY DEF TypeOK
<1>2. inbound[c] \in [peer : Peers, query : QueryId]
  BY <1>1, ElementOfSeq
<1> QED
  BY <1>2

\* The first response on a channel.
LEMMA FirstResponse == \A q \in QueryId : Append(<<>>, q) = <<q>>
OBVIOUS

(* ------------------------------------------------------------------------ *)
(* The steps                                                                *)
(* ------------------------------------------------------------------------ *)

\* No request has come in.
LEMMA InitInv == Init => WorkerInv
<1> SUFFICES ASSUME Init PROVE WorkerInv
  OBVIOUS
<1>1. TypeOK
  BY EmptySeq, SizesAssumption DEF Init, TypeOK, QueuesEmpty, Channel, NoChannel
<1>2. ChannelsMade
  BY SizesAssumption DEF Init, ChannelsMade, Channel, NoChannel
<1> QED
  BY <1>1, <1>2 DEF Init, WorkerInv, ResponseToLastRequest, ChannelsNotLeaked, WaitingOnRecord

\* An event that is no query leaves the channels and what is pending alone.
LEMMA OtherEventKeepsInv ==
    ASSUME WorkerInv, NEW ev \in Event, send_lossy(ev),
           UNCHANGED <<query_response_channels, results, inbound, open, working,
                       responses, lost>>
    PROVE  WorkerInv'
<1>1. TypeOK'
  BY SendLossy DEF WorkerInv, TypeOK, Event
<1>2. ChannelsMade' /\ ResponseToLastRequest' /\ WaitingOnRecord'
  BY DEF WorkerInv, ChannelsMade, ResponseToLastRequest, WaitingOnRecord
<1>3. ChannelsNotLeaked'
  <2> SUFFICES ASSUME NEW q \in QueryId, query_response_channels[q] # NoChannel
               PROVE  (Pending(q) \/ q \in lost)'
    BY DEF ChannelsNotLeaked
  <2>1. Pending(q) \/ q \in lost
    BY DEF WorkerInv, ChannelsNotLeaked
  <2>2. Pending(q) => Pending(q)'
    BY SendLossy, StillPending DEF WorkerInv
  <2> QED
    BY <2>1, <2>2
<1> QED
  BY <1>1, <1>2, <1>3 DEF WorkerInv

\* A query arrives: its channel is the newest and takes the place of the last.
LEMMA QueryKeepsInv ==
    ASSUME WorkerInv, NEW p \in Peers, NEW q \in QueryId, on_query(p, q)
    PROVE  WorkerInv'
<1> DEFINE n == Len(inbound)
           ev == [kind |-> "Query", query |-> q]
<1>1. /\ n \in Nat /\ MaxChannels \in Nat /\ n + 1 <= MaxChannels /\ n + 1 \in Channel
      /\ inbound \in Seq([peer : Peers, query : QueryId])
  BY LenProperties, SizesAssumption DEF WorkerInv, TypeOK, on_query, Channel
<1>2. /\ inbound' \in Seq([peer : Peers, query : QueryId])
      /\ Len(inbound') = n + 1
      /\ \A i \in 1..n : inbound'[i] = inbound[i]
      /\ inbound'[n + 1] = [peer |-> p, query |-> q]
  BY <1>1, AppendProperties DEF on_query
<1>3. /\ query_response_channels \in [QueryId -> Channel \cup {NoChannel}]
      /\ query_response_channels' = [query_response_channels EXCEPT ![q] = n + 1]
      /\ open' = (open \cup {n + 1}) \ {query_response_channels[q]}
      /\ UNCHANGED <<results, working, responses>>
      /\ lost' = IF HasRoom THEN lost \ {q} ELSE lost \cup {q}
  <2>1. /\ query_response_channels \in [QueryId -> Channel \cup {NoChannel}]
        /\ query_response_channels' = [query_response_channels EXCEPT ![q] = n + 1]
    BY DEF WorkerInv, TypeOK, on_query, keep_channel
  <2>2. query_response_channels[q] # n + 1 /\ query_response_channels'[q] = n + 1
    <3>1. query_response_channels[q] <= n
      BY DEF WorkerInv, ChannelsMade
    <3>2. query_response_channels[q] \in Int
      BY <2>1 DEF Channel, NoChannel
    <3>3. query_response_channels'[q] = n + 1
      BY <2>1
    <3> QED
      BY <1>1, <3>1, <3>2, <3>3
  <2>3. open' = (open \cup {n + 1}) \
                  ({n + 1, query_response_channels[q]} \ {query_response_channels'[q]})
    BY DEF on_query
  <2>4. open' = (open \cup {n + 1}) \ {query_response_channels[q]}
    BY <2>2, <2>3
  <2> QED
    BY <2>1, <2>4 DEF on_query
<1>4. ev \in Event /\ send_lossy(ev)
  BY DEF on_query, Event
<1>5. TypeOK'
  <2>1. events' \in Seq(Event) /\ Len(events') <= EventsQueueSize
    BY <1>4, SendLossy DEF WorkerInv
  <2>2. open' \in SUBSET Channel
    BY <1>1, <1>3 DEF WorkerInv, TypeOK
  <2>3. query_response_channels' \in [QueryId -> Channel \cup {NoChannel}]
    BY <1>1, <1>3
  <2>4. lost' \in SUBSET QueryId
    BY <1>3 DEF WorkerInv, TypeOK
  <2> QED
    BY <1>2, <1>3, <2>1, <2>2, <2>3, <2>4 DEF WorkerInv, TypeOK, Event
<1>6. ChannelsMade'
  <2>1. open' \subseteq 1..(n + 1)
    <3>1. open \subseteq 1..n
      BY DEF WorkerInv, ChannelsMade
    <3>2. ASSUME NEW c \in open' PROVE c \in 1..(n + 1)
      <4>1. c \in 1..n \/ c = n + 1
        BY <1>3, <3>1
      <4> QED
        BY <1>1, <4>1
    <3> QED
      BY <3>2
  <2>2. \A x \in QueryId : query_response_channels'[x] <= n + 1
    BY <1>1, <1>3 DEF WorkerInv, ChannelsMade, Channel, NoChannel
  <2>3. ASSUME NEW c \in Channel, c \in open' \/ c > n + 1 PROVE responses[c] = <<>>
    BY <1>1, <1>3, <2>3 DEF WorkerInv, ChannelsMade, Channel
  <2> QED
    BY <1>1, <1>2, <1>3, <2>1, <2>2, <2>3 DEF ChannelsMade
<1>7. ResponseToLastRequest'
  <2>1. ASSUME NEW x \in QueryId, query_response_channels'[x] # NoChannel
        PROVE  LET c == query_response_channels'[x] IN
               /\ inbound'[c].query = x
               /\ \A d \in 1..Len(inbound') : inbound'[d].query = x => d <= c
    <3>1. CASE x = q
      BY <1>1, <1>2, <1>3, <3>1
    <3>2. CASE x # q
      <4> DEFINE c == query_response_channels[x]
      <4>1. query_response_channels'[x] = c /\ c \in 1..n
        BY <1>1, <1>3, <2>1, <3>2 DEF WorkerInv, ChannelsMade, Channel, NoChannel
      <4>2. /\ inbound[c].query = x
            /\ \A d \in 1..n : inbound[d].query = x => d <= c
        BY <2>1, <4>1 DEF WorkerInv, ResponseToLastRequest
      <4>3. inbound'[c].query = x
        BY <1>2, <4>1, <4>2
      <4>4. ASSUME NEW d \in 1..Len(inbound'), inbound'[d].query = x PROVE d <= c
        <5>1. d # n + 1
          BY <1>2, <3>2, <4>4
        <5>2. d \in 1..n /\ inbound[d].query = x
          BY <1>1, <1>2, <4>4, <5>1
        <5> QED
          BY <4>2, <5>2
      <4> QED
        BY <4>1, <4>3, <4>4
    <3> QED
      BY <3>1, <3>2
  <2>2. ASSUME NEW c \in Channel, responses[c] # <<>>
        PROVE  responses[c] = <<inbound'[c].query>>
    <3>1. c \in 1..n
      BY <1>1, <2>2 DEF WorkerInv, ChannelsMade, Channel
    <3> QED
      BY <1>2, <2>2, <3>1 DEF WorkerInv, ResponseToLastRequest
  <2> QED
    BY <1>3, <2>1, <2>2 DEF ResponseToLastRequest
<1>8. ChannelsNotLeaked'
  <2> SUFFICES ASSUME NEW x \in QueryId, query_response_channels'[x] # NoChannel
               PROVE  (Pending(x) \/ x \in lost)'
    BY DEF ChannelsNotLeaked
  <2>1. CASE x = q
    <3>1. HasRoom => \E i \in 1..Len(events') : events'[i].query = q
      BY <1>4, SendLossy DEF WorkerInv
    <3> QED
      BY <1>3, <2>1, <3>1 DEF Pending
  <2>2. CASE x # q
    <3>1. Pending(x) \/ x \in lost
      BY <1>3, <2>2 DEF WorkerInv, ChannelsNotLeaked
    <3>2. Pending(x) => Pending(x)'
      BY <1>3, <1>4, SendLossy, StillPending DEF WorkerInv
    <3> QED
      BY <1>3, <2>2, <3>1, <3>2
  <2> QED
    BY <2>1, <2>2
<1>9. WaitingOnRecord'
  <2> SUFFICES ASSUME NEW c \in open'
               PROVE  query_response_channels'[inbound'[c].query] = c
    BY DEF WaitingOnRecord
  <2>1. CASE c = n + 1
    BY <1>2, <1>3, <2>1
  <2>2. CASE c # n + 1
    <3>1. c \in open /\ c # query_response_channels[q] /\ c \in 1..n
      BY <1>3, <2>2 DEF WorkerInv, ChannelsMade
    <3>2. inbound'[c] = inbound[c] /\ inbound[c].query \in QueryId
      BY <1>2, <3>1, InboundQuery DEF WorkerInv
    <3>3. query_response_channels[inbound[c].query] = c
      BY <3>1 DEF WorkerInv, WaitingOnRecord
    <3> QED
      BY <1>3, <3>1, <3>2, <3>3
  <2> QED
    BY <2>1, <2>2
<1> QED
  BY <1>5, <1>6, <1>7, <1>8, <1>9 DEF WorkerInv

\* A result goes out on the channel kept for its query, if there is one.
LEMMA ResultKeepsInv ==
    ASSUME WorkerInv, send_query_result
    PROVE  WorkerInv'
<1> DEFINE q == Head(results)
           c == query_response_channels[q]
<1>1. /\ q \in QueryId
      /\ results' \in Seq(QueryId)
      /\ Len(results') = Len(results) - 1
      /\ \A i \in 1..Len(results') : results'[i] = results[i + 1]
      /\ results[1] = q
      /\ Len(results) \in Nat
      /\ Len(results) <= ResultsQueueSize
      /\ ResultsQueueSize \in Nat
  BY HeadTailProperties, LenProperties, SizesAssumption DEF WorkerInv, TypeOK, send_query_result
<1>2. /\ query_response_channels \in [QueryId -> Channel \cup {NoChannel}]
      /\ query_response_channels' = [query_response_channels EXCEPT ![q] = NoChannel]
      /\ open' = open \ {c}
      /\ responses' = [r \in Channel |->
            IF r = c /\ c \in open THEN Append(responses[r], q) ELSE responses[r]]
      /\ UNCHANGED <<events, inbound, working, lost>>
  BY DEF WorkerInv, TypeOK, send_query_result, TakeChannel
<1>3. c \in open => responses[c] = <<>> /\ inbound[c].query = q
  <2>1. c \in open => c \in Channel /\ c # NoChannel
    <3>1. open \in SUBSET Channel /\ NoChannel \notin Channel
      BY DEF WorkerInv, TypeOK, Channel, NoChannel
    <3> QED
      BY <3>1
  <2> QED
    BY <1>1, <2>1 DEF WorkerInv, ChannelsMade, ResponseToLastRequest
<1>4. TypeOK'
  <2>1. responses' \in [Channel -> Seq(QueryId)]
    BY <1>1, <1>2, AppendProperties DEF WorkerInv, TypeOK
  <2>2. query_response_channels' \in [QueryId -> Channel \cup {NoChannel}]
    BY <1>2
  <2>3. Len(results') <= ResultsQueueSize
    BY <1>1
  <2> QED
    BY <1>1, <1>2, <2>1, <2>2, <2>3 DEF WorkerInv, TypeOK
<1>5. ChannelsMade'
  <2>1. \A x \in QueryId : query_response_channels'[x] <= Len(inbound)
    BY <1>2, LenProperties DEF WorkerInv, TypeOK, ChannelsMade, NoChannel
  <2>2. ASSUME NEW d \in Channel, d \in open' \/ d > Len(inbound) PROVE responses'[d] = <<>>
    <3>1. responses[d] = <<>>
      BY <1>2, <2>2 DEF WorkerInv, ChannelsMade
    <3>2. d # c \/ c \notin open
      BY <1>2, <2>2, LenProperties DEF WorkerInv, ChannelsMade, TypeOK, Channel
    <3> QED
      BY <1>2, <3>1, <3>2
  <2> QED
    BY <1>2, <2>1, <2>2 DEF WorkerInv, ChannelsMade
<1>6. ResponseToLastRequest'
  <2>1. ASSUME NEW x \in QueryId, query_response_channels'[x] # NoChannel
        PROVE  query_response_channels'[x] = query_response_channels[x]
    BY <1>1, <1>2, <2>1
  <2>2. ASSUME NEW d \in Channel, responses'[d] # <<>>
        PROVE  responses'[d] = <<inbound[d].query>>
    <3>1. CASE d = c /\ c \in open
      <4>1. responses'[d] = Append(<<>>, q)
        BY <1>2, <1>3, <3>1
      <4> QED
        BY <1>1, <1>3, <3>1, <4>1, FirstResponse
    <3>2. CASE ~(d = c /\ c \in open)
      BY <1>2, <2>2, <3>2 DEF WorkerInv, ResponseToLastRequest
    <3> QED
      BY <3>1, <3>2
  <2> QED
    BY <1>2, <2>1, <2>2 DEF WorkerInv, ResponseToLastRequest
<1>7. ChannelsNotLeaked'
  <2> SUFFICES ASSUME NEW x \in QueryId, query_response_channels'[x] # NoChannel
               PROVE  (Pending(x) \/ x \in lost)'
    BY DEF ChannelsNotLeaked
  <2>1. x # q /\ (Pending(x) \/ x \in lost)
    BY <1>1, <1>2 DEF WorkerInv, ChannelsNotLeaked
  <2>2. ASSUME NEW k \in 1..Len(results), results[k] = x
        PROVE  \E i \in 1..Len(results') : results'[i] = x
    <3>1. k - 1 \in 1..Len(results') /\ results'[k - 1] = results[k]
      BY <1>1, <2>1, <2>2
    <3> QED
      BY <2>2, <3>1
  <2> QED
    BY <1>2, <2>1, <2>2 DEF Pending
<1>8. WaitingOnRecord'
  <2> SUFFICES ASSUME NEW d \in open'
               PROVE  query_response_channels'[inbound[d].query] = d
    BY <1>2 DEF WaitingOnRecord
  <2>1. d \in open /\ d # c /\ query_response_channels[inbound[d].query] = d
    BY <1>2 DEF WorkerInv, WaitingOnRecord
  <2>2. inbound[d].query \in QueryId
    BY <2>1, InboundQuery DEF WorkerInv, ChannelsMade
  <2> QED
    BY <1>2, <2>1, <2>2
<1> QED
  BY <1>4, <1>5, <1>6, <1>7, <1>8 DEF WorkerInv

\* A requester that is gone leaves its channel on record.
LEMMA GoneKeepsInv ==
    ASSUME WorkerInv, NEW c \in Channel, requester_gone(c)
    PROVE  WorkerInv'
<1>1. TypeOK'
  BY DEF WorkerInv, TypeOK, requester_gone
<1>2. ChannelsMade' /\ ResponseToLastRequest' /\ WaitingOnRecord'
  BY DEF WorkerInv, ChannelsMade, ResponseToLastRequest, WaitingOnRecord, requester_gone
<1>3. ChannelsNotLeaked'
  BY DEF WorkerInv, ChannelsNotLeaked, Pending, requester_gone
<1> QED
  BY <1>1, <1>2, <1>3 DEF WorkerInv

\* An event that is taken from the queue is an execution from then on.
LEMMA TakeKeepsInv ==
    ASSUME WorkerInv, take_event
    PROVE  WorkerInv'
<1>1. /\ events' \in Seq(Event)
      /\ Len(events') = Len(events) - 1
      /\ \A i \in 1..Len(events') : events'[i] = events[i + 1]
      /\ events[1] = Head(events)
      /\ Len(events) \in Nat
      /\ Len(events) <= EventsQueueSize
      /\ EventsQueueSize \in Nat
  BY HeadTailProperties, LenProperties, SizesAssumption DEF WorkerInv, TypeOK, take_event, Event
<1>2. /\ working \in [QueryId -> Nat]
      /\ working' = [q \in QueryId |->
            IF Head(events).query = q THEN working[q] + 1 ELSE working[q]]
      /\ UNCHANGED <<query_response_channels, results, inbound, open, responses, lost>>
  BY DEF WorkerInv, TypeOK, take_event
<1>3. TypeOK'
  <2>1. working' \in [QueryId -> Nat]
    BY <1>2
  <2>2. Len(events') <= EventsQueueSize
    BY <1>1
  <2> QED
    BY <1>1, <1>2, <2>1, <2>2 DEF WorkerInv, TypeOK, Event
<1>4. ChannelsMade' /\ ResponseToLastRequest' /\ WaitingOnRecord'
  BY <1>2 DEF WorkerInv, ChannelsMade, ResponseToLastRequest, WaitingOnRecord
<1>5. ChannelsNotLeaked'
  <2> SUFFICES ASSUME NEW x \in QueryId, query_response_channels[x] # NoChannel
               PROVE  (Pending(x) \/ x \in lost)'
    BY <1>2 DEF ChannelsNotLeaked
  <2>1. Pending(x) \/ x \in lost
    BY DEF WorkerInv, ChannelsNotLeaked
  <2>2. working[x] > 0 => working'[x] > 0
    BY <1>2
  <2>3. ASSUME NEW k \in 1..Len(events), events[k].query = x
        PROVE  working'[x] > 0 \/ \E i \in 1..Len(events') : events'[i].query = x
    <3>1. CASE k = 1
      BY <1>1, <1>2, <2>3, <3>1
    <3>2. CASE k # 1
      <4>1. k - 1 \in 1..Len(events') /\ events'[k - 1] = events[k]
        BY <1>1, <3>2
      <4> QED
        BY <2>3, <4>1
    <3> QED
      BY <3>1, <3>2
  <2> QED
    BY <1>2, <2>1, <2>2, <2>3 DEF Pending
<1> QED
  BY <1>3, <1>4, <1>5 DEF WorkerInv

\* An execution ends in a queued result or, where the queue is full, a lost one.
LEMMA FinishKeepsInv ==
    ASSUME WorkerInv, NEW q \in QueryId, finish(q)
    PROVE  WorkerInv'
<1>1. /\ results \in Seq(QueryId) /\ Len(results) \in Nat
      /\ Len(results) <= ResultsQueueSize /\ ResultsQueueSize \in Nat
      /\ working \in [QueryId -> Nat]
  BY LenProperties, SizesAssumption DEF WorkerInv, TypeOK
<1>2. /\ working' = [working EXCEPT ![q] = @ - 1]
      /\ working[q] > 0
      /\ UNCHANGED <<query_response_channels, events, inbound, open, responses>>
  BY DEF finish
<1>3. /\ results' \in Seq(QueryId)
      /\ Len(results') <= ResultsQueueSize
      /\ lost \subseteq lost' /\ lost' \in SUBSET QueryId
      /\ \A i \in 1..Len(results) : i \in 1..Len(results') /\ results'[i] = results[i]
      /\ q \in lost' \/ \E i \in 1..Len(results') : results'[i] = q
  <2>1. CASE Len(results) < ResultsQueueSize /\ results' = Append(results, q) /\ UNCHANGED lost
    <3>1. /\ results' \in Seq(QueryId)
          /\ Len(results') = Len(results) + 1
          /\ \A i \in 1..Len(results) : results'[i] = results[i]
          /\ results'[Len(results) + 1] = q
      BY <1>1, <2>1, AppendProperties
    <3>2. Len(results) + 1 \in 1..Len(results')
      BY <1>1, <3>1
    <3>3. Len(results') <= ResultsQueueSize
      BY <1>1, <2>1, <3>1
    <3>4. lost \subseteq lost' /\ lost' \in SUBSET QueryId
      BY <2>1 DEF WorkerInv, TypeOK
    <3>5. \A i \in 1..Len(results) : i \in 1..Len(results')
      BY <1>1, <3>1
    <3> QED
      BY <3>1, <3>2, <3>3, <3>4, <3>5
  <2>2. CASE Len(results) >= ResultsQueueSize /\ lost' = lost \cup {q} /\ UNCHANGED results
    BY <1>1, <2>2 DEF WorkerInv, TypeOK
  <2> QED
    BY <2>1, <2>2 DEF finish
<1>4. TypeOK'
  <2>1. working' \in [QueryId -> Nat]
    BY <1>1, <1>2
  <2> QED
    BY <1>2, <1>3, <2>1 DEF WorkerInv, TypeOK
<1>5. ChannelsMade' /\ ResponseToLastRequest' /\ WaitingOnRecord'
  BY <1>2 DEF WorkerInv, ChannelsMade, ResponseToLastRequest, WaitingOnRecord
<1>6. ChannelsNotLeaked'
  <2> SUFFICES ASSUME NEW x \in QueryId, query_response_channels[x] # NoChannel
               PROVE  (Pending(x) \/ x \in lost)'
    BY <1>2 DEF ChannelsNotLeaked
  <2>1. Pending(x) \/ x \in lost
    BY DEF WorkerInv, ChannelsNotLeaked
  <2>2. CASE x = q
    BY <1>3, <2>2 DEF Pending
  <2>3. CASE x # q
    <3>1. working'[x] = working[x]
      BY <1>1, <1>2, <2>3
    <3> QED
      BY <1>2, <1>3, <2>1, <3>1 DEF Pending
  <2> QED
    BY <2>2, <2>3
<1> QED
  BY <1>4, <1>5, <1>6 DEF WorkerInv

\* Every step of the worker, the requesters and the user keeps the invariant.
LEMMA NextKeepsInv == WorkerInv /\ [Next]_vars => WorkerInv'
<1> SUFFICES ASSUME WorkerInv, [Next]_vars PROVE WorkerInv'
  OBVIOUS
<1>1. CASE \E p \in Peers, q \in QueryId : on_query(p, q)
  BY <1>1, QueryKeepsInv
<1>2. CASE \E p \in Peers : on_pong_event(p)
  <2>1. [kind |-> "Pong", query |-> NoQuery] \in Event
    BY DEF Event
  <2> QED
    BY <1>2, <2>1, OtherEventKeepsInv DEF on_pong_event
<1>3. CASE \E p \in Peers : on_logs_collected(p)
  <2>1. [kind |-> "LogsCollected", query |-> NoQuery] \in Event
    BY DEF Event
  <2> QED
    BY <1>3, <2>1, OtherEventKeepsInv DEF on_logs_collected
<1>4. CASE send_query_result
  BY <1>4, ResultKeepsInv
<1>5. CASE \E c \in Channel : requester_gone(c)
  BY <1>5, GoneKeepsInv
<1>6. CASE take_event
  BY <1>6, TakeKeepsInv
<1>7. CASE \E q \in QueryId : finish(q)
  BY <1>7, FinishKeepsInv
<1>8. CASE UNCHANGED vars
  BY <1>8 DEF vars, WorkerInv, TypeOK, ChannelsMade, ResponseToLastRequest,
              ChannelsNotLeaked, Pending, WaitingOnRecord
<1> QED
  BY <1>1, <1>2, <1>3, <1>4, <1>5, <1>6, <1>7, <1>8 DEF Next

(* ------------------------------------------------------------------------ *)
(* The theorems                                                             *)
(* ------------------------------------------------------------------------ *)

\* The worker actor keeps the inductive invariant.
THEOREM WorkerInvariant == Spec => []WorkerInv
BY InitInv, NextKeepsInv, PTL DEF Spec

\* The variables have their types and the events and results queues of
\* worker.rs never hold more than their sizes.
THEOREM WorkerTyping == Spec => []TypeOK
<1>1. WorkerInv => TypeOK
  BY DEF WorkerInv
<1> QED
  BY <1>1, WorkerInvariant, PTL

\* However often a query is repeated and whatever order its executions finish
\* in, query_response_channels holds the channel of its last request, and no
\* requester is sent a second response or the result of another query.
THEOREM LastRequestAnswered == Spec => []ResponseToLastRequest
<1>1. WorkerInv => ResponseToLastRequest
  BY DEF WorkerInv
<1> QED
  BY <1>1, WorkerInvariant, PTL

\* query_response_channels keeps an entry only while its result can still come,
\* or after a full queue lost the event of the last request or a result since.
THEOREM NoChannelLeak == Spec => []ChannelsNotLeaked
<1>1. WorkerInv => ChannelsNotLeaked
  BY DEF WorkerInv
<1> QED
  BY <1>1, WorkerInvariant, PTL

\* The safety half of RequesterAnswered: a requester waits only while its query is
\* queued, executing or about to be answered, unless its event, or a result for
\* its query since it came, was lost at a full queue.
THEOREM WaiterServed ==
    Spec => [](\A c \in open : LET q == inbound[c].query IN Pending(q) \/ q \in lost)
<1>1. ASSUME WorkerInv, NEW c \in open
      PROVE  LET q == inbound[c].query IN Pending(q) \/ q \in lost
  <2>1. c \in 1..Len(inbound) /\ c # NoChannel
    BY <1>1 DEF WorkerInv, ChannelsMade, NoChannel
  <2>2. inbound[c].query \in QueryId
    BY <1>1, <2>1, InboundQuery DEF WorkerInv
  <2>3. query_response_channels[inbound[c].query] = c
    BY <1>1 DEF WorkerInv, WaitingOnRecord
  <2> QED
    BY <1>1, <2>1, <2>2, <2>3 DEF WorkerInv, ChannelsNotLeaked
<1>2. WorkerInv => \A c \in open : LET q == inbound[c].query IN Pending(q) \/ q \in lost
  BY <1>1
<1> QED
  BY <1>2, WorkerInvariant, PTL
=============================================================================
