---------------------------- MODULE GatewayProofs ----------------------------
(* The gateway is a correct owner of its query client, whose invariant carries *)
(* over; with it, the books about queries agree with what the client owes, and *)
(* every result the user sees names the worker and the query of its request.  *)
EXTENDS Gateway, RequestClientProofs, SequenceTheorems

(* ------------------------------------------------------------------------ *)
(* The inductive invariant                                                  *)
(* ------------------------------------------------------------------------ *)

AskedOf(r, p) == \E q \in QueryId : asked[r] = <<p, q>>

\* A queued event that is about a request comes after the request was resolved,
\* is the only one of it and names the peer that was asked.
QueuedInv ==
    /\ \A k \in 1..Len(pending_events) :
          pending_events[k].kind # "PeerUnknown" =>
             /\ answers[pending_events[k].req] # <<>>
             /\ AskedOf(pending_events[k].req, pending_events[k].peer)
    /\ \A j, k \in 1..Len(pending_events) :
          pending_events[j].req = pending_events[k].req => j = k

\* A request stays with the peer that was asked, whether it is under way or
\* waits for a connection.
SamePeer ==
    /\ \A m \in inflight : AskedOf(m.call, m.peer)
    /\ \A p \in Peers : \A r \in waiting_for_connection[p] : AskedOf(r, p)

\* A recorded id is the one of the query that was asked, and the user has not
\* heard about it; a result is made only once the client resolved the request.
IdsAsked ==
    \A r \in ReqId :
        /\ query_ids[r] # NoQuery =>
              /\ \E p \in Peers : asked[r] = <<p, query_ids[r]>>
              /\ results[r] = <<>>
        /\ results[r] # <<>> => answers[r] # <<>>

Owed(r) == Open(r) \/ Queued(r)

GatewayInv ==
    /\ TypeOK
    /\ ClientInv
    /\ QueuedInv
    /\ SamePeer
    /\ IdsAsked
    /\ QueryIdsAreOpenRequests
    /\ ResultMatchesQuery

\* A new gateway has sent nothing and owes nothing.
LEMMA GatewayInit == Init => GatewayInv
<1> SUFFICES ASSUME Init PROVE GatewayInv
  OBVIOUS
<1> USE DEF Init, QueuesEmpty
<1>1. ClientInv
  BY InitInv
<1>2. TypeOK
  <2>1. ClientTypeOK
    BY <1>1 DEF ClientInv
  <2>2. queries = <<>> /\ events = <<>> /\ Len(queries) = 0 /\ Len(events) = 0
    OBVIOUS
  <2>3. /\ queries \in Seq([peer : Peers, query : QueryId \cup {NoQuery}])
        /\ events \in Seq({QueryResult, Ping})
    OBVIOUS
  <2> QED
    BY <2>1, <2>2, <2>3, QueueSizesAssumption DEF TypeOK
<1>3. pending_events = <<>> /\ Len(pending_events) = 0
  BY DEF ClientInit
<1>4. QueuedInv
  BY <1>3 DEF QueuedInv
<1>5. SamePeer
  BY DEF SamePeer, ClientInit
<1>6. QueryIdsAreOpenRequests
  BY <1>3 DEF QueryIdsAreOpenRequests, Open, Queued, ClientInit
<1> QED
  BY <1>1, <1>2, <1>4, <1>5, <1>6 DEF GatewayInv, IdsAsked, ResultMatchesQuery

(* ------------------------------------------------------------------------ *)
(* The query client's own steps                                             *)
(* ------------------------------------------------------------------------ *)

\* What the gateway needs of a step of the client: it is owed what it was.
ClientKeeps ==
    /\ QueuedInv'
    /\ SamePeer'
    /\ \A r \in ReqId : Owed(r)' <=> Owed(r)
    /\ \A r \in ReqId : answers[r] # <<>> => answers'[r] # <<>>

\* Resolving open requests with one event each turns what is open into what is
\* queued.
LEMMA ResolveKeeps ==
    ASSUME ClientInv, NEW S \in SUBSET ReqId, UNCHANGED <<sent, asked>>,
           pending_events = <<>>, pending_events' \in Seq(Event),
           \A r \in S : Open(r) /\ answers'[r] # <<>>,
           \A r \in ReqId \ S : answers'[r] = answers[r],
           \A k \in 1..Len(pending_events') :
              /\ pending_events'[k].req \in S
              /\ AskedOf(pending_events'[k].req, pending_events'[k].peer),
           \A j, k \in 1..Len(pending_events') :
              pending_events'[j].req = pending_events'[k].req => j = k,
           \A r \in S : \E k \in 1..Len(pending_events') : pending_events'[k].req = r
    PROVE  /\ QueuedInv'
           /\ \A r \in ReqId : Owed(r)' <=> Owed(r)
           /\ \A r \in ReqId : answers[r] # <<>> => answers'[r] # <<>>
<1>1. QueuedInv'
  BY DEF QueuedInv, AskedOf
<1>2. ASSUME NEW r \in ReqId PROVE Owed(r)' <=> Owed(r)
  <2>1. ~Queued(r)
    BY DEF Queued
  <2>2. CASE r \in S
    BY <2>2 DEF Owed, Queued
  <2>3. CASE r \notin S
    <3>1. ~Queued(r)'
      BY <2>3 DEF Queued
    <3>2. Open(r)' <=> Open(r)
      BY <2>3 DEF Open
    <3> QED
      BY <2>1, <3>1, <3>2 DEF Owed
  <2> QED
    BY <2>2, <2>3
<1>3. \A r \in ReqId : answers[r] # <<>> => answers'[r] # <<>>
  BY DEF Open
<1> QED
  BY <1>1, <1>2, <1>3

\* A lookup that times out resolves what waited for its peer.
LEMMA TimeoutKeeps ==
    ASSUME ClientInv, QueuedInv, SamePeer, UNCHANGED asked,
           NEW p \in Peers, on_timeout(p)
    PROVE  ClientKeeps
<1> DEFINE S == waiting_for_connection[p]
           n == Cardinality(S)
<1>1. S \in SUBSET ReqId
  BY DEF ClientInv, ClientTypeOK
<1>2. n \in Nat
  BY <1>1, ReqIdFinite, FS_Subset, FS_CardinalityType
<1>3. PICK order \in Bijection(1..n, S) :
         pending_events' = [k \in 1..n |-> Timeout(p, order[k])]
  BY DEF on_timeout
<1>4. /\ \A k \in 1..n : order[k] \in S
      /\ \A j, k \in 1..n : order[j] = order[k] => j = k
      /\ \A r \in S : \E k \in 1..n : order[k] = r
  BY DEF Bijection, Injection, IsInjective, Surjection
<1>5. /\ pending_events = <<>> /\ UNCHANGED <<sent, inflight>>
      /\ waiting_for_connection' = [waiting_for_connection EXCEPT ![p] = {}]
      /\ answers' = [r \in ReqId |->
            IF r \in S THEN Append(answers[r], NoId) ELSE answers[r]]
  BY DEF on_timeout, TakeWaiting
<1>6. \A r \in S : Open(r) /\ AskedOf(r, p)
  BY DEF ClientInv, WaitingInv, Open, SamePeer
<1>7. answers \in [ReqId -> Seq(ReqId \cup {NoId})]
  BY DEF ClientInv, ClientTypeOK
<1>8. ASSUME NEW r \in S PROVE answers'[r] # <<>>
  <2>1. answers[r] \in Seq(ReqId \cup {NoId}) /\ answers'[r] = Append(answers[r], NoId)
    BY <1>1, <1>5, <1>7
  <2> QED
    BY <2>1 DEF NoId
<1>9. SamePeer'
  BY <1>5 DEF SamePeer, AskedOf, ClientInv, ClientTypeOK
<1> HIDE DEF S, n
<1>10. Len(pending_events') = n
  BY <1>2, <1>3
<1>11. \A k \in 1..n : /\ pending_events'[k] = Timeout(p, order[k])
                       /\ pending_events'[k].req = order[k]
                       /\ pending_events'[k].peer = p
                       /\ pending_events'[k] \in Event
  BY <1>1, <1>3, <1>4 DEF Timeout, Event
<1>12. pending_events' \in Seq(Event)
  BY <1>2, <1>3, <1>11
<1>13. \A r \in ReqId \ S : answers'[r] = answers[r]
  BY <1>5
<1>14. \A k \in 1..Len(pending_events') :
         /\ pending_events'[k].req \in S
         /\ AskedOf(pending_events'[k].req, pending_events'[k].peer)
  BY <1>4, <1>6, <1>10, <1>11
<1>15. \A j, k \in 1..Len(pending_events') :
         pending_events'[j].req = pending_events'[k].req => j = k
  BY <1>4, <1>10, <1>11
<1>16. \A r \in S : \E k \in 1..Len(pending_events') : pending_events'[k].req = r
  BY <1>4, <1>10, <1>11
<1>17. \A r \in S : Open(r) /\ answers'[r] # <<>>
  BY <1>6, <1>8
<1>18. UNCHANGED <<sent, asked>> /\ pending_events = <<>>
  BY <1>5
<1>19. /\ QueuedInv'
       /\ \A r \in ReqId : Owed(r)' <=> Owed(r)
       /\ \A r \in ReqId : answers[r] # <<>> => answers'[r] # <<>>
  BY ONLY ClientInv, <1>1, <1>12, <1>13, <1>14, <1>15, <1>16, <1>17, <1>18, ResolveKeeps
<1> QED
  BY <1>9, <1>19 DEF ClientKeeps

\* A submission's report that resolves its request with the event ev.
LEMMA ReportKeeps ==
    ASSUME ClientInv, QueuedInv, SamePeer, UNCHANGED <<asked, sent, waiting_for_connection>>,
           NEW m \in inflight, NEW ev \in Event, NEW x,
           pending_events = <<>>, pending_events' = <<ev>>,
           ev.req = m.call, ev.peer = m.peer,
           inflight' = inflight \ {m},
           answers' = [answers EXCEPT ![m.call] = Append(@, x)]
    PROVE  ClientKeeps
<1>1. /\ m.call \in ReqId /\ answers[m.call] = <<>> /\ sent[m.call] \in {1, 2}
  BY ReportFacts
<1>2. answers \in [ReqId -> Seq(ReqId \cup {NoId})]
  BY DEF ClientInv, ClientTypeOK
<1>3. answers'[m.call] # <<>> /\ \A r \in ReqId \ {m.call} : answers'[r] = answers[r]
  BY <1>1, <1>2
<1>4. Open(m.call) /\ AskedOf(m.call, m.peer)
  BY <1>1 DEF Open, SamePeer
<1>5. /\ pending_events' \in Seq(Event) /\ Len(pending_events') = 1
      /\ pending_events'[1] = ev
  OBVIOUS
<1>6. SamePeer'
  BY DEF SamePeer, AskedOf
<1>7. \A k \in 1..Len(pending_events') :
         k = 1 /\ pending_events'[k].req = m.call /\ pending_events'[k].peer = m.peer
  BY <1>5
<1>8. {m.call} \in SUBSET ReqId
  BY <1>1
<1>9. \A r \in {m.call} : \E k \in 1..Len(pending_events') : pending_events'[k].req = r
  BY <1>5
<1> DEFINE S == {m.call}
<1>10. \A k \in 1..Len(pending_events') :
         /\ pending_events'[k].req \in S
         /\ AskedOf(pending_events'[k].req, pending_events'[k].peer)
  BY <1>4, <1>7
<1>11. \A j, k \in 1..Len(pending_events') :
         pending_events'[j].req = pending_events'[k].req => j = k
  BY <1>7
<1>12. \A r \in S : Open(r) /\ answers'[r] # <<>>
  BY <1>3, <1>4
<1>13. \A r \in ReqId \ S : answers'[r] = answers[r]
  BY <1>3
<1>14. UNCHANGED <<sent, asked>> /\ pending_events = <<>>
  OBVIOUS
<1> HIDE DEF S
<1>15. /\ QueuedInv'
       /\ \A r \in ReqId : Owed(r)' <=> Owed(r)
       /\ \A r \in ReqId : answers[r] # <<>> => answers'[r] # <<>>
  BY ONLY ClientInv, <1>5, <1>8, <1>9, <1>10, <1>11, <1>12, <1>13, <1>14, ResolveKeeps
     DEF S
<1> QED
  BY <1>6, <1>15 DEF ClientKeeps

\* A response resolves the request of its submission.
LEMMA SuccessKeeps ==
    ASSUME ClientInv, QueuedInv, SamePeer, UNCHANGED asked,
           NEW m \in inflight, on_success(m)
    PROVE  ClientKeeps
<1>1. m.call \in ReqId /\ m.peer \in Peers /\ OldId(m.id) = m.call
  BY ReportFacts
<1> DEFINE ev == Response(m.peer, m.call)
<1>2. ev \in Event /\ ev.req = m.call /\ ev.peer = m.peer
  BY <1>1 DEF Response, Event
<1>3. /\ pending_events = <<>> /\ pending_events' = <<ev>>
      /\ inflight' = inflight \ {m}
      /\ answers' = [answers EXCEPT ![m.call] = Append(@, m.call)]
      /\ UNCHANGED <<sent, waiting_for_connection>>
  BY <1>1 DEF on_success
<1> HIDE DEF ev
<1> QED
  BY <1>2, <1>3, ReportKeeps

\* A second failure resolves the request; a first one makes it wait for the
\* peer it was sent to, and may have the peer looked up.
LEMMA FailureKeeps ==
    ASSUME ClientInv, QueuedInv, SamePeer, UNCHANGED asked,
           NEW m \in inflight, on_failure(m)
    PROVE  ClientKeeps
<1>1. m.call \in ReqId /\ m.peer \in Peers
  BY ReportFacts
<1>2. CASE failed_again(m)
  <2>1. resubmitted_requests[m.id] = m.call
    BY <1>2 DEF ClientInv, InflightInv, RetryInv, failed_again
  <2> DEFINE ev == Timeout(m.peer, m.call)
  <2>2. ev \in Event /\ ev.req = m.call /\ ev.peer = m.peer
    BY <1>1 DEF Timeout, Event
  <2>3. /\ pending_events = <<>> /\ pending_events' = <<ev>>
        /\ inflight' = inflight \ {m}
        /\ answers' = [answers EXCEPT ![m.call] = Append(@, NoId)]
        /\ UNCHANGED <<sent, waiting_for_connection>>
    BY <1>2, <2>1 DEF on_failure, failed_again
  <2> HIDE DEF ev
  <2> QED
    BY <2>2, <2>3, ReportKeeps
<1>3. CASE failed_first(m)
  <2>1. /\ pending_events = <<>> /\ inflight' = inflight \ {m}
        /\ UNCHANGED <<sent, answers>>
        /\ waiting_for_connection' =
              [waiting_for_connection EXCEPT ![m.peer] = @ \cup {m.id}]
        /\ pending_events' \in {<<>>, <<PeerUnknown(m.peer)>>}
    BY <1>3 DEF on_failure, failed_first
  <2>2. m.call = m.id
    BY <1>3 DEF ClientInv, InflightInv, FirstInv, failed_first
  <2>3. SamePeer'
    <3>1. waiting_for_connection \in [Peers -> SUBSET ReqId]
      BY DEF ClientInv, ClientTypeOK
    <3>2. ASSUME NEW p \in Peers, NEW r \in waiting_for_connection'[p]
          PROVE  r \in waiting_for_connection[p] \/ (p = m.peer /\ r = m.call)
      BY <1>1, <2>1, <2>2, <3>1
    <3> QED
      BY <2>1, <3>2 DEF SamePeer, AskedOf
  <2>4. \A k \in 1..Len(pending_events') :
           k = 1 /\ pending_events'[k].kind = "PeerUnknown" /\ pending_events'[k].req = NoId
    <3>1. CASE pending_events' = <<>>
      BY <3>1
    <3>2. CASE pending_events' = <<PeerUnknown(m.peer)>>
      <4>1. Len(pending_events') = 1 /\ pending_events'[1] = PeerUnknown(m.peer)
        BY <3>2
      <4> QED
        BY <4>1 DEF PeerUnknown
    <3> QED
      BY <2>1, <3>1, <3>2
  <2>5. QueuedInv'
    BY <2>4 DEF QueuedInv
  <2>6. ASSUME NEW r \in ReqId PROVE Owed(r)' <=> Owed(r)
    <3>1. r # NoId
      BY DEF ReqId, NoId
    <3>2. ~Queued(r)' /\ ~Queued(r)
      BY <2>1, <2>4, <3>1 DEF Queued
    <3>3. Open(r)' <=> Open(r)
      BY <2>1 DEF Open
    <3> QED
      BY <3>2, <3>3 DEF Owed
  <2> QED
    BY <2>1, <2>3, <2>5, <2>6 DEF ClientKeeps
<1> QED
  BY <1>2, <1>3 DEF on_failure

\* Submitting again changes the id of a submission, and neither its request nor
\* the peer.
LEMMA ConnectionKeeps ==
    ASSUME ClientInv, QueuedInv, SamePeer, UNCHANGED asked,
           NEW p \in Peers, on_connection_established(p)
    PROVE  ClientKeeps
<1> DEFINE known == waiting_for_connection[p] \cap original_requests
           fresh == (next_id + 1)..(next_id + Cardinality(known))
<1>1. /\ UNCHANGED <<pending_events, answers>>
      /\ waiting_for_connection' = [waiting_for_connection EXCEPT ![p] = {}]
      /\ sent' = [r \in ReqId |-> IF r \in known THEN sent[r] + 1 ELSE sent[r]]
  BY DEF on_connection_established, TakeWaiting
<1>2. PICK old \in Bijection(fresh, known) :
         inflight' = inflight \cup
            {[id |-> i, peer |-> p, call |-> old[i]] : i \in fresh}
  BY DEF on_connection_established
<1>3. \A i \in fresh : old[i] \in known
  BY DEF Bijection, Injection
<1>4. \A r \in known : sent[r] = 1 /\ AskedOf(r, p)
  BY DEF ClientInv, WaitingInv, SamePeer
<1>5. sent \in [ReqId -> Nat] /\ waiting_for_connection \in [Peers -> SUBSET ReqId]
  BY DEF ClientInv, ClientTypeOK
<1> HIDE DEF known, fresh
<1>6. SamePeer'
  <2>1. ASSUME NEW m \in inflight' PROVE AskedOf(m.call, m.peer)'
    <3>1. CASE m \in inflight
      BY <3>1 DEF SamePeer, AskedOf
    <3>2. ASSUME NEW i \in fresh, m = [id |-> i, peer |-> p, call |-> old[i]]
          PROVE  AskedOf(m.call, m.peer)'
      BY <3>2, <1>3, <1>4 DEF AskedOf
    <3> QED
      BY <3>1, <3>2, <1>2
  <2>2. ASSUME NEW q \in Peers, NEW r \in waiting_for_connection'[q]
        PROVE  AskedOf(r, q)'
    <3>1. r \in waiting_for_connection[q]
      BY <1>1, <1>5
    <3> QED
      BY <3>1 DEF SamePeer, AskedOf
  <2> QED
    BY <2>1, <2>2 DEF SamePeer
<1>7. QueuedInv'
  BY <1>1 DEF QueuedInv, AskedOf
<1>8. ASSUME NEW r \in ReqId PROVE Owed(r)' <=> Owed(r)
  <2>1. sent'[r] > 0 <=> sent[r] > 0
    BY <1>1, <1>4, <1>5
  <2> QED
    BY <1>1, <2>1 DEF Owed, Open, Queued
<1> QED
  BY <1>1, <1>6, <1>7, <1>8 DEF ClientKeeps

(* ------------------------------------------------------------------------ *)
(* The steps of the gateway                                                 *)
(* ------------------------------------------------------------------------ *)

\* Only what the client is asked and owes, and what the gateway noted about it,
\* matters to the books.
LEMMA BooksUnchanged ==
    ASSUME GatewayInv, UNCHANGED clientVars, UNCHANGED <<query_ids, asked, results>>
    PROVE  /\ QueuedInv' /\ SamePeer' /\ IdsAsked'
           /\ QueryIdsAreOpenRequests' /\ ResultMatchesQuery'
<1> USE DEF GatewayInv, clientVars
<1>1. QueuedInv'
  BY DEF QueuedInv, AskedOf
<1>2. SamePeer'
  BY DEF SamePeer, AskedOf
<1>3. IdsAsked'
  BY DEF IdsAsked
<1>4. QueryIdsAreOpenRequests'
  BY DEF QueryIdsAreOpenRequests, Open, Queued
<1>5. ResultMatchesQuery'
  BY DEF ResultMatchesQuery
<1> QED
  BY <1>1, <1>2, <1>3, <1>4, <1>5

\* A lossy send keeps the events queue within its size.
LEMMA SendLossyFacts ==
    ASSUME TypeOK, NEW ev \in {QueryResult, Ping}, send_lossy(ev)
    PROVE  events' \in Seq({QueryResult, Ping}) /\ Len(events') <= EventsQueueSize
<1>1. events \in Seq({QueryResult, Ping}) /\ Len(events) \in Nat /\ Len(events) <= EventsQueueSize
  BY DEF TypeOK
<1>2. /\ Append(events, ev) \in Seq({QueryResult, Ping})
      /\ Len(Append(events, ev)) = Len(events) + 1
  BY <1>1
<1> QED
  BY <1>1, <1>2, QueueSizesAssumption DEF send_lossy

\* The steps of the client keep the gateway's books as they are.
LEMMA ClientStepKeeps ==
    ASSUME GatewayInv, client_step
    PROVE  GatewayInv' /\ ClientNext
<1>1. UNCHANGED gatewayVars
  BY DEF client_step
<1>2. ClientInv /\ QueuedInv /\ SamePeer /\ UNCHANGED asked
  BY <1>1 DEF GatewayInv, gatewayVars
<1>3. ClientNext
  BY DEF client_step, ClientNext
<1>4. ClientInv'
  BY <1>2, <1>3, StepInv
<1>5. ClientKeeps
  BY <1>2, TimeoutKeeps, ConnectionKeeps, SuccessKeeps, FailureKeeps DEF client_step
<1>6. TypeOK'
  BY <1>1, <1>4 DEF GatewayInv, TypeOK, gatewayVars, ClientInv
<1>7. IdsAsked'
  BY <1>1, <1>5 DEF GatewayInv, IdsAsked, gatewayVars, ClientKeeps
<1>8. QueryIdsAreOpenRequests'
  BY <1>1, <1>5 DEF GatewayInv, QueryIdsAreOpenRequests, gatewayVars, ClientKeeps, Owed
<1>9. ResultMatchesQuery'
  BY <1>1 DEF GatewayInv, ResultMatchesQuery, gatewayVars
<1> QED
  BY <1>3, <1>4, <1>5, <1>6, <1>7, <1>8, <1>9 DEF GatewayInv, ClientKeeps

\* The user's two steps and a ping touch only the queues.
LEMMA QueueStepKeeps ==
    ASSUME GatewayInv,
           \/ \E p \in Peers, q \in QueryId \cup {NoQuery} : handle_send_query(p, q)
           \/ next_event
           \/ \E p, w \in Peers : on_ping(p, w)
    PROVE  GatewayInv' /\ UNCHANGED clientVars
<1>1. UNCHANGED clientVars /\ UNCHANGED <<query_ids, asked, results, mismatched>>
  BY DEF handle_send_query, next_event, on_ping
<1>2. ClientInv'
  BY <1>1, StepInv DEF GatewayInv
<1> DEFINE Query == [peer : Peers, query : QueryId \cup {NoQuery}]
<1>3. queries \in Seq(Query) /\ Len(queries) <= QueriesQueueSize
  BY DEF GatewayInv, TypeOK
<1>4. events \in Seq({QueryResult, Ping}) /\ Len(events) <= EventsQueueSize
  BY DEF GatewayInv, TypeOK
<1> DEFINE QueuesOK ==
           /\ queries \in Seq(Query) /\ Len(queries) <= QueriesQueueSize
           /\ events \in Seq({QueryResult, Ping}) /\ Len(events) <= EventsQueueSize
<1>5. QueuesOK'
  <2>1. ASSUME NEW p \in Peers, NEW q \in QueryId \cup {NoQuery}, handle_send_query(p, q)
        PROVE  QueuesOK'
    <3> DEFINE new == [peer |-> p, query |-> q]
    <3>1. /\ new \in Query /\ queries' = Append(queries, new) /\ events' = events
          /\ Len(queries) < QueriesQueueSize
      BY <2>1 DEF handle_send_query
    <3> HIDE DEF new, Query
    <3>2. queries' \in Seq(Query) /\ Len(queries') = Len(queries) + 1
      BY <1>3, <3>1
    <3> QED
      BY <1>3, <1>4, <3>1, <3>2, QueueSizesAssumption
  <2>2. CASE next_event
    <3>1. queries' = queries /\ events # <<>> /\ events' = Tail(events)
      BY <2>2 DEF next_event
    <3>2. events' \in Seq({QueryResult, Ping}) /\ Len(events') = Len(events) - 1
      BY <1>4, <3>1
    <3> QED
      BY <1>3, <1>4, <3>1, <3>2, QueueSizesAssumption
  <2>3. ASSUME NEW p \in Peers, NEW w \in Peers, on_ping(p, w)
        PROVE  QueuesOK'
    <3>1. queries' = queries /\ send_lossy(Ping)
      BY <2>3 DEF on_ping
    <3>2. TypeOK
      BY DEF GatewayInv
    <3> QED
      BY <1>3, <3>1, <3>2, SendLossyFacts
  <2> QED
    BY <2>1, <2>2, <2>3
<1>6. TypeOK'
  BY <1>1, <1>2, <1>5 DEF GatewayInv, TypeOK, ClientInv
<1> QED
  BY <1>1, <1>2, <1>6, BooksUnchanged DEF GatewayInv

\* Sending the oldest queued query: a fresh id is recorded for it, and from then
\* on the client owes an event.
LEMMA SendQueryKeeps ==
    ASSUME GatewayInv, send_query
    PROVE  GatewayInv' /\ [ClientNext]_clientVars
<1> DEFINE p == Head(queries).peer
           q == Head(queries).query
           Query == [peer : Peers, query : QueryId \cup {NoQuery}]
<1>1. queries \in Seq(Query) /\ Len(queries) <= QueriesQueueSize /\ queries # <<>>
  BY DEF GatewayInv, TypeOK, send_query
<1>2. /\ queries' \in Seq(Query) /\ Len(queries') <= QueriesQueueSize
      /\ Head(queries) \in Query
  <2> HIDE DEF Query
  <2>1. queries' = Tail(queries)
    BY DEF send_query
  <2>2. Tail(queries) \in Seq(Query) /\ Len(Tail(queries)) = Len(queries) - 1
    BY <1>1
  <2> QED
    BY <1>1, <2>1, <2>2, QueueSizesAssumption
<1>3. p \in Peers /\ q \in QueryId \cup {NoQuery}
  BY <1>2
<1>4. UNCHANGED <<events, results, mismatched>>
  BY DEF send_query
<1>5. \/ UNCHANGED <<clientVars, query_ids, asked>>
      \/ /\ q \in QueryId
         /\ try_send_request(p)
         /\ query_ids' = [query_ids EXCEPT ![next_id'] = q]
         /\ asked' = [asked EXCEPT ![next_id'] = <<p, q>>]
  BY <1>3 DEF send_query, record_query
<1> HIDE DEF p, q, Query
<1>6. CASE UNCHANGED <<clientVars, query_ids, asked>>
  <2>1. ClientInv'
    BY <1>6, StepInv DEF GatewayInv
  <2>2. TypeOK'
    BY <1>2, <1>4, <1>6, <2>1 DEF GatewayInv, TypeOK, ClientInv, Query
  <2> QED
    BY <1>4, <1>6, <2>1, <2>2, BooksUnchanged DEF GatewayInv
<1>7. CASE /\ q \in QueryId
           /\ try_send_request(p)
           /\ query_ids' = [query_ids EXCEPT ![next_id'] = q]
           /\ asked' = [asked EXCEPT ![next_id'] = <<p, q>>]
  <2> DEFINE i == next_id + 1
             new == [id |-> i, peer |-> p, call |-> i]
  <2>1. /\ i \in ReqId /\ i > next_id /\ next_id' = i
        /\ inflight' = inflight \cup {new}
        /\ sent' = [sent EXCEPT ![i] = @ + 1]
        /\ UNCHANGED <<waiting_for_connection, pending_events, answers>>
    BY <1>7, MaxIdsAssumption
       DEF try_send_request, GatewayInv, ClientInv, ClientTypeOK, ReqId
  <2>2. sent[i] = 0 /\ answers[i] = <<>>
    BY <2>1 DEF GatewayInv, ClientInv, FreshIds
  <2>3. ClientNext
    BY <1>3, <1>7 DEF ClientNext
  <2>4. ClientInv'
    BY <2>3, StepInv DEF GatewayInv
  <2>5. /\ query_ids \in [ReqId -> QueryId \cup {NoQuery}]
        /\ asked \in [ReqId -> {<<>>} \cup (Peers \X QueryId)]
        /\ sent \in [ReqId -> Nat]
    BY DEF GatewayInv, TypeOK, ClientTypeOK
  <2>6. /\ query_ids' \in [ReqId -> QueryId \cup {NoQuery}]
        /\ asked' \in [ReqId -> {<<>>} \cup (Peers \X QueryId)]
    <3>1. <<p, q>> \in Peers \X QueryId
      BY <1>3, <1>7
    <3> HIDE DEF i
    <3> QED
      BY <1>7, <2>1, <2>5, <3>1
  <2>7. TypeOK'
    BY <1>2, <1>4, <2>4, <2>6 DEF GatewayInv, TypeOK, ClientInv, Query
  <2> HIDE DEF i
  <2>8. /\ query_ids'[i] = q /\ asked'[i] = <<p, q>> /\ sent'[i] = 1
        /\ \A r \in ReqId \ {i} : /\ query_ids'[r] = query_ids[r]
                                  /\ asked'[r] = asked[r]
                                  /\ sent'[r] = sent[r]
    BY <1>7, <2>1, <2>2, <2>5
  <2>9. q # NoQuery
    BY <1>7, NoQueryAssumption
  <2>10. /\ \A m \in inflight : m.call \in ReqId \ {i}
         /\ \A w \in Peers : \A r \in waiting_for_connection[w] : r \in ReqId \ {i}
    <3>1. \A m \in inflight : m.call \in ReqId /\ m.call <= next_id /\ next_id \in Nat
      BY DEF GatewayInv, ClientInv, ClientTypeOK, Submission, FreshIds
    <3>2. \A w \in Peers : \A r \in waiting_for_connection[w] : r \in ReqId /\ sent[r] = 1
      BY DEF GatewayInv, ClientInv, ClientTypeOK, WaitingInv
    <3> QED
      BY <2>1, <2>2, <3>1, <3>2 DEF ReqId
  <2>11. SamePeer'
    <3>1. \E x \in QueryId : asked'[i] = <<p, x>>
      BY <1>7, <2>8
    <3>2. ASSUME NEW r \in ReqId \ {i}, NEW w, AskedOf(r, w) PROVE AskedOf(r, w)'
      BY <2>8, <3>2 DEF AskedOf
    <3>3. ASSUME NEW m \in inflight' PROVE AskedOf(m.call, m.peer)'
      <4>1. CASE m = new
        BY <4>1, <3>1 DEF AskedOf
      <4>2. CASE m \in inflight
        <5>1. AskedOf(m.call, m.peer)
          BY <4>2 DEF GatewayInv, SamePeer
        <5> QED
          BY <4>2, <5>1, <2>10, <3>2
      <4> QED
        BY <4>1, <4>2, <2>1
    <3>4. ASSUME NEW w \in Peers, NEW r \in waiting_for_connection'[w] PROVE AskedOf(r, w)'
      BY <2>1, <2>10, <3>2 DEF GatewayInv, SamePeer
    <3> QED
      BY <3>3, <3>4 DEF SamePeer
  <2>12. \A k \in 1..Len(pending_events) : pending_events[k].req # i
    <3> SUFFICES ASSUME NEW k \in 1..Len(pending_events), pending_events[k].req = i
                 PROVE  FALSE
      OBVIOUS
    <3>1. pending_events[k] \in Event
      BY DEF GatewayInv, ClientInv, ClientTypeOK
    <3>2. pending_events[k].kind # "PeerUnknown"
      BY <2>1, <3>1 DEF Event, ReqId, NoId
    <3> QED
      BY <2>2, <3>2 DEF GatewayInv, QueuedInv
  <2>13. QueuedInv'
    <3>1. ASSUME NEW k \in 1..Len(pending_events), pending_events[k].kind # "PeerUnknown"
          PROVE  AskedOf(pending_events[k].req, pending_events[k].peer)'
      <4>1. pending_events[k] \in Event
        BY DEF GatewayInv, ClientInv, ClientTypeOK
      <4>2. pending_events[k].req \in ReqId \ {i}
        BY <2>12, <3>1, <4>1 DEF Event
      <4>3. AskedOf(pending_events[k].req, pending_events[k].peer)
        BY <3>1 DEF GatewayInv, QueuedInv
      <4> QED
        BY <4>2, <4>3, <2>1, <2>8 DEF AskedOf
    <3> QED
      BY <2>1, <3>1 DEF GatewayInv, QueuedInv
  <2>14. results[i] = <<>>
    BY <2>1, <2>2 DEF GatewayInv, IdsAsked
  <2>15. IdsAsked'
    <3> SUFFICES ASSUME NEW r \in ReqId
        PROVE  /\ query_ids'[r] # NoQuery =>
                     /\ \E w \in Peers : asked'[r] = <<w, query_ids'[r]>>
                     /\ results'[r] = <<>>
               /\ results'[r] # <<>> => answers'[r] # <<>>
      BY DEF IdsAsked
    <3>1. CASE r = i
      BY <3>1, <1>3, <1>4, <2>8, <2>14
    <3>2. CASE r # i
      BY <3>2, <1>4, <2>1, <2>8 DEF GatewayInv, IdsAsked
    <3> QED
      BY <3>1, <3>2
  <2>16. QueryIdsAreOpenRequests'
    <3> SUFFICES ASSUME NEW r \in ReqId
        PROVE  query_ids'[r] # NoQuery <=> Open(r)' \/ Queued(r)'
      BY DEF QueryIdsAreOpenRequests
    <3>1. CASE r = i
      BY <3>1, <2>1, <2>2, <2>8, <2>9 DEF Open
    <3>2. CASE r # i
      <4>1. Open(r)' <=> Open(r)
        BY <3>2, <2>1, <2>8 DEF Open
      <4>2. Queued(r)' <=> Queued(r)
        BY <2>1 DEF Queued
      <4> QED
        BY <3>2, <4>1, <4>2, <2>8 DEF GatewayInv, QueryIdsAreOpenRequests
    <3> QED
      BY <3>1, <3>2
  <2>17. ResultMatchesQuery'
    BY <1>4, <2>8, <2>14 DEF GatewayInv, ResultMatchesQuery
  <2> QED
    BY <2>3, <2>4, <2>7, <2>11, <2>13, <2>15, <2>16, <2>17 DEF GatewayInv
<1> QED
  BY <1>5, <1>6, <1>7

\* Handing out the oldest event of the client: only the request it is about
\* stops being owed.
LEMMA PollFacts ==
    ASSUME GatewayInv, poll, UNCHANGED asked
    PROVE  /\ Head(pending_events) \in Event
           /\ QueuedInv' /\ SamePeer'
           /\ \A r \in ReqId : Owed(r)' <=> Owed(r) /\ r # Head(pending_events).req
           /\ Head(pending_events).kind # "PeerUnknown" =>
                 /\ Owed(Head(pending_events).req)
                 /\ answers[Head(pending_events).req] # <<>>
                 /\ AskedOf(Head(pending_events).req, Head(pending_events).peer)
<1>1. /\ pending_events \in Seq(Event) /\ pending_events # <<>>
      /\ pending_events' = Tail(pending_events)
      /\ UNCHANGED <<inflight, waiting_for_connection, sent, answers>>
  BY DEF GatewayInv, ClientInv, ClientTypeOK, poll
<1> DEFINE ev == Head(pending_events)
           n == Len(pending_events)
<1>2. n \in Nat /\ n > 0 /\ ev = pending_events[1] /\ ev \in Event
  BY <1>1
<1>3. /\ Len(pending_events') = n - 1
      /\ \A k \in 1..(n - 1) : pending_events'[k] = pending_events[k + 1]
  BY <1>1
<1>4. /\ \A k \in 1..n : pending_events[k].kind # "PeerUnknown" =>
            /\ answers[pending_events[k].req] # <<>>
            /\ AskedOf(pending_events[k].req, pending_events[k].peer)
      /\ \A j, k \in 1..n : pending_events[j].req = pending_events[k].req => j = k
  BY DEF GatewayInv, QueuedInv
<1> HIDE DEF ev, n
<1>5. QueuedInv'
  <2>1. ASSUME NEW k \in 1..(n - 1), pending_events'[k].kind # "PeerUnknown"
        PROVE  /\ answers'[pending_events'[k].req] # <<>>
               /\ AskedOf(pending_events[k].req, pending_events[k].peer)'
    <3>1. k + 1 \in 1..n /\ pending_events'[k] = pending_events[k + 1]
      BY <1>2, <1>3
    <3>2. /\ answers[pending_events[k + 1].req] # <<>>
          /\ AskedOf(pending_events[k + 1].req, pending_events[k + 1].peer)
      BY <2>1, <3>1, <1>4
    <3> QED
      BY <3>1, <3>2, <1>1 DEF AskedOf
  <2>2. ASSUME NEW j \in 1..(n - 1), NEW k \in 1..(n - 1),
               pending_events'[j].req = pending_events'[k].req
        PROVE  j = k
    <3>1. j + 1 \in 1..n /\ k + 1 \in 1..n
      BY <1>2
    <3>2. pending_events[j + 1].req = pending_events[k + 1].req
      BY <2>2, <1>3
    <3>3. j + 1 = k + 1
      BY <3>1, <3>2, <1>4
    <3> QED
      BY <3>3
  <2> QED
    BY <1>3, <2>1, <2>2 DEF QueuedInv
<1>6. SamePeer'
  BY <1>1 DEF GatewayInv, SamePeer, AskedOf
<1>7. ASSUME NEW r \in ReqId
      PROVE  Queued(r)' <=> Queued(r) /\ r # ev.req
  <2>1. ASSUME Queued(r)' PROVE Queued(r) /\ r # ev.req
    <3>1. PICK k \in 1..(n - 1) : pending_events'[k].req = r
      BY <2>1, <1>3 DEF Queued
    <3>2. k + 1 \in 1..n /\ 1 \in 1..n /\ pending_events[k + 1].req = r /\ k + 1 # 1
      BY <3>1, <1>2, <1>3
    <3>3. Queued(r)
      BY <3>2 DEF Queued, n
    <3>4. r # ev.req
      BY <3>2, <1>2, <1>4
    <3> QED
      BY <3>3, <3>4
  <2>2. ASSUME Queued(r), r # ev.req PROVE Queued(r)'
    <3>1. PICK k \in 1..n : pending_events[k].req = r
      BY <2>2 DEF Queued, n
    <3>2. k # 1
      BY <2>2, <3>1, <1>2
    <3>3. k - 1 \in 1..(n - 1) /\ pending_events'[k - 1] = pending_events[k]
      BY <3>1, <3>2, <1>2, <1>3
    <3> QED
      BY <3>1, <3>3, <1>3 DEF Queued
  <2> QED
    BY <2>1, <2>2
<1>8. ASSUME NEW r \in ReqId, r = ev.req PROVE ~Open(r)
  <2>1. ev.kind # "PeerUnknown"
    BY <1>2, <1>8 DEF Event, ReqId, NoId
  <2> QED
    BY <2>1, <1>2, <1>4, <1>8 DEF Open
<1>9. ASSUME NEW r \in ReqId
      PROVE  Owed(r)' <=> Owed(r) /\ r # ev.req
  <2>1. Open(r)' <=> Open(r)
    BY <1>1 DEF Open
  <2> QED
    BY <2>1, <1>7, <1>8 DEF Owed
<1>10. ASSUME ev.kind # "PeerUnknown"
       PROVE  Owed(ev.req) /\ answers[ev.req] # <<>> /\ AskedOf(ev.req, ev.peer)
  <2>1. 1 \in 1..n
    BY <1>2
  <2> QED
    BY <1>10, <2>1, <1>2, <1>4 DEF Owed, Queued, n
<1> QED
  BY <1>2, <1>5, <1>6, <1>9, <1>10 DEF ev

\* An event of the client settles the query of its request: the entry is taken,
\* and a result, if one is made, is the first and names what was asked.
LEMMA QueryEventKeeps ==
    ASSUME GatewayInv, on_query_event
    PROVE  GatewayInv' /\ ClientNext
<1> DEFINE ev == Head(pending_events)
           r == ev.req
<1>1. poll /\ UNCHANGED <<queries, asked>>
  BY DEF on_query_event
<1>2. ClientNext
  BY <1>1 DEF ClientNext
<1>3. ClientInv'
  BY <1>2, StepInv DEF GatewayInv
<1>4. /\ ev \in Event /\ QueuedInv' /\ SamePeer'
      /\ \A s \in ReqId : Owed(s)' <=> Owed(s) /\ s # r
      /\ ev.kind # "PeerUnknown" => Owed(r) /\ answers[r] # <<>> /\ AskedOf(r, ev.peer)
  BY <1>1, PollFacts
<1>5. /\ query_ids \in [ReqId -> QueryId \cup {NoQuery}]
      /\ results \in [ReqId -> Seq(Peers \X QueryId)]
      /\ mismatched \in SUBSET ReqId
      /\ events \in Seq({QueryResult, Ping}) /\ Len(events) <= EventsQueueSize
  BY DEF GatewayInv, TypeOK
<1>6. UNCHANGED answers
  BY <1>1 DEF poll
<1>7. \/ /\ ev.kind = "Response"
         /\ \E q \in QueryId : on_query_result(ev.peer, r, q)
      \/ /\ ev.kind = "Timeout"
         /\ on_query_timeout(ev.peer, r)
      \/ /\ ev.kind = "PeerUnknown"
         /\ UNCHANGED <<query_ids, events, results, mismatched>>
  BY DEF on_query_event
<1> HIDE DEF ev
<1>8. CASE ev.kind = "PeerUnknown" /\ UNCHANGED <<query_ids, events, results, mismatched>>
  <2>1. r = NoId
    BY <1>4, <1>8 DEF Event
  <2>2. \A s \in ReqId : s # r
    BY <2>1 DEF ReqId, NoId
  <2>3. TypeOK'
    BY <1>1, <1>3, <1>8 DEF GatewayInv, TypeOK, ClientInv
  <2>4. IdsAsked'
    BY <1>1, <1>6, <1>8 DEF GatewayInv, IdsAsked
  <2>5. QueryIdsAreOpenRequests'
    BY <1>4, <1>8, <2>2 DEF GatewayInv, QueryIdsAreOpenRequests, Owed
  <2>6. ResultMatchesQuery'
    BY <1>1, <1>8 DEF GatewayInv, ResultMatchesQuery
  <2> QED
    BY <1>2, <1>3, <1>4, <2>3, <2>4, <2>5, <2>6 DEF GatewayInv
<1>9. CASE ev.kind # "PeerUnknown"
  <2>1. r \in ReqId /\ ev.peer \in Peers
    BY <1>4, <1>9 DEF Event
  <2>2. /\ Owed(r) /\ answers[r] # <<>>
        /\ query_ids[r] # NoQuery /\ query_ids[r] \in QueryId /\ results[r] = <<>>
        /\ asked[r] = <<ev.peer, query_ids[r]>>
    <3>1. Owed(r) /\ answers[r] # <<>> /\ AskedOf(r, ev.peer)
      BY <1>4, <1>9
    <3>2. query_ids[r] # NoQuery
      BY <2>1, <3>1 DEF GatewayInv, QueryIdsAreOpenRequests, Owed
    <3>3. results[r] = <<>> /\ \E p \in Peers : asked[r] = <<p, query_ids[r]>>
      BY <2>1, <3>2 DEF GatewayInv, IdsAsked
    <3>4. asked[r] = <<ev.peer, query_ids[r]>>
      BY <3>1, <3>3 DEF AskedOf
    <3> QED
      BY <1>5, <2>1, <3>1, <3>2, <3>3, <3>4
  <2>3. /\ query_ids' = [query_ids EXCEPT ![r] = NoQuery]
        /\ mismatched' \in SUBSET ReqId
        /\ \/ /\ send_lossy(QueryResult)
              /\ results' = [results EXCEPT ![r] = Append(@, <<ev.peer, query_ids[r]>>)]
           \/ UNCHANGED <<events, results>>
    <3>1. ASSUME NEW q \in QueryId, on_query_result(ev.peer, r, q)
          PROVE  /\ query_ids' = [query_ids EXCEPT ![r] = NoQuery]
                 /\ mismatched' \in SUBSET ReqId
                 /\ \/ /\ send_lossy(QueryResult)
                       /\ results' = [results EXCEPT ![r] = Append(@, <<ev.peer, query_ids[r]>>)]
                    \/ UNCHANGED <<events, results>>
      BY <3>1, <1>5, <2>1 DEF on_query_result, ForgetQuery, IdMatches
    <3>2. CASE on_query_timeout(ev.peer, r)
      BY <3>2, <1>5 DEF on_query_timeout, ForgetQuery
    <3> QED
      BY <1>7, <1>9, <3>1, <3>2
  <2> DEFINE res == <<ev.peer, query_ids[r]>>
  <2>4. res \in Peers \X QueryId /\ res = asked[r]
    BY <2>1, <2>2
  <2> HIDE DEF res
  <2>5. /\ \A s \in ReqId \ {r} : results'[s] = results[s]
        /\ results'[r] \in {<<>>, <<res>>}
        /\ results' \in [ReqId -> Seq(Peers \X QueryId)]
    <3>1. CASE UNCHANGED results
      BY <3>1, <1>5, <2>2
    <3>2. CASE results' = [results EXCEPT ![r] = Append(results[r], res)]
      <4>1. Append(results[r], res) = <<res>>
        BY <2>2
      <4>2. <<res>> \in Seq(Peers \X QueryId)
        BY <2>4
      <4> HIDE DEF r
      <4> QED
        BY <3>2, <4>1, <4>2, <1>5, <2>1
    <3> QED
      BY <2>3, <3>1, <3>2 DEF res
  <2>6. events' \in Seq({QueryResult, Ping}) /\ Len(events') <= EventsQueueSize
    <3>1. TypeOK
      BY DEF GatewayInv
    <3> QED
      BY <1>5, <2>3, <3>1, SendLossyFacts
  <2>7. /\ query_ids'[r] = NoQuery
        /\ \A s \in ReqId \ {r} : query_ids'[s] = query_ids[s]
        /\ query_ids' \in [ReqId -> QueryId \cup {NoQuery}]
    BY <1>5, <2>1, <2>3
  <2>8. TypeOK'
    BY <1>1, <1>3, <2>3, <2>5, <2>6, <2>7 DEF GatewayInv, TypeOK, ClientInv
  <2> HIDE DEF r
  <2>9. IdsAsked'
    <3> SUFFICES ASSUME NEW s \in ReqId
        PROVE  /\ query_ids'[s] # NoQuery =>
                     /\ \E p \in Peers : asked'[s] = <<p, query_ids'[s]>>
                     /\ results'[s] = <<>>
               /\ results'[s] # <<>> => answers'[s] # <<>>
      BY DEF IdsAsked
    <3>1. CASE s = r
      BY <3>1, <1>6, <2>2, <2>7
    <3>2. CASE s # r
      BY <3>2, <1>1, <1>6, <2>5, <2>7 DEF GatewayInv, IdsAsked
    <3> QED
      BY <3>1, <3>2
  <2>10. QueryIdsAreOpenRequests'
    <3> SUFFICES ASSUME NEW s \in ReqId
        PROVE  query_ids'[s] # NoQuery <=> Open(s)' \/ Queued(s)'
      BY DEF QueryIdsAreOpenRequests
    <3>1. Owed(s)' <=> Owed(s) /\ s # r
      BY <1>4
    <3>2. query_ids[s] # NoQuery <=> Owed(s)
      BY DEF GatewayInv, QueryIdsAreOpenRequests, Owed
    <3> QED
      BY <3>1, <3>2, <2>7 DEF Owed
  <2>11. ResultMatchesQuery'
    <3> SUFFICES ASSUME NEW s \in ReqId, results'[s] # <<>>
        PROVE  results'[s] = <<asked'[s]>>
      BY DEF ResultMatchesQuery
    <3>1. CASE s = r
      BY <3>1, <1>1, <2>4, <2>5
    <3>2. CASE s # r
      BY <3>2, <1>1, <2>5 DEF GatewayInv, ResultMatchesQuery
    <3> QED
      BY <3>1, <3>2
  <2> QED
    BY <1>2, <1>3, <1>4, <2>8, <2>9, <2>10, <2>11 DEF GatewayInv
<1> QED
  BY <1>7, <1>8, <1>9

(* ------------------------------------------------------------------------ *)
(* The theorems                                                             *)
(* ------------------------------------------------------------------------ *)

\* Every step keeps the books and is a step of the client, or none.
LEMMA GatewayStep ==
    ASSUME GatewayInv, [Next]_vars
    PROVE  GatewayInv' /\ [ClientNext]_clientVars
<1>1. CASE UNCHANGED vars
  <2>1. UNCHANGED clientVars /\ UNCHANGED gatewayVars
    BY <1>1 DEF vars
  <2>2. ClientInv'
    BY <2>1, StepInv DEF GatewayInv
  <2>3. TypeOK'
    BY <2>1, <2>2 DEF GatewayInv, TypeOK, ClientInv, gatewayVars
  <2>4. UNCHANGED <<query_ids, asked, results>>
    BY <2>1 DEF gatewayVars
  <2> QED
    BY <2>1, <2>2, <2>3, <2>4, BooksUnchanged DEF GatewayInv
<1>2. CASE \/ \E p \in Peers, q \in QueryId \cup {NoQuery} : handle_send_query(p, q)
           \/ next_event
           \/ \E p, w \in Peers : on_ping(p, w)
  BY <1>2, QueueStepKeeps
<1>3. CASE send_query
  BY <1>3, SendQueryKeeps
<1>4. CASE on_query_event
  BY <1>4, QueryEventKeeps
<1>5. CASE client_step
  BY <1>5, ClientStepKeeps
<1> QED
  BY <1>1, <1>2, <1>3, <1>4, <1>5 DEF Next

\* The gateway's books agree with the client's in every reachable state, for any
\* number of peers, queries and queue places.
THEOREM GatewayInvariant == Spec => []GatewayInv
<1>1. Init => GatewayInv
  BY GatewayInit
<1>2. GatewayInv /\ [Next]_vars => GatewayInv'
  BY GatewayStep
<1> QED
  BY <1>1, <1>2, PTL DEF Spec

\* The gateway uses its query client as ClientBehaviour may be used: what it
\* does with the client is a behaviour of ClientSpec, so that every theorem
\* about the client holds inside the gateway.
THEOREM GatewayImplementsClient == Spec => ClientSpec
<1>1. Init => ClientInit
  BY DEF Init
<1>2. GatewayInv /\ [Next]_vars => [ClientNext]_clientVars
  BY GatewayStep
<1> QED
  BY <1>1, <1>2, GatewayInvariant, PTL DEF Spec, ClientSpec

\* Every variable keeps its type and both queues keep to their sizes.
THEOREM GatewayTyping == Spec => []TypeOK
<1>1. GatewayInv => TypeOK
  BY DEF GatewayInv
<1> QED
  BY <1>1, GatewayInvariant, PTL

\* The user hears at most once about a query, and what on_query_event tells it
\* names the worker and the query of the request, whatever the worker answers.
THEOREM ResultsMatch == Spec => []ResultMatchesQuery
<1>1. GatewayInv => ResultMatchesQuery
  BY DEF GatewayInv
<1> QED
  BY <1>1, GatewayInvariant, PTL

\* query_ids holds exactly the requests the client still owes an event for.
THEOREM QueryIdsExact == Spec => []QueryIdsAreOpenRequests
<1>1. GatewayInv => QueryIdsAreOpenRequests
  BY DEF GatewayInv
<1> QED
  BY <1>1, GatewayInvariant, PTL

(* ------------------------------------------------------------------------ *)
(* No query is lost                                                         *)
(* ------------------------------------------------------------------------ *)

\* A query that was sent is owed an event, has been told to the user, or was
\* answered under another query's id: what remains of EveryQuerySettled is that
\* the client resolves requests and is polled.
OwedOrSettled ==
    \A r \in ReqId :
        asked[r] # <<>> => Owed(r) \/ results[r] = <<asked[r]>> \/ r \in mismatched

\* Every step keeps it so; what is owed is read off query_ids.
LEMMA StepKeepsSettled ==
    ASSUME GatewayInv, GatewayInv', OwedOrSettled, [Next]_vars
    PROVE  OwedOrSettled'
<1> DEFINE Done(r) == results[r] = <<asked[r]>> \/ r \in mismatched
<1>1. \A r \in ReqId : /\ Owed(r) <=> query_ids[r] # NoQuery
                      /\ Owed(r)' <=> query_ids'[r] # NoQuery
  BY DEF GatewayInv, QueryIdsAreOpenRequests, Owed
<1>2. ASSUME NEW r \in ReqId, asked[r] # <<>>
      PROVE  query_ids[r] # NoQuery \/ Done(r)
  <2>1. Owed(r) \/ Done(r)
    BY <1>2 DEF OwedOrSettled
  <2>2. Owed(r) => query_ids[r] # NoQuery
    BY DEF GatewayInv, QueryIdsAreOpenRequests, Owed
  <2> QED
    BY <2>1, <2>2
<1> SUFFICES ASSUME NEW r \in ReqId, asked'[r] # <<>>
             PROVE  query_ids'[r] # NoQuery \/ Done(r)'
  BY <1>1 DEF OwedOrSettled, Owed
<1>3. CASE UNCHANGED <<query_ids, asked, results, mismatched>>
  BY <1>2, <1>3
<1>4. CASE send_query
  <2> DEFINE q == Head(queries).query
             p == Head(queries).peer
  <2>1. \/ UNCHANGED <<query_ids, asked, results, mismatched>>
        \/ /\ q # NoQuery
           /\ query_ids' = [query_ids EXCEPT ![next_id'] = q]
           /\ asked' = [asked EXCEPT ![next_id'] = <<p, q>>]
           /\ UNCHANGED <<results, mismatched>>
    BY <1>4 DEF send_query, record_query
  <2>2. query_ids \in [ReqId -> QueryId \cup {NoQuery}] /\ DOMAIN asked = ReqId
    BY DEF GatewayInv, TypeOK
  <2> HIDE DEF q, p
  <2>3. CASE r = next_id' /\ q # NoQuery /\ query_ids' = [query_ids EXCEPT ![next_id'] = q]
    BY <2>2, <2>3
  <2>4. CASE /\ r # next_id'
             /\ query_ids' = [query_ids EXCEPT ![next_id'] = q]
             /\ asked' = [asked EXCEPT ![next_id'] = <<p, q>>]
             /\ UNCHANGED <<results, mismatched>>
    <3>1. query_ids'[r] = query_ids[r] /\ asked'[r] = asked[r]
      BY <2>2, <2>4
    <3> QED
      BY <1>2, <2>4, <3>1
  <2> QED
    BY <1>3, <2>1, <2>3, <2>4
<1>5. CASE on_query_event
  <2> DEFINE ev == Head(pending_events)
             s == ev.req
  <2>1. /\ poll /\ UNCHANGED asked
        /\ \/ \E q \in QueryId : on_query_result(ev.peer, s, q)
           \/ on_query_timeout(ev.peer, s)
           \/ UNCHANGED <<query_ids, results, mismatched>>
        /\ ev.kind = "PeerUnknown" => UNCHANGED <<query_ids, results, mismatched>>
    BY <1>5 DEF on_query_event
  <2>2. /\ query_ids \in [ReqId -> QueryId \cup {NoQuery}]
        /\ results \in [ReqId -> Seq(Peers \X QueryId)]
    BY DEF GatewayInv, TypeOK
  <2>3. /\ ev \in Event
        /\ ev.kind # "PeerUnknown" => Owed(s) /\ AskedOf(s, ev.peer)
    BY <2>1, PollFacts
  <2> HIDE DEF ev
  <2>4. ASSUME ev.kind # "PeerUnknown"
        PROVE  /\ s \in ReqId /\ query_ids[s] # NoQuery /\ results[s] = <<>>
               /\ asked[s] = <<ev.peer, query_ids[s]>>
    <3>1. s \in ReqId
      BY <2>3, <2>4 DEF Event
    <3>2. query_ids[s] # NoQuery
      BY <2>3, <2>4, <3>1 DEF GatewayInv, QueryIdsAreOpenRequests, Owed
    <3>3. results[s] = <<>> /\ \E p \in Peers : asked[s] = <<p, query_ids[s]>>
      BY <3>1, <3>2 DEF GatewayInv, IdsAsked
    <3> QED
      BY <2>3, <2>4, <3>1, <3>2, <3>3 DEF AskedOf
  <2>5. CASE UNCHANGED <<query_ids, results, mismatched>>
    BY <1>3, <2>1, <2>5
  <2>6. ASSUME ev.kind # "PeerUnknown",
               query_ids' = [query_ids EXCEPT ![s] = NoQuery],
               \/ /\ results' = [results EXCEPT ![s] = Append(@, asked[s])]
                  /\ UNCHANGED mismatched
               \/ /\ mismatched' = mismatched \cup {s}
                  /\ UNCHANGED results
        PROVE  query_ids'[r] # NoQuery \/ Done(r)'
    <3>1. results[s] = <<>> /\ s \in ReqId
      BY <2>4, <2>6
    <3>2. Append(<<>>, asked[s]) = <<asked[s]>>
      OBVIOUS
    <3> HIDE DEF s
    <3>3. CASE r = s
      BY <2>1, <2>2, <2>6, <3>1, <3>2, <3>3
    <3>4. CASE r # s
      <4>1. query_ids'[r] = query_ids[r] /\ results'[r] = results[r]
        BY <2>2, <2>6, <3>4
      <4> QED
        BY <1>2, <2>1, <2>6, <4>1
    <3> QED
      BY <3>3, <3>4
  <2>7. ASSUME ev.kind # "PeerUnknown", NEW q \in QueryId, on_query_result(ev.peer, s, q)
        PROVE  query_ids'[r] # NoQuery \/ Done(r)'
    <3>1. query_ids' = [query_ids EXCEPT ![s] = NoQuery]
      BY <2>7 DEF on_query_result, ForgetQuery
    <3>2. CASE IdMatches(s, q)
      <4>1. /\ results' = [results EXCEPT ![s] = Append(@, asked[s])]
            /\ UNCHANGED mismatched
        BY <2>4, <2>7, <3>2 DEF on_query_result, IdMatches
      <4> QED
        BY <2>6, <2>7, <3>1, <4>1
    <3>3. CASE ~IdMatches(s, q)
      <4>1. asked[s] # <<ev.peer, q>>
        BY <2>4, <2>7, <3>3 DEF IdMatches
      <4>2. mismatched' = mismatched \cup {s} /\ UNCHANGED results
        BY <2>7, <3>3, <4>1 DEF on_query_result
      <4> QED
        BY <2>6, <2>7, <3>1, <4>2
    <3> QED
      BY <3>2, <3>3
  <2>8. ASSUME ev.kind # "PeerUnknown", on_query_timeout(ev.peer, s)
        PROVE  query_ids'[r] # NoQuery \/ Done(r)'
    <3>1. /\ query_ids' = [query_ids EXCEPT ![s] = NoQuery]
          /\ results' = [results EXCEPT ![s] = Append(@, asked[s])]
          /\ UNCHANGED mismatched
      BY <2>4, <2>8 DEF on_query_timeout, ForgetQuery
    <3> QED
      BY <2>6, <2>8, <3>1
  <2> QED
    BY <2>1, <2>5, <2>7, <2>8
<1>6. CASE \/ \E p \in Peers, q \in QueryId \cup {NoQuery} : handle_send_query(p, q)
           \/ next_event
           \/ \E p, w \in Peers : on_ping(p, w)
           \/ client_step
           \/ UNCHANGED vars
  <2>1. UNCHANGED <<query_ids, asked, results, mismatched>>
    BY <1>6 DEF handle_send_query, next_event, on_ping, client_step, vars, gatewayVars
  <2> QED
    BY <1>3, <2>1
<1> QED
  BY <1>4, <1>5, <1>6 DEF Next

\* The gateway loses no query it has sent: however often it is retried, and
\* whatever the worker answers, its outcome is pending or known.
THEOREM NoQueryLost == Spec => []OwedOrSettled
<1>1. Init => OwedOrSettled
  BY DEF Init, OwedOrSettled
<1>2. GatewayInv /\ GatewayInv' /\ OwedOrSettled /\ [Next]_vars => OwedOrSettled'
  BY StepKeepsSettled
<1> QED
  BY <1>1, <1>2, GatewayInvariant, PTL DEF Spec
=============================================================================
