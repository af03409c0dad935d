------------------------- MODULE RequestClientProofs -------------------------
(* ClientInv is inductive; the safety properties of RequestClient follow.     *)
EXTENDS RequestClient, FiniteSetTheorems, TLAPS

\* The ids the inner behaviour hands out are finitely many.
LEMMA ReqIdFinite == IsFiniteSet(ReqId)
BY FS_Interval, MaxIdsAssumption DEF ReqId

\* The copies kept for a retry are finitely many, and removing some frees room.
LEMMA BufferShrinks ==
    ASSUME ClientTypeOK, BufferBound, NEW S
    PROVE  Cardinality(original_requests \ S) <= MaxBuffered
<1>1. IsFiniteSet(original_requests)
  BY ReqIdFinite, FS_Subset DEF ClientTypeOK
<1>2. /\ IsFiniteSet(original_requests \ S)
      /\ Cardinality(original_requests \ S) <= Cardinality(original_requests)
  BY <1>1, FS_Subset
<1> QED
  BY <1>1, <1>2, FS_CardinalityType, MaxBufferedAssumption DEF BufferBound

\* ClientBehaviour::new starts with consistent, empty books.
LEMMA InitInv == ClientInit => ClientInv
<1> SUFFICES ASSUME ClientInit PROVE ClientInv
  OBVIOUS
<1>1. ClientTypeOK
  BY MaxIdsAssumption DEF ClientInit, ClientTypeOK, ReqId, NoId
<1>2. BufferBound
  BY FS_EmptySet, MaxBufferedAssumption DEF ClientInit, BufferBound
<1> QED
  BY <1>1, <1>2 DEF ClientInit, ClientInv, FreshIds, OneSubmission, InflightInv,
     WaitingInv, NoLeak, OpenInv, OneOwnAnswer, LookupArmed, Open

\* A first submission m that fails for a peer without a lookup: one buffered
\* request for every lookup, and m itself on top, so there is room for one more.
LEMMA LookupHasRoom ==
    ASSUME ClientInv, NEW m \in inflight,
           resubmitted_requests[m.id] = NoId, m.peer \notin lookup_timeouts
    PROVE  /\ IsFiniteSet(lookup_timeouts)
           /\ Cardinality(lookup_timeouts) < MaxBuffered
<1> DEFINE others == original_requests \ {m.id}
           witness == [p \in lookup_timeouts |-> CHOOSE r \in ReqId :
                                                    r \in waiting_for_connection[p]]
<1> USE DEF ClientInv
<1>1. m \in Submission /\ m.id \in ReqId /\ m.peer \in Peers
  BY DEF ClientTypeOK, Submission
<1>2. /\ m.call = m.id
      /\ m.id \in original_requests
      /\ \A p \in Peers : m.id \notin waiting_for_connection[p]
  BY <1>1 DEF InflightInv, FirstInv
<1>3. \A p \in lookup_timeouts : witness[p] \in waiting_for_connection[p]
  <2> SUFFICES ASSUME NEW p \in lookup_timeouts
               PROVE  witness[p] \in waiting_for_connection[p]
    OBVIOUS
  <2>1. p \in Peers /\ waiting_for_connection[p] \in SUBSET ReqId
    BY DEF ClientTypeOK
  <2>2. \E r \in ReqId : r \in waiting_for_connection[p]
    BY <2>1 DEF LookupArmed
  <2> QED
    BY <2>2
<1>4. witness \in [lookup_timeouts -> others]
  <2> SUFFICES ASSUME NEW p \in lookup_timeouts
               PROVE  witness[p] \in others
    OBVIOUS
  <2>1. p \in Peers
    BY DEF ClientTypeOK
  <2> HIDE DEF witness
  <2> QED
    BY <1>2, <1>3, <2>1 DEF WaitingInv
<1>5. \A p, q \in lookup_timeouts : witness[p] = witness[q] => p = q
  <2> HIDE DEF witness
  <2> QED
    BY <1>3 DEF WaitingInv, ClientTypeOK
<1>6. witness \in Injection(lookup_timeouts, others)
  <2> HIDE DEF witness
  <2> QED
    BY <1>4, <1>5 DEF Injection, IsInjective
<1>7. IsFiniteSet(original_requests)
  BY ReqIdFinite, FS_Subset DEF ClientTypeOK
<1>8. /\ IsFiniteSet(others)
      /\ Cardinality(others) = Cardinality(original_requests) - 1
  BY <1>2, <1>7, FS_RemoveElement
<1>9. /\ IsFiniteSet(lookup_timeouts)
      /\ Cardinality(lookup_timeouts) <= Cardinality(others)
  <2> HIDE DEF witness, others
  <2> QED
    BY <1>6, <1>8, FS_Injection
<1> QED
  BY <1>7, <1>8, <1>9, FS_CardinalityType, MaxBufferedAssumption DEF BufferBound

\* Accepting a request uses a fresh id and a free place in the buffer.
LEMMA SendInv ==
    ASSUME ClientInv, NEW p \in Peers, try_send_request(p)
    PROVE  ClientInv'
<1> USE DEF ClientInv
<1> DEFINE i == next_id + 1
           new == [id |-> i, peer |-> p, call |-> i]
<1>1. /\ i \in ReqId /\ i > next_id /\ new \in Submission /\ next_id \in 0..MaxIds
      /\ next_id' = i
      /\ inflight' = inflight \cup {new}
      /\ original_requests' = original_requests \cup {i}
      /\ sent' = [sent EXCEPT ![i] = @ + 1]
      /\ UNCHANGED <<waiting_for_connection, resubmitted_requests,
                     lookup_timeouts, pending_events, answers>>
  BY MaxIdsAssumption DEF try_send_request, ClientTypeOK, ReqId, Submission
<1>2. /\ sent[i] = 0 /\ answers[i] = <<>> /\ resubmitted_requests[i] = NoId
      /\ \A m \in inflight : m.id # i /\ m.call # i
  BY <1>1 DEF FreshIds, ClientTypeOK, Submission, ReqId
<1>3. \A q \in Peers : i \notin waiting_for_connection[q]
  BY <1>2 DEF WaitingInv
<1>4. i \notin original_requests
  BY <1>2, <1>3 DEF NoLeak, FirstTry, Waiting
<1>5. ClientTypeOK'
  <2>1. next_id' \in 0..MaxIds
    BY <1>1 DEF ReqId
  <2>2. sent' \in [ReqId -> Nat]
    BY <1>1 DEF ClientTypeOK
  <2> QED
    BY <1>1, <2>1, <2>2 DEF ClientTypeOK
<1>6. FreshIds'
  BY <1>1, <1>2 DEF FreshIds, ClientTypeOK, Submission, ReqId
<1>7. OneSubmission'
  BY <1>1, <1>2 DEF OneSubmission
<1>8. InflightInv'
  <2> SUFFICES ASSUME NEW m \in inflight'
      PROVE /\ (IF resubmitted_requests[m.id] = NoId THEN FirstInv(m) ELSE RetryInv(m))'
            /\ answers'[m.call] = <<>>
            /\ \A q \in Peers : m.call \notin waiting_for_connection'[q]
    BY DEF InflightInv
  <2>1. CASE m = new
    BY <2>1, <1>1, <1>2, <1>3 DEF FirstInv, ClientTypeOK
  <2>2. CASE m \in inflight
    BY <2>2, <1>1, <1>2 DEF InflightInv, FirstInv, RetryInv, ClientTypeOK, Submission
  <2> QED
    BY <2>1, <2>2, <1>1
<1>9. WaitingInv'
  BY <1>1, <1>3 DEF WaitingInv, ClientTypeOK
<1>10. NoLeak'
  BY <1>1, <1>2 DEF NoLeak, FirstTry, Waiting
<1>11. OpenInv'
  <2> SUFFICES ASSUME NEW r \in ReqId
      PROVE  /\ Open(r)' => FirstTry(r)' \/ Waiting(r)' \/ Retry(r)'
             /\ sent'[r] <= 2
    BY DEF OpenInv
  <2>1. CASE r = i
    BY <2>1, <1>1, <1>2 DEF FirstTry, ClientTypeOK
  <2>2. CASE r # i
    <3>1. sent'[r] = sent[r] /\ (Open(r)' <=> Open(r))
      BY <2>2, <1>1 DEF Open, ClientTypeOK
    <3> QED
      BY <3>1, <1>1 DEF OpenInv, FirstTry, Waiting, Retry
  <2> QED
    BY <2>1, <2>2
<1>12. OneOwnAnswer'
  BY <1>1, <1>2 DEF OneOwnAnswer, ClientTypeOK
<1>13. LookupArmed'
  BY <1>1 DEF LookupArmed
<1>14. BufferBound'
  <2>1. IsFiniteSet(original_requests)
    BY ReqIdFinite, FS_Subset DEF ClientTypeOK
  <2>2. Cardinality(original_requests \cup {i}) = Cardinality(original_requests) + 1
    BY <2>1, <1>4, FS_AddElement
  <2>3. Cardinality(original_requests) < MaxBuffered
    BY DEF try_send_request, HasRoom
  <2> QED
    BY <1>1, <2>1, <2>2, <2>3, FS_CardinalityType, MaxBufferedAssumption DEF BufferBound
<1> QED
  BY <1>5, <1>6, <1>7, <1>8, <1>9, <1>10, <1>11, <1>12, <1>13, <1>14

\* Handing an event to the owner leaves the books alone.
LEMMA PollInv ==
    ASSUME ClientInv, poll
    PROVE  ClientInv'
<1> USE DEF ClientInv, poll
<1>1. ClientTypeOK'
  BY DEF ClientTypeOK
<1> QED
  BY <1>1 DEF FreshIds, OneSubmission, InflightInv, FirstInv, RetryInv, WaitingInv,
     NoLeak, OpenInv, OneOwnAnswer, LookupArmed, BufferBound, Open, FirstTry,
     Waiting, Retry

\* What holds of a submission the inner behaviour reports on: it is the only
\* one of its request, and the owner's id for it is the request.
LEMMA ReportFacts ==
    ASSUME ClientInv, NEW m \in inflight
    PROVE  /\ m.id \in ReqId /\ m.call \in ReqId /\ m.peer \in Peers
           /\ OldId(m.id) = m.call
           /\ answers[m.call] = <<>>
           /\ sent[m.call] \in {1, 2}
           /\ \A n \in inflight : n # m =>
                 n.id # m.id /\ n.call # m.call /\ n.call # m.id /\ n.id # m.call
           /\ m.id > NoId
<1> USE DEF ClientInv
<1>1. m \in Submission
  BY DEF ClientTypeOK
<1>2. m.id \in ReqId /\ m.call \in ReqId /\ m.peer \in Peers /\ m.id > NoId
  BY <1>1 DEF Submission, ReqId, NoId
<1>3. /\ OldId(m.id) = m.call
      /\ answers[m.call] = <<>>
      /\ sent[m.call] \in {1, 2}
  BY <1>2 DEF InflightInv, FirstInv, RetryInv, OldId
<1>4. ASSUME NEW n \in inflight, n # m
      PROVE  n.id # m.id /\ n.call # m.call /\ n.call # m.id /\ n.id # m.call
  <2>1. n.id # m.id /\ n.call # m.call
    BY <1>4 DEF OneSubmission
  <2>2. n.call # m.id
    BY <2>1 DEF InflightInv, FirstInv, RetryInv
  <2>3. n.id # m.call
    BY <2>1 DEF InflightInv, FirstInv, RetryInv
  <2> QED
    BY <2>1, <2>2, <2>3
<1> QED
  BY <1>2, <1>3, <1>4

\* Resolving the request of a submission, with its response or a Timeout.
LEMMA ResolveInv ==
    ASSUME ClientInv, NEW m \in inflight, NEW x \in {m.call, NoId},
           inflight' = inflight \ {m},
           original_requests' = original_requests \ {m.id},
           resubmitted_requests' = [resubmitted_requests EXCEPT ![m.id] = NoId],
           answers' = [answers EXCEPT ![m.call] = <<x>>],
           pending_events' \in Seq(Event),
           UNCHANGED <<next_id, waiting_for_connection, lookup_timeouts, sent>>
    PROVE  ClientInv'
<1> USE DEF ClientInv
<1>1. /\ m.id \in ReqId /\ m.call \in ReqId /\ m.peer \in Peers
      /\ answers[m.call] = <<>>
      /\ sent[m.call] \in {1, 2}
      /\ \A n \in inflight : n # m =>
            n.id # m.id /\ n.call # m.call /\ n.call # m.id /\ n.id # m.call
  BY ReportFacts
<1>2. /\ \A r \in ReqId : r # m.call => answers'[r] = answers[r]
      /\ answers'[m.call] = <<x>>
      /\ \A i \in ReqId : i # m.id => resubmitted_requests'[i] = resubmitted_requests[i]
      /\ resubmitted_requests'[m.id] = NoId
  BY <1>1 DEF ClientTypeOK
<1>3. /\ \A p \in Peers : m.call \notin waiting_for_connection[p]
      /\ \A p \in Peers : m.id \notin waiting_for_connection[p]
  BY <1>1 DEF InflightInv, FirstInv, RetryInv, WaitingInv
<1>4. ClientTypeOK'
  <2>1. answers' \in [ReqId -> Seq(ReqId \cup {NoId})]
    BY <1>1 DEF ClientTypeOK
  <2>2. resubmitted_requests' \in [ReqId -> ReqId \cup {NoId}]
    BY DEF ClientTypeOK
  <2> QED
    BY <2>1, <2>2 DEF ClientTypeOK
<1>5. FreshIds'
  BY <1>1, <1>2 DEF FreshIds, ClientTypeOK
<1>6. OneSubmission'
  BY DEF OneSubmission
<1>7. InflightInv'
  <2> SUFFICES ASSUME NEW n \in inflight, n # m
      PROVE /\ (IF resubmitted_requests[n.id] = NoId THEN FirstInv(n) ELSE RetryInv(n))'
            /\ answers'[n.call] = <<>>
            /\ \A q \in Peers : n.call \notin waiting_for_connection'[q]
    BY DEF InflightInv
  <2>1. n.id \in ReqId /\ n.call \in ReqId
    BY ReportFacts
  <2>2. /\ n.id # m.id /\ n.call # m.call /\ n.call # m.id /\ n.id # m.call
        /\ resubmitted_requests'[n.id] = resubmitted_requests[n.id]
        /\ answers'[n.call] = answers[n.call]
        /\ answers'[n.id] = answers[n.id]
    BY <1>1, <1>2, <2>1
  <2> QED
    BY <2>2 DEF InflightInv, FirstInv, RetryInv
<1>8. WaitingInv'
  BY <1>2, <1>3 DEF WaitingInv, ClientTypeOK
<1>9. NoLeak'
  <2>1. ASSUME NEW i \in ReqId, resubmitted_requests'[i] # NoId
        PROVE  \E n \in inflight' : n.id = i
    <3>1. i # m.id /\ resubmitted_requests[i] # NoId
      BY <2>1, <1>2
    <3>2. PICK n \in inflight : n.id = i
      BY <3>1 DEF NoLeak
    <3> QED
      BY <3>1, <3>2
  <2>2. ASSUME NEW r \in original_requests'
        PROVE  FirstTry(r)' \/ Waiting(r)'
    <3>1. r # m.id /\ (FirstTry(r) \/ Waiting(r))
      BY DEF NoLeak
    <3> QED
      BY <3>1 DEF FirstTry, Waiting
  <2> QED
    BY <2>1, <2>2 DEF NoLeak
<1>10. OpenInv'
  <2> SUFFICES ASSUME NEW r \in ReqId
      PROVE  /\ Open(r)' => FirstTry(r)' \/ Waiting(r)' \/ Retry(r)'
             /\ sent'[r] <= 2
    BY DEF OpenInv
  <2>1. CASE r = m.call
    BY <2>1, <1>2 DEF OpenInv, Open
  <2>2. CASE r # m.call
    <3>1. Open(r)' => Open(r)
      BY <2>2, <1>2 DEF Open
    <3> QED
      BY <3>1, <2>2 DEF OpenInv, FirstTry, Waiting, Retry
  <2> QED
    BY <2>1, <2>2
<1>11. OneOwnAnswer'
  BY <1>1, <1>2 DEF OneOwnAnswer, ClientTypeOK
<1>12. LookupArmed'
  BY DEF LookupArmed
<1>13. BufferBound'
  BY BufferShrinks DEF BufferBound
<1> QED
  BY <1>4, <1>5, <1>6, <1>7, <1>8, <1>9, <1>10, <1>11, <1>12, <1>13

\* A response resolves its request, whether it was retried or not.
LEMMA SuccessInv ==
    ASSUME ClientInv, NEW m \in inflight, on_success(m)
    PROVE  ClientInv'
<1> USE DEF on_success, Forget
<1>1. /\ m.id \in ReqId /\ m.call \in ReqId /\ m.peer \in Peers
      /\ OldId(m.id) = m.call
      /\ answers[m.call] = <<>>
  BY ReportFacts
<1>2. answers \in [ReqId -> Seq(ReqId \cup {NoId})]
  BY DEF ClientInv, ClientTypeOK
<1>3. answers' = [answers EXCEPT ![m.call] = <<m.call>>]
  BY <1>1, <1>2
<1>4. pending_events' \in Seq(Event)
  BY <1>1 DEF Response, Event
<1>5. /\ inflight' = inflight \ {m}
      /\ original_requests' = original_requests \ {m.id}
      /\ resubmitted_requests' = [resubmitted_requests EXCEPT ![m.id] = NoId]
      /\ UNCHANGED <<next_id, waiting_for_connection, lookup_timeouts, sent>>
  OBVIOUS
<1> HIDE DEF on_success, Forget
<1> QED
  BY <1>3, <1>4, <1>5, ResolveInv

\* A retry that fails is resolved with a Timeout; its new id has no copy.
LEMMA FailedAgainInv ==
    ASSUME ClientInv, NEW m \in inflight, on_failure(m), failed_again(m)
    PROVE  ClientInv'
<1>1. /\ m.id \in ReqId /\ m.call \in ReqId /\ m.peer \in Peers
      /\ answers[m.call] = <<>>
  BY ReportFacts
<1>2. RetryInv(m) /\ resubmitted_requests[m.id] = m.call
  BY DEF ClientInv, InflightInv, RetryInv, failed_again
<1>3. answers \in [ReqId -> Seq(ReqId \cup {NoId})]
  BY DEF ClientInv, ClientTypeOK
<1>4. answers' = [answers EXCEPT ![m.call] = <<NoId>>]
  <2>1. answers' = [answers EXCEPT ![m.call] = Append(answers[m.call], NoId)]
    BY <1>2 DEF failed_again
  <2>2. Append(answers[m.call], NoId) = <<NoId>>
    BY <1>1 DEF NoId
  <2> QED
    BY <2>1, <2>2
<1>5. pending_events' \in Seq(Event)
  BY <1>1, <1>2 DEF failed_again, Timeout, Event
<1>6. m.id \notin original_requests
  <2> SUFFICES ASSUME m.id \in original_requests PROVE FALSE
    OBVIOUS
  <2>1. CASE Waiting(m.id)
    BY <2>1, <1>2 DEF Waiting, ClientInv, WaitingInv, RetryInv
  <2>2. CASE FirstTry(m.id)
    BY <2>2, <1>2 DEF FirstTry, ClientInv, OneSubmission, RetryInv
  <2> QED
    BY <2>1, <2>2 DEF ClientInv, NoLeak
<1>7. original_requests' = original_requests \ {m.id}
  BY <1>6 DEF on_failure
<1> QED
  BY <1>4, <1>5, <1>7, ResolveInv DEF on_failure, failed_again

\* A first submission that fails: its request starts to wait, and a lookup runs.
LEMMA FailedFirstInv ==
    ASSUME ClientInv, NEW m \in inflight, on_failure(m), failed_first(m)
    PROVE  ClientInv'
<1> USE DEF ClientInv
<1>1. /\ m.id \in ReqId /\ m.peer \in Peers
      /\ answers[m.call] = <<>>
      /\ \A n \in inflight : n # m =>
            n.id # m.id /\ n.call # m.call /\ n.call # m.id /\ n.id # m.call
  BY ReportFacts
<1>2. /\ resubmitted_requests[m.id] = NoId
      /\ m.call = m.id /\ m.id \in original_requests /\ sent[m.id] = 1
      /\ \A p \in Peers : m.id \notin waiting_for_connection[p]
  BY DEF failed_first, InflightInv, FirstInv
<1>3. /\ inflight' = inflight \ {m}
      /\ waiting_for_connection' =
            [waiting_for_connection EXCEPT ![m.peer] = @ \cup {m.id}]
      /\ UNCHANGED <<next_id, original_requests, sent, resubmitted_requests, answers>>
  BY DEF on_failure, failed_first
<1>4. lookup_timeouts' = lookup_timeouts \cup {m.peer} /\ pending_events' \in Seq(Event)
  <2>1. CASE m.peer \in lookup_timeouts
    BY <2>1 DEF failed_first, ClientTypeOK
  <2>2. CASE m.peer \notin lookup_timeouts
    <3>1. Cardinality(lookup_timeouts) < MaxBuffered
      BY <2>2, <1>2, LookupHasRoom
    <3>2. pending_events' = <<PeerUnknown(m.peer)>> /\ lookup_timeouts' = TryPush(m.peer)
      BY <2>2 DEF failed_first
    <3>3. PeerUnknown(m.peer) \in Event
      BY <1>1 DEF PeerUnknown, Event
    <3> QED
      BY <3>1, <3>2, <3>3 DEF TryPush
  <2> QED
    BY <2>1, <2>2
<1>5. \A p \in Peers : \A r : r \in waiting_for_connection'[p] <=>
          r \in waiting_for_connection[p] \/ (p = m.peer /\ r = m.id)
  BY <1>1, <1>3 DEF ClientTypeOK
<1>6. ClientTypeOK'
  BY <1>1, <1>3, <1>4 DEF ClientTypeOK
<1>7. FreshIds' /\ OneSubmission' /\ OneOwnAnswer' /\ BufferBound'
  BY <1>3 DEF FreshIds, OneSubmission, OneOwnAnswer, BufferBound
<1>8. InflightInv'
  <2> SUFFICES ASSUME NEW n \in inflight, n # m
      PROVE /\ (IF resubmitted_requests[n.id] = NoId THEN FirstInv(n) ELSE RetryInv(n))'
            /\ answers'[n.call] = <<>>
            /\ \A q \in Peers : n.call \notin waiting_for_connection'[q]
    BY <1>3 DEF InflightInv
  <2> QED
    BY <1>1, <1>3, <1>5 DEF InflightInv, FirstInv, RetryInv
<1>9. WaitingInv'
  BY <1>1, <1>2, <1>3, <1>5 DEF WaitingInv
<1>10. NoLeak'
  <2>1. ASSUME NEW i \in ReqId, resubmitted_requests'[i] # NoId
        PROVE  \E n \in inflight' : n.id = i
    <3>1. PICK n \in inflight : n.id = i
      BY <2>1, <1>3 DEF NoLeak
    <3> QED
      BY <3>1, <2>1, <1>2, <1>3
  <2>2. ASSUME NEW r \in original_requests'
        PROVE  FirstTry(r)' \/ Waiting(r)'
    <3>1. FirstTry(r) \/ Waiting(r)
      BY <1>3 DEF NoLeak
    <3> QED
      BY <3>1, <1>1, <1>2, <1>3, <1>5 DEF FirstTry, Waiting
  <2> QED
    BY <2>1, <2>2 DEF NoLeak
<1>11. OpenInv'
  <2> SUFFICES ASSUME NEW r \in ReqId
      PROVE  /\ Open(r)' => FirstTry(r)' \/ Waiting(r)' \/ Retry(r)'
             /\ sent'[r] <= 2
    BY DEF OpenInv
  <2>1. Open(r)' <=> Open(r)
    BY <1>3 DEF Open
  <2> QED
    BY <2>1, <1>1, <1>2, <1>3, <1>5 DEF OpenInv, FirstTry, Waiting, Retry
<1>12. LookupArmed'
  BY <1>1, <1>4, <1>5 DEF LookupArmed
<1> QED
  BY <1>6, <1>7, <1>8, <1>9, <1>10, <1>11, <1>12

\* A lookup that times out resolves everything that waited for the peer, and
\* nothing else.
LEMMA TimeoutInv ==
    ASSUME ClientInv, NEW p \in Peers, on_timeout(p)
    PROVE  ClientInv'
<1> USE DEF ClientInv
<1> DEFINE buffered == waiting_for_connection[p]
           n == Cardinality(buffered)
<1>1. /\ lookup_timeouts' = lookup_timeouts \ {p}
      /\ waiting_for_connection' = [waiting_for_connection EXCEPT ![p] = {}]
      /\ original_requests' = original_requests \ buffered
      /\ answers' = [r \in ReqId |->
            IF r \in buffered THEN Append(answers[r], NoId) ELSE answers[r]]
      /\ UNCHANGED <<next_id, inflight, resubmitted_requests, sent>>
  BY DEF on_timeout, StopLookup, TakeWaiting, Forget
<1>2. /\ buffered \subseteq ReqId
      /\ n \in Nat
  <2>1. buffered \subseteq ReqId
    BY DEF ClientTypeOK
  <2> QED
    BY <2>1, ReqIdFinite, FS_Subset, FS_CardinalityType
<1>3. \A r \in buffered : /\ r \in original_requests
                          /\ sent[r] = 1
                          /\ answers[r] = <<>>
                          /\ \A q \in Peers : r \in waiting_for_connection[q] => q = p
                          /\ \A m \in inflight : m.call # r
  BY DEF WaitingInv, InflightInv
<1>4. /\ \A r \in buffered : answers'[r] = <<NoId>>
      /\ \A r \in ReqId \ buffered : answers'[r] = answers[r]
  <2>1. \A r \in buffered : answers'[r] = Append(<<>>, NoId)
    BY <1>1, <1>2, <1>3
  <2>2. Append(<<>>, NoId) = <<NoId>>
    BY DEF NoId
  <2>3. \A r \in ReqId \ buffered : answers'[r] = answers[r]
    BY <1>1
  <2> QED
    BY <2>1, <2>2, <2>3
<1>5. \A q \in Peers : waiting_for_connection'[q] =
          IF q = p THEN {} ELSE waiting_for_connection[q]
  BY <1>1 DEF ClientTypeOK
<1>6. ClientTypeOK'
  <2>1. pending_events' \in Seq(Event)
    <3>1. PICK order \in Bijection(1..n, buffered) :
             pending_events' = [k \in 1..n |-> Timeout(p, order[k])]
      BY DEF on_timeout
    <3>2. order \in [1..n -> buffered]
      BY DEF Bijection, Injection
    <3>3. \A k \in 1..n : Timeout(p, order[k]) \in Event
      <4> HIDE DEF n, buffered
      <4> QED
        BY <3>2, <1>2 DEF Timeout, Event
    <3> HIDE DEF n, buffered
    <3> QED
      BY <3>1, <3>3, <1>2
  <2>2. answers' \in [ReqId -> Seq(ReqId \cup {NoId})]
    <3>1. <<NoId>> \in Seq(ReqId \cup {NoId})
      BY DEF NoId
    <3>2. \A r \in ReqId : answers'[r] \in Seq(ReqId \cup {NoId})
      BY <3>1, <1>4 DEF ClientTypeOK
    <3>3. answers' = [r \in ReqId |-> answers'[r]]
      BY <1>1
    <3> QED
      BY <3>2, <3>3
  <2>3. waiting_for_connection' \in [Peers -> SUBSET ReqId]
    BY <1>1 DEF ClientTypeOK
  <2> QED
    BY <1>1, <2>1, <2>2, <2>3 DEF ClientTypeOK
<1> HIDE DEF buffered, n
<1>7. FreshIds'
  <2>1. \A r \in buffered : r <= next_id
    BY <1>2, <1>3 DEF FreshIds, ClientTypeOK, ReqId
  <2> QED
    BY <2>1, <1>1, <1>2, <1>4 DEF FreshIds, ClientTypeOK, ReqId
<1>8. OneSubmission'
  BY <1>1 DEF OneSubmission
<1>9. InflightInv'
  <2> SUFFICES ASSUME NEW m \in inflight
      PROVE /\ (IF resubmitted_requests[m.id] = NoId THEN FirstInv(m) ELSE RetryInv(m))'
            /\ answers'[m.call] = <<>>
            /\ \A q \in Peers : m.call \notin waiting_for_connection'[q]
    BY <1>1 DEF InflightInv
  <2>1. m.id \in ReqId /\ m.call \in ReqId /\ m.call \notin buffered
    BY <1>3, ReportFacts
  <2>2. m.id \notin buffered
    BY <2>1, <1>3 DEF InflightInv, FirstInv, RetryInv
  <2>3. answers'[m.call] = answers[m.call] /\ answers'[m.id] = answers[m.id]
    BY <1>4, <2>1, <2>2
  <2> QED
    BY <1>1, <1>5, <2>1, <2>2, <2>3 DEF InflightInv, FirstInv, RetryInv
<1>10. WaitingInv'
  <2> SUFFICES ASSUME NEW q \in Peers, NEW r \in waiting_for_connection'[q]
      PROVE /\ r \in original_requests'
            /\ sent'[r] = 1
            /\ answers'[r] = <<>>
            /\ \A s \in Peers : r \in waiting_for_connection'[s] => s = q
    BY DEF WaitingInv
  <2>1. q # p /\ r \in waiting_for_connection[q]
    BY <1>5
  <2>2. r \in ReqId /\ r \notin buffered
    BY <2>1, <1>3 DEF ClientTypeOK
  <2> QED
    BY <2>1, <2>2, <1>1, <1>4, <1>5 DEF WaitingInv
<1>11. NoLeak'
  BY <1>1, <1>5 DEF NoLeak, FirstTry, Waiting, buffered
<1>12. OpenInv'
  <2> SUFFICES ASSUME NEW r \in ReqId
      PROVE  /\ Open(r)' => FirstTry(r)' \/ Waiting(r)' \/ Retry(r)'
             /\ sent'[r] <= 2
    BY DEF OpenInv
  <2>1. CASE r \in buffered
    <3>1. answers'[r] = <<NoId>> /\ <<NoId>> # <<>>
      BY <2>1, <1>4 DEF NoId
    <3>2. sent'[r] <= 2
      BY <1>1 DEF OpenInv
    <3> QED
      BY <3>1, <3>2 DEF Open
  <2>2. CASE r \notin buffered
    <3>1. Open(r)' <=> Open(r)
      BY <2>2, <1>1, <1>4 DEF Open
    <3> QED
      BY <3>1, <2>2, <1>1, <1>5 DEF OpenInv, FirstTry, Waiting, Retry, buffered
  <2> QED
    BY <2>1, <2>2
<1>13. OneOwnAnswer'
  <2> SUFFICES ASSUME NEW r \in ReqId
      PROVE  /\ answers'[r] \in {<<>>, <<r>>, <<NoId>>}
             /\ answers'[r] # <<>> => sent'[r] > 0
    BY DEF OneOwnAnswer
  <2>1. CASE r \in buffered
    BY <2>1, <1>1, <1>3, <1>4
  <2>2. CASE r \notin buffered
    BY <2>2, <1>1, <1>4 DEF OneOwnAnswer
  <2> QED
    BY <2>1, <2>2
<1>14. LookupArmed'
  BY <1>1, <1>5 DEF LookupArmed
<1>15. BufferBound'
  BY <1>1, BufferShrinks DEF BufferBound
<1> QED
  BY <1>6, <1>7, <1>8, <1>9, <1>10, <1>11, <1>12, <1>13, <1>14, <1>15

\* The requests that waited for p are submitted again under fresh ids.
LEMMA ConnectionInv ==
    ASSUME ClientInv, NEW p \in Peers, on_connection_established(p)
    PROVE  ClientInv'
<1> USE DEF ClientInv
<1> DEFINE known == waiting_for_connection[p] \cap original_requests
           last == next_id + Cardinality(known)
           fresh == (next_id + 1)..last
<1>1. /\ known = waiting_for_connection[p]
      /\ known \subseteq ReqId
      /\ Cardinality(known) \in Nat
  <2>1. known = waiting_for_connection[p] /\ known \subseteq ReqId
    BY DEF WaitingInv, ClientTypeOK
  <2> QED
    BY <2>1, ReqIdFinite, FS_Subset, FS_CardinalityType
<1>2. /\ last <= MaxIds
      /\ next_id' = last
      /\ lookup_timeouts' = lookup_timeouts \ {p}
      /\ waiting_for_connection' = [waiting_for_connection EXCEPT ![p] = {}]
      /\ original_requests' = original_requests \ known
      /\ sent' = [r \in ReqId |-> IF r \in known THEN sent[r] + 1 ELSE sent[r]]
      /\ UNCHANGED <<pending_events, answers>>
  BY DEF on_connection_established, StopLookup, TakeWaiting, Forget
<1>3. PICK old \in Bijection(fresh, known) :
         /\ inflight' = inflight \cup
               {[id |-> i, peer |-> p, call |-> old[i]] : i \in fresh}
         /\ resubmitted_requests' = [i \in ReqId |->
               IF i \in fresh THEN old[i] ELSE resubmitted_requests[i]]
  BY DEF on_connection_established
<1>4. /\ last \in 0..MaxIds /\ next_id <= last /\ next_id \in 0..MaxIds
      /\ fresh \subseteq ReqId
      /\ \A i \in ReqId : i \in fresh <=> next_id < i /\ i <= last
  <2>1. next_id \in 0..MaxIds
    BY DEF ClientTypeOK
  <2> HIDE DEF known
  <2> QED
    BY <2>1, <1>1, <1>2, MaxIdsAssumption DEF ReqId
<1>5. /\ old \in [fresh -> known]
      /\ \A i, j \in fresh : old[i] = old[j] => i = j
      /\ \A r \in known : \E i \in fresh : old[i] = r
  BY DEF Bijection, Injection, Surjection, IsInjective
<1>6. \A r \in known : /\ r \in original_requests
                       /\ sent[r] = 1
                       /\ answers[r] = <<>>
                       /\ resubmitted_requests[r] = NoId
                       /\ r <= next_id /\ r \notin fresh
                       /\ \A q \in Peers : r \in waiting_for_connection[q] => q = p
                       /\ \A m \in inflight : m.call # r /\ m.id # r
  <2> SUFFICES ASSUME NEW r \in known
      PROVE  /\ r \in original_requests
             /\ sent[r] = 1
             /\ answers[r] = <<>>
             /\ resubmitted_requests[r] = NoId
             /\ r <= next_id /\ r \notin fresh
             /\ \A q \in Peers : r \in waiting_for_connection[q] => q = p
             /\ \A m \in inflight : m.call # r /\ m.id # r
    OBVIOUS
  <2>1. /\ r \in original_requests /\ sent[r] = 1 /\ answers[r] = <<>>
        /\ \A q \in Peers : r \in waiting_for_connection[q] => q = p
    BY <1>1 DEF WaitingInv
  <2>2. \A m \in inflight : m.call # r /\ m.id # r
    BY <1>1, <2>1 DEF InflightInv, FirstInv, RetryInv
  <2>3. resubmitted_requests[r] = NoId
    BY <1>1, <2>2 DEF NoLeak
  <2>4. r <= next_id /\ r \notin fresh
    BY <1>1, <1>4, <2>1 DEF FreshIds, ReqId
  <2> QED
    BY <2>1, <2>2, <2>3, <2>4
<1>7. \A i \in fresh : /\ sent[i] = 0 /\ answers[i] = <<>>
                       /\ \A m \in inflight : m.id # i /\ m.call # i
  <2> SUFFICES ASSUME NEW i \in fresh
      PROVE  /\ sent[i] = 0 /\ answers[i] = <<>>
             /\ \A m \in inflight : m.id # i /\ m.call # i
    OBVIOUS
  <2>1. i \in ReqId /\ next_id < i
    BY <1>4
  <2>2. ASSUME NEW m \in inflight PROVE m.id # i /\ m.call # i
    <3>1. m.id \in ReqId /\ m.call \in ReqId
      BY ReportFacts
    <3> QED
      BY <3>1, <2>1, <1>4 DEF FreshIds, ReqId
  <2> QED
    BY <2>1, <2>2 DEF FreshIds
<1>8. \A q \in Peers : waiting_for_connection'[q] =
          IF q = p THEN {} ELSE waiting_for_connection[q]
  BY <1>2 DEF ClientTypeOK
<1> HIDE DEF known, last, fresh
<1>9. /\ \A r \in known : sent'[r] = 2
      /\ \A r \in ReqId \ known : sent'[r] = sent[r]
      /\ \A i \in fresh : resubmitted_requests'[i] = old[i]
      /\ \A i \in ReqId \ fresh : resubmitted_requests'[i] = resubmitted_requests[i]
  BY <1>1, <1>2, <1>3, <1>4, <1>6
<1>10. \A m \in inflight' : \/ m \in inflight
                            \/ /\ m.id \in fresh
                               /\ m.call = old[m.id] /\ m.call \in known
                               /\ m = [id |-> m.id, peer |-> p, call |-> old[m.id]]
  BY <1>3, <1>5
<1>11. \A i \in ReqId : i # NoId
  BY DEF ReqId, NoId
<1>12. ClientTypeOK'
  <2>1. inflight' \in SUBSET Submission
    BY <1>1, <1>4, <1>10 DEF ClientTypeOK, Submission
  <2>2. resubmitted_requests' \in [ReqId -> ReqId \cup {NoId}]
    BY <1>1, <1>3, <1>5 DEF ClientTypeOK
  <2>3. sent' \in [ReqId -> Nat]
    BY <1>2 DEF ClientTypeOK
  <2>4. waiting_for_connection' \in [Peers -> SUBSET ReqId]
    BY <1>2 DEF ClientTypeOK
  <2> QED
    BY <1>2, <1>4, <2>1, <2>2, <2>3, <2>4 DEF ClientTypeOK
<1>13. FreshIds'
  <2>1. ASSUME NEW i \in ReqId, i > next_id'
        PROVE  sent'[i] = 0 /\ answers'[i] = <<>> /\ resubmitted_requests'[i] = NoId
    <3>1. i > next_id /\ i \notin fresh /\ i \notin known
      BY <2>1, <1>1, <1>2, <1>4, <1>6 DEF ReqId
    <3> QED
      BY <3>1, <1>2, <1>9 DEF FreshIds
  <2>2. ASSUME NEW m \in inflight'
        PROVE  m.id <= next_id' /\ m.call <= next_id'
    <3>1. CASE m \in inflight
      <4>1. m.id \in ReqId /\ m.call \in ReqId
        BY <3>1, ReportFacts
      <4> QED
        BY <3>1, <4>1, <1>2, <1>4 DEF FreshIds, ReqId
    <3>2. CASE m.id \in fresh /\ m.call \in known
      <4>1. m.id \in ReqId /\ m.call \in ReqId
        BY <3>2, <1>1, <1>4
      <4>2. m.id <= last /\ m.call <= next_id
        BY <3>2, <4>1, <1>4, <1>6
      <4> QED
        BY <4>1, <4>2, <1>2, <1>4 DEF ReqId
    <3> QED
      BY <3>1, <3>2, <1>10
  <2> QED
    BY <2>1, <2>2 DEF FreshIds
<1>14. OneSubmission'
  <2> SUFFICES ASSUME NEW m \in inflight', NEW n \in inflight',
                      m.id = n.id \/ m.call = n.call
               PROVE  m = n
    BY DEF OneSubmission
  <2>1. CASE m \in inflight /\ n \in inflight
    BY <2>1 DEF OneSubmission
  <2>2. CASE m \notin inflight /\ n \notin inflight
    BY <2>2, <1>5, <1>10
  <2>3. CASE m \in inflight /\ n \notin inflight
    BY <2>3, <1>6, <1>7, <1>10
  <2>4. CASE m \notin inflight /\ n \in inflight
    BY <2>4, <1>6, <1>7, <1>10
  <2> QED
    BY <2>1, <2>2, <2>3, <2>4
<1>15. InflightInv'
  <2> SUFFICES ASSUME NEW m \in inflight'
      PROVE /\ (IF resubmitted_requests[m.id] = NoId THEN FirstInv(m) ELSE RetryInv(m))'
            /\ answers'[m.call] = <<>>
            /\ \A q \in Peers : m.call \notin waiting_for_connection'[q]
    BY DEF InflightInv
  <2>1. CASE m \in inflight
    <3>1. m.id \in ReqId /\ m.call \in ReqId
      BY <2>1, ReportFacts
    <3>2. m.id \notin known /\ m.call \notin known /\ m.id \notin fresh
      BY <2>1, <1>6, <1>7
    <3>3. /\ sent'[m.id] = sent[m.id] /\ sent'[m.call] = sent[m.call]
          /\ resubmitted_requests'[m.id] = resubmitted_requests[m.id]
      BY <3>1, <3>2, <1>9
    <3> QED
      BY <2>1, <3>2, <3>3, <1>2, <1>8 DEF InflightInv, FirstInv, RetryInv
  <2>2. CASE m.id \in fresh /\ m.call = old[m.id] /\ m.call \in known
    <3>1. m.id \in ReqId /\ m.call \in ReqId /\ m.id \notin known /\ m.call # m.id
      BY <2>2, <1>1, <1>4, <1>6
    <3>2. resubmitted_requests'[m.id] = m.call /\ m.call # NoId
      BY <2>2, <3>1, <1>9, <1>11
    <3>3. RetryInv(m)'
      BY <2>2, <3>1, <3>2, <1>2, <1>7, <1>9 DEF RetryInv
    <3>4. \A q \in Peers : m.call \notin waiting_for_connection'[q]
      BY <2>2, <1>6, <1>8
    <3> QED
      BY <2>2, <3>2, <3>3, <3>4, <1>2, <1>6
  <2> QED
    BY <2>1, <2>2, <1>10
<1>16. WaitingInv'
  <2> SUFFICES ASSUME NEW q \in Peers, NEW r \in waiting_for_connection'[q]
      PROVE /\ r \in original_requests'
            /\ sent'[r] = 1
            /\ answers'[r] = <<>>
            /\ \A s \in Peers : r \in waiting_for_connection'[s] => s = q
    BY DEF WaitingInv
  <2>1. q # p /\ r \in waiting_for_connection[q]
    BY <1>8
  <2>2. r \in ReqId /\ r \notin known
    BY <2>1, <1>6 DEF ClientTypeOK
  <2> QED
    BY <2>1, <2>2, <1>2, <1>8, <1>9 DEF WaitingInv
<1>17. NoLeak'
  <2>1. ASSUME NEW i \in ReqId, resubmitted_requests'[i] # NoId
        PROVE  \E n \in inflight' : n.id = i
    <3>1. CASE i \in fresh
      <4>1. [id |-> i, peer |-> p, call |-> old[i]] \in inflight'
        BY <3>1, <1>3
      <4> QED
        BY <4>1
    <3>2. CASE i \notin fresh
      BY <3>2, <2>1, <1>3, <1>9 DEF NoLeak
    <3> QED
      BY <3>1, <3>2
  <2>2. ASSUME NEW r \in original_requests'
        PROVE  FirstTry(r)' \/ Waiting(r)'
    <3>1. r \notin known /\ (FirstTry(r) \/ Waiting(r))
      BY <1>2 DEF NoLeak
    <3> QED
      BY <3>1, <1>1, <1>3, <1>8 DEF FirstTry, Waiting
  <2> QED
    BY <2>1, <2>2 DEF NoLeak
<1>18. OpenInv'
  <2> SUFFICES ASSUME NEW r \in ReqId
      PROVE  /\ Open(r)' => FirstTry(r)' \/ Waiting(r)' \/ Retry(r)'
             /\ sent'[r] <= 2
    BY DEF OpenInv
  <2>1. CASE r \in known
    <3>1. PICK i \in fresh : old[i] = r
      BY <2>1, <1>5
    <3>2. [id |-> i, peer |-> p, call |-> r] \in inflight' /\ i # r
      BY <3>1, <2>1, <1>3, <1>6
    <3> QED
      BY <3>2, <2>1, <1>9 DEF Retry
  <2>2. CASE r \notin known
    <3>1. sent'[r] = sent[r] /\ (Open(r)' <=> Open(r))
      BY <2>2, <1>2, <1>9 DEF Open
    <3> QED
      BY <3>1, <2>2, <1>1, <1>3, <1>8 DEF OpenInv, FirstTry, Waiting, Retry
  <2> QED
    BY <2>1, <2>2
<1>19. OneOwnAnswer'
  <2> SUFFICES ASSUME NEW r \in ReqId
      PROVE  /\ answers'[r] \in {<<>>, <<r>>, <<NoId>>}
             /\ answers'[r] # <<>> => sent'[r] > 0
    BY DEF OneOwnAnswer
  <2>1. answers'[r] = answers[r]
    BY <1>2
  <2>2. sent[r] > 0 => sent'[r] > 0
    BY <1>9
  <2> QED
    BY <2>1, <2>2 DEF OneOwnAnswer
<1>20. LookupArmed'
  BY <1>2, <1>8 DEF LookupArmed
<1>21. BufferBound'
  BY <1>2, BufferShrinks DEF BufferBound
<1> QED
  BY <1>12, <1>13, <1>14, <1>15, <1>16, <1>17, <1>18, <1>19, <1>20, <1>21

(* ------------------------------------------------------------------------ *)
(* The theorems                                                             *)
(* ------------------------------------------------------------------------ *)

\* Every step of the client preserves the invariant.
LEMMA StepInv ==
    ASSUME ClientInv, [ClientNext]_clientVars
    PROVE  ClientInv'
<1>1. CASE UNCHANGED clientVars
  BY <1>1 DEF clientVars, ClientInv, ClientTypeOK, FreshIds, OneSubmission,
     InflightInv, FirstInv, RetryInv, WaitingInv, NoLeak, OpenInv, OneOwnAnswer,
     LookupArmed, BufferBound, Open, FirstTry, Waiting, Retry
<1>2. ASSUME NEW p \in Peers, try_send_request(p) PROVE ClientInv'
  BY <1>2, SendInv
<1>3. CASE poll
  BY <1>3, PollInv
<1>4. ASSUME NEW p \in Peers, on_timeout(p) PROVE ClientInv'
  BY <1>4, TimeoutInv
<1>5. ASSUME NEW m \in inflight, on_success(m) PROVE ClientInv'
  BY <1>5, SuccessInv
<1>6. ASSUME NEW m \in inflight, on_failure(m) PROVE ClientInv'
  BY <1>6, FailedAgainInv, FailedFirstInv DEF on_failure
<1>7. ASSUME NEW p \in Peers, on_connection_established(p) PROVE ClientInv'
  BY <1>7, ConnectionInv
<1> QED
  BY <1>1, <1>2, <1>3, <1>4, <1>5, <1>6, <1>7 DEF ClientNext

\* The books of ClientBehaviour are consistent in every reachable state.
THEOREM ClientInvariant == ClientSpec => []ClientInv
<1>1. ClientInit => ClientInv
  BY InitInv
<1>2. ClientInv /\ [ClientNext]_clientVars => ClientInv'
  BY StepInv
<1> QED
  BY <1>1, <1>2, PTL DEF ClientSpec

\* Every variable keeps its type, for any number of peers, ids and buffer places.
THEOREM ClientTyping == ClientSpec => []ClientTypeOK
<1>1. ClientInv => ClientTypeOK
  BY DEF ClientInv
<1> QED
  BY <1>1, ClientInvariant, PTL

\* The owner hears once about a request, under the id it knows, and a response
\* it hears is the response to that request.
THEOREM AnsweredOnce == ClientSpec => []OneOwnAnswer
<1>1. ClientInv => OneOwnAnswer
  BY DEF ClientInv
<1> QED
  BY <1>1, ClientInvariant, PTL

\* Requests wait for a peer exactly while its lookup timer runs.
THEOREM LookupsArmed == ClientSpec => []LookupArmed
<1>1. ClientInv => LookupArmed
  BY DEF ClientInv
<1> QED
  BY <1>1, ClientInvariant, PTL

\* The ignored result of try_push in on_failure is never an error, whatever
\* max_buffered is and however many peers there are.
THEOREM PushSucceeds == ClientSpec => []PushNeverFails
<1>1. ClientInv => PushNeverFails
  BY LookupHasRoom DEF PushNeverFails
<1> QED
  BY <1>1, ClientInvariant, PTL

\* An open request is in exactly one of its three stages and is submitted at
\* most twice.
THEOREM StagesExclusive == ClientSpec => []OneStage
<1>1. ClientInv => OneStage
  <2> SUFFICES ASSUME ClientInv, NEW r \in ReqId
      PROVE  /\ Open(r) <=> FirstTry(r) \/ Waiting(r) \/ Retry(r)
             /\ ~(FirstTry(r) /\ Waiting(r))
             /\ ~(FirstTry(r) /\ Retry(r))
             /\ ~(Waiting(r) /\ Retry(r))
             /\ r \in original_requests <=> FirstTry(r) \/ Waiting(r)
             /\ sent[r] <= 2
    BY DEF OneStage
  <2> USE DEF ClientInv
  <2>1. FirstTry(r) => Open(r) /\ r \in original_requests /\ ~Waiting(r)
    <3> SUFFICES ASSUME NEW m \in inflight, m.id = r, m.call = r
        PROVE  Open(r) /\ r \in original_requests /\ ~Waiting(r)
      BY DEF FirstTry
    <3> QED
      BY DEF InflightInv, FirstInv, RetryInv, Waiting, Open
  <2>2. Retry(r) => Open(r) /\ r \notin original_requests /\ ~Waiting(r)
    <3> SUFFICES ASSUME NEW m \in inflight, m.id # r, m.call = r
        PROVE  Open(r) /\ r \notin original_requests /\ ~Waiting(r)
      BY DEF Retry
    <3> QED
      BY DEF InflightInv, FirstInv, RetryInv, Waiting, Open
  <2>3. Waiting(r) => Open(r) /\ r \in original_requests
    BY DEF Waiting, WaitingInv, Open
  <2>4. ~(FirstTry(r) /\ Retry(r))
    BY <2>1, <2>2
  <2> QED
    BY <2>1, <2>2, <2>3, <2>4 DEF OpenInv, NoLeak
<1> QED
  BY <1>1, ClientInvariant, PTL

(* ------------------------------------------------------------------------ *)
(* Refinement                                                               *)
(* ------------------------------------------------------------------------ *)

\* Only sent and answers matter to the service.
LEMMA StatusUnchanged ==
    ASSUME ClientInv, ClientInv', UNCHANGED answers,
           \A r \in ReqId : sent'[r] = 0 <=> sent[r] = 0
    PROVE  UNCHANGED ServiceStatus
BY DEF ServiceStatus

\* Resolving the requests of S, which are open, with a response or a Timeout.
LEMMA StatusResolved ==
    ASSUME ClientInv, NEW S \in SUBSET ReqId, UNCHANGED sent,
           \A r \in S : Open(r) /\ answers'[r] \in {<<r>>, <<NoId>>},
           \A r \in ReqId \ S : answers'[r] = answers[r]
    PROVE  Service!Next
<1> DEFINE out == [r \in S |-> IF answers'[r] = <<r>> THEN "answered" ELSE "expired"]
<1>1. out \in [S -> Service!Outcome]
  BY DEF Service!Outcome
<1>2. \A r \in S : /\ answers'[r] # <<>> /\ <<r>> # <<NoId>>
                   /\ answers[r] = <<>> /\ sent[r] # 0
  <2> SUFFICES ASSUME NEW r \in S
      PROVE  /\ answers'[r] # <<>> /\ <<r>> # <<NoId>>
             /\ answers[r] = <<>> /\ sent[r] # 0
    OBVIOUS
  <2>1. r # NoId
    BY DEF ReqId, NoId
  <2>2. <<r>> # <<NoId>> /\ <<r>> # <<>> /\ <<NoId>> # <<>>
    BY <2>1 DEF NoId
  <2>3. answers[r] = <<>> /\ sent[r] # 0
    BY DEF Open, ClientInv, ClientTypeOK
  <2> QED
    BY <2>2, <2>3
<1>3. \A r \in S : ServiceStatus[r] = "open"
  BY <1>2 DEF ServiceStatus
<1>4. ServiceStatus' = [r \in ReqId |-> IF r \in S THEN out[r] ELSE ServiceStatus[r]]
  BY <1>2 DEF ServiceStatus
<1>5. Service!Resolve(S, out)
  BY <1>3, <1>4 DEF Service!Resolve
<1> QED
  BY <1>1, <1>5 DEF Service!Next

\* A response is a Resolve step of the service, for one request.
LEMMA SuccessResolves ==
    ASSUME ClientInv, NEW m \in inflight, on_success(m)
    PROVE  Service!Next
<1>1. /\ m.call \in ReqId /\ OldId(m.id) = m.call
      /\ answers[m.call] = <<>> /\ sent[m.call] \in {1, 2}
  BY ReportFacts
<1>2. answers \in [ReqId -> Seq(ReqId \cup {NoId})]
  BY DEF ClientInv, ClientTypeOK
<1>3. /\ answers'[m.call] = <<m.call>>
      /\ \A r \in ReqId \ {m.call} : answers'[r] = answers[r]
  BY <1>1, <1>2 DEF on_success
<1>4. UNCHANGED sent /\ Open(m.call)
  BY <1>1 DEF on_success, Open
<1>5. {m.call} \in SUBSET ReqId
  BY <1>1
<1> QED
  BY <1>3, <1>4, <1>5, StatusResolved

\* A failed retry is a Resolve step of the service; a first failure is invisible.
LEMMA FailureResolves ==
    ASSUME ClientInv, ClientInv', NEW m \in inflight, on_failure(m)
    PROVE  Service!Next \/ UNCHANGED ServiceStatus
<1>1. CASE failed_first(m)
  <2>1. UNCHANGED <<sent, answers>>
    BY <1>1 DEF failed_first, on_failure
  <2> QED
    BY <2>1, StatusUnchanged
<1>2. CASE failed_again(m)
  <2>1. /\ m.call \in ReqId /\ answers[m.call] = <<>> /\ sent[m.call] \in {1, 2}
    BY ReportFacts
  <2>2. resubmitted_requests[m.id] = m.call
    BY <1>2 DEF ClientInv, InflightInv, RetryInv, failed_again
  <2>3. answers \in [ReqId -> Seq(ReqId \cup {NoId})]
    BY DEF ClientInv, ClientTypeOK
  <2>4. Append(<<>>, NoId) = <<NoId>>
    BY DEF NoId
  <2>5. /\ answers'[m.call] = Append(answers[m.call], NoId)
        /\ \A r \in ReqId \ {m.call} : answers'[r] = answers[r]
    BY <1>2, <2>1, <2>2, <2>3 DEF failed_again
  <2>6. UNCHANGED sent /\ Open(m.call)
    BY <2>1 DEF on_failure, Open
  <2>7. {m.call} \in SUBSET ReqId
    BY <2>1
  <2> QED
    BY <2>1, <2>4, <2>5, <2>6, <2>7, StatusResolved
<1> QED
  BY <1>1, <1>2 DEF on_failure

\* A lookup that times out is one Resolve step for everything that waited.
LEMMA TimeoutResolves ==
    ASSUME ClientInv, NEW p \in Peers, on_timeout(p)
    PROVE  Service!Next
<1> DEFINE buffered == waiting_for_connection[p]
<1>1. /\ UNCHANGED sent
      /\ answers' = [r \in ReqId |->
            IF r \in buffered THEN Append(answers[r], NoId) ELSE answers[r]]
  BY DEF on_timeout
<1>2. buffered \in SUBSET ReqId
  BY DEF ClientInv, ClientTypeOK
<1>3. \A r \in buffered : Open(r)
  BY DEF ClientInv, WaitingInv, Open
<1>4. Append(<<>>, NoId) = <<NoId>>
  BY DEF NoId
<1>5. \A r \in buffered : answers'[r] = <<NoId>>
  BY <1>1, <1>2, <1>3, <1>4 DEF Open
<1>6. \A r \in ReqId \ buffered : answers'[r] = answers[r]
  BY <1>1
<1> HIDE DEF buffered
<1> QED
  BY <1>1, <1>2, <1>3, <1>5, <1>6, StatusResolved

\* Accepting a request is an Accept step of the service.
LEMMA SendAccepts ==
    ASSUME ClientInv, NEW p \in Peers, try_send_request(p)
    PROVE  Service!Next
<1> DEFINE i == next_id + 1
<1>1. i \in ReqId /\ next_id < i
  BY MaxIdsAssumption DEF try_send_request, ClientInv, ClientTypeOK, ReqId
<1>2. sent[i] = 0 /\ answers[i] = <<>>
  BY <1>1 DEF ClientInv, FreshIds
<1>3. sent \in [ReqId -> Nat]
  BY DEF ClientInv, ClientTypeOK
<1>4. UNCHANGED answers /\ sent' = [sent EXCEPT ![i] = sent[i] + 1]
  BY DEF try_send_request
<1>5. /\ sent'[i] = 1
      /\ \A r \in ReqId \ {i} : sent'[r] = sent[r]
  BY <1>1, <1>2, <1>3, <1>4
<1>6. ServiceStatus[i] = "unsent"
  BY <1>1, <1>2 DEF ServiceStatus
<1>7. ServiceStatus' = [ServiceStatus EXCEPT ![i] = "open"]
  <2>1. ServiceStatus'[i] = "open"
    BY <1>1, <1>2, <1>4, <1>5 DEF ServiceStatus
  <2>2. ASSUME NEW r \in ReqId, r # i PROVE ServiceStatus'[r] = ServiceStatus[r]
    BY <2>2, <1>4, <1>5 DEF ServiceStatus
  <2>3. /\ ServiceStatus = [r \in ReqId |-> ServiceStatus[r]]
        /\ ServiceStatus' = [r \in ReqId |-> ServiceStatus'[r]]
    BY DEF ServiceStatus
  <2> HIDE DEF i
  <2> QED
    BY <1>1, <2>1, <2>2, <2>3
<1>8. Service!Accept(i)
  BY <1>6, <1>7 DEF Service!Accept
<1> QED
  BY <1>1, <1>8 DEF Service!Next

\* Submitting again is invisible to the owner.
LEMMA ConnectionInvisible ==
    ASSUME ClientInv, ClientInv', NEW p \in Peers, on_connection_established(p)
    PROVE  UNCHANGED ServiceStatus
<1> DEFINE known == waiting_for_connection[p] \cap original_requests
<1>1. /\ UNCHANGED answers
      /\ sent' = [r \in ReqId |-> IF r \in known THEN sent[r] + 1 ELSE sent[r]]
  BY DEF on_connection_established
<1>2. \A r \in known : sent[r] = 1
  BY DEF ClientInv, WaitingInv
<1>3. \A r \in ReqId : sent'[r] = 0 <=> sent[r] = 0
  BY <1>1, <1>2
<1> QED
  BY <1>1, <1>3, StatusUnchanged

\* ClientBehaviour, with its retries, lookups and timers, implements the service
\* of RequestService.
THEOREM ClientImplementsService == ClientSpec => ImplementsService
<1>1. ClientInit => Service!Init
  BY DEF ClientInit, Service!Init, ServiceStatus
<1>2. ClientInv /\ ClientInv' /\ [ClientNext]_clientVars
        => [Service!Next]_ServiceStatus
  <2> SUFFICES ASSUME ClientInv, ClientInv', [ClientNext]_clientVars
               PROVE  Service!Next \/ UNCHANGED ServiceStatus
    OBVIOUS
  <2>1. CASE UNCHANGED clientVars
    BY <2>1, StatusUnchanged DEF clientVars
  <2>2. ASSUME NEW p \in Peers, try_send_request(p) PROVE Service!Next
    BY <2>2, SendAccepts
  <2>3. CASE poll
    BY <2>3, StatusUnchanged DEF poll
  <2>4. ASSUME NEW p \in Peers, on_timeout(p) PROVE Service!Next
    BY <2>4, TimeoutResolves
  <2>5. ASSUME NEW m \in inflight, on_success(m) PROVE Service!Next
    BY <2>5, SuccessResolves
  <2>6. ASSUME NEW m \in inflight, on_failure(m)
        PROVE  Service!Next \/ UNCHANGED ServiceStatus
    BY <2>6, FailureResolves
  <2>7. ASSUME NEW p \in Peers, on_connection_established(p)
        PROVE  UNCHANGED ServiceStatus
    BY <2>7, ConnectionInvisible
  <2> QED
    BY <2>1, <2>2, <2>3, <2>4, <2>5, <2>6, <2>7 DEF ClientNext
<1> QED
  BY <1>1, <1>2, ClientInvariant, PTL DEF ClientSpec, ImplementsService, Service!Spec

=============================================================================
