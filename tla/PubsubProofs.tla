---------------------------- MODULE PubsubProofs ----------------------------
(* The window of accepted sequence numbers, for any publishers, topics,       *)
(* widths of the window and length of time.                                   *)
EXTENDS Pubsub, TLAPS

(* ------------------------------------------------------------------------ *)
(* The inductive invariant                                                  *)
(* ------------------------------------------------------------------------ *)

\* What is accepted has been taken into account in sequence_numbers; nothing is
\* accepted before the subscription, which starts from zero.
AcceptedSeen ==
    \A t \in Topics, p \in Peers :
        /\ \A s \in accepted[t][p] : s <= sequence_numbers[t][p]
        /\ t \notin topics => accepted[t][p] = {}

\* An honest publisher numbers its messages upwards and not beyond the present,
\* restarts included, and nobody has seen a higher number of it.
HonestNumbers ==
    /\ \A p \in Honest : counter[p] <= now
    /\ \A m \in net : m.source \in Honest /\ m.seq \in Nat /\ m.seq <= counter[m.source]
    /\ \A t \in Topics, p \in Honest : sequence_numbers[t][p] <= counter[p]

PubsubInv ==
    /\ TypeOK
    /\ AcceptedSeen
    /\ HonestNumbers
    /\ WindowOrder
    /\ WindowNotPoisoned

\* PubsubBehaviour::new starts with an invariant state.
LEMMA InitInv == Init => PubsubInv
<1> SUFFICES ASSUME Init PROVE PubsubInv
  OBVIOUS
<1> USE DEF Init, PerPublisher
<1>1. TypeOK
  BY MaxTimeAssumption DEF TypeOK
<1>2. AcceptedSeen /\ WindowOrder
  BY DEF AcceptedSeen, WindowOrder
<1>3. HonestNumbers /\ WindowNotPoisoned
  BY DEF HonestNumbers, WindowNotPoisoned, Peers
<1> QED
  BY <1>1, <1>2, <1>3 DEF PubsubInv

\* Time passes.
LEMMA TickInv == PubsubInv /\ tick => PubsubInv'
<1> SUFFICES ASSUME PubsubInv, tick PROVE PubsubInv'
  OBVIOUS
<1> USE DEF PubsubInv, tick, nodeVars, history
<1>1. TypeOK'
  BY MaxTimeAssumption DEF TypeOK
<1>2. AcceptedSeen' /\ WindowOrder'
  BY DEF AcceptedSeen, WindowOrder
<1>3. HonestNumbers'
  BY DEF HonestNumbers, TypeOK, Peers
<1>4. WindowNotPoisoned'
  BY DEF WindowNotPoisoned, TypeOK
<1> QED
  BY <1>1, <1>2, <1>3, <1>4

\* A publisher starts again: its numbers do not go back.
LEMMA StartInv == ASSUME PubsubInv, NEW p \in Honest, start(p) PROVE PubsubInv'
<1> USE DEF PubsubInv, start, nodeVars, history
<1>0. p \in Peers /\ counter[p] \in 0..MaxTime /\ now \in 0..MaxTime
  BY DEF TypeOK, Peers
<1>1. TypeOK'
  BY <1>0, MaxTimeAssumption DEF TypeOK
<1>2. AcceptedSeen' /\ WindowOrder' /\ WindowNotPoisoned'
  BY DEF AcceptedSeen, WindowOrder, WindowNotPoisoned
<1>3. \A r \in Honest : counter[r] <= counter'[r] /\ counter'[r] <= now
                           /\ counter[r] \in Nat /\ counter'[r] \in Nat
  BY <1>0 DEF TypeOK, Peers, HonestNumbers
<1>4. HonestNumbers'
  BY <1>3 DEF HonestNumbers, TypeOK, Peers
<1> QED
  BY <1>1, <1>2, <1>4

\* A message of an honest publisher carries its next number.
LEMMA PublishInv ==
    ASSUME PubsubInv, NEW p \in Honest, NEW t \in Topics, publish(p, t)
    PROVE  PubsubInv'
<1> USE DEF PubsubInv, publish, nodeVars, history
<1> DEFINE new == [source |-> p, topic |-> t, seq |-> counter[p] + 1]
<1>0. /\ p \in Peers /\ counter[p] \in 0..MaxTime /\ now \in 0..MaxTime
      /\ counter[p] + 1 \in 0..MaxTime /\ counter[p] + 1 <= now
      /\ counter' = [counter EXCEPT ![p] = @ + 1]
      /\ net' = net \cup {new}
  BY MaxTimeAssumption DEF TypeOK, Peers
<1>1. TypeOK'
  <2>1. new \in Message
    BY <1>0, MaxTimeAssumption DEF Message, SeqNo
  <2> QED
    BY <1>0, <2>1 DEF TypeOK
<1>2. AcceptedSeen' /\ WindowOrder' /\ WindowNotPoisoned'
  BY DEF AcceptedSeen, WindowOrder, WindowNotPoisoned
<1>3. \A r \in Honest : counter[r] <= counter'[r] /\ counter'[r] <= now
                           /\ counter[r] \in Nat /\ counter'[r] \in Nat
  BY <1>0 DEF TypeOK, Peers, HonestNumbers
<1>4. HonestNumbers'
  <2>1. \A m \in net' : m.source \in Honest /\ m.seq \in Nat /\ m.seq <= counter'[m.source]
    <3>1. ASSUME NEW m \in net
          PROVE  m.source \in Honest /\ m.seq \in Nat /\ m.seq <= counter'[m.source]
      BY <1>3 DEF HonestNumbers
    <3>2. new.source \in Honest /\ new.seq \in Nat /\ new.seq <= counter'[new.source]
      BY <1>0 DEF TypeOK
    <3> QED
      BY <1>0, <3>1, <3>2
  <2> QED
    BY <1>3, <2>1 DEF HonestNumbers, TypeOK, Peers
<1> QED
  BY <1>1, <1>2, <1>4

\* The first subscription to a topic starts from zero, a second one is refused.
LEMMA SubscribeInv ==
    ASSUME PubsubInv, NEW t \in Topics, subscribe(t) PROVE PubsubInv'
<1> USE DEF PubsubInv, subscribe, history
<1>1. TypeOK'
  BY MaxTimeAssumption DEF TypeOK
<1>2. AcceptedSeen'
  BY DEF AcceptedSeen, TypeOK
<1>3. WindowOrder'
  BY DEF WindowOrder
<1>4. WindowNotPoisoned'
  BY DEF WindowNotPoisoned, TypeOK
<1>5. HonestNumbers'
  BY DEF HonestNumbers, TypeOK, Peers
<1> QED
  BY <1>1, <1>2, <1>3, <1>4, <1>5

\* A valid message moves the window of its publisher only, and not backwards.
LEMMA InnerEventInv ==
    ASSUME PubsubInv, NEW m \in net \cup RogueMessage, on_inner_event(m)
    PROVE  PubsubInv'
<1> USE DEF PubsubInv
<1> DEFINE t == m.topic
           p == m.source
           old == sequence_numbers[t][p]
<1>1. /\ m \in Message /\ t \in Topics /\ t \in topics /\ p \in Peers
      /\ m.seq \in SeqNo /\ m.seq <= now /\ m.seq + KeepLast[t] > old
      /\ now \in 0..MaxTime /\ old \in 0..MaxTime /\ old <= now
      /\ KeepLast[t] \in Nat \ {0}
  <2>1. m \in Message
    BY DEF TypeOK, RogueMessage
  <2>2. /\ t \in Topics /\ t \in topics /\ p \in Peers
        /\ m.seq \in SeqNo /\ ~(m.seq > now) /\ ~(m.seq + KeepLast[t] <= old)
    BY <2>1 DEF on_inner_event, Valid, FromFuture, IsOld, Message
  <2>3. /\ now \in 0..MaxTime /\ old \in 0..MaxTime /\ old <= now
        /\ KeepLast[t] \in Nat \ {0}
    BY <2>2, KeepLastAssumption DEF TypeOK, WindowNotPoisoned
  <2> QED
    BY <2>1, <2>2, <2>3, MaxTimeAssumption DEF SeqNo
<1>2. /\ m.seq \in 0..MaxTime /\ Advanced(m) \in 0..MaxTime
      /\ m.seq <= Advanced(m) /\ old <= Advanced(m) /\ Advanced(m) <= now
  BY <1>1, MaxTimeAssumption DEF Advanced, SeqNo
<1>3. /\ sequence_numbers' = [sequence_numbers EXCEPT ![t][p] = Advanced(m)]
      /\ accepted' = [accepted EXCEPT ![t][p] = @ \cup {m.seq}]
      /\ latest' = [latest EXCEPT ![t][p] = m.seq]
      /\ UNCHANGED <<now, topics, counter, net>>
  BY DEF on_inner_event
<1>4. \A u \in Topics, r \in Peers :
         /\ sequence_numbers'[u][r] = IF u = t /\ r = p THEN Advanced(m)
                                      ELSE sequence_numbers[u][r]
         /\ accepted'[u][r] = IF u = t /\ r = p THEN accepted[u][r] \cup {m.seq}
                              ELSE accepted[u][r]
         /\ latest'[u][r] = IF u = t /\ r = p THEN m.seq ELSE latest[u][r]
  BY <1>1, <1>3 DEF TypeOK
<1> HIDE DEF t, p
<1>5. TypeOK'
  <2>1. sequence_numbers' \in [Topics -> [Peers -> 0..MaxTime]]
    BY <1>1, <1>2, <1>3 DEF TypeOK
  <2>2. accepted' \in [Topics -> [Peers -> SUBSET (0..MaxTime)]]
    BY <1>1, <1>2, <1>3 DEF TypeOK
  <2>3. latest' \in [Topics -> [Peers -> 0..MaxTime]]
    BY <1>1, <1>2, <1>3 DEF TypeOK
  <2> QED
    BY <1>3, <2>1, <2>2, <2>3 DEF TypeOK
<1>6. AcceptedSeen'
  <2> SUFFICES ASSUME NEW u \in Topics, NEW r \in Peers
               PROVE  /\ \A s \in accepted'[u][r] : s <= sequence_numbers'[u][r]
                      /\ u \notin topics' => accepted'[u][r] = {}
    BY DEF AcceptedSeen
  <2>1. CASE u = t /\ r = p
    <3>1. \A s \in accepted[t][p] : s <= old /\ s \in 0..MaxTime
      BY <1>1 DEF AcceptedSeen, TypeOK
    <3> QED
      BY <1>1, <1>2, <1>3, <1>4, <2>1, <3>1
  <2>2. CASE ~(u = t /\ r = p)
    BY <1>3, <1>4, <2>2 DEF AcceptedSeen
  <2> QED
    BY <2>1, <2>2
<1>7. WindowOrder'
  <2> SUFFICES ASSUME NEW u \in Topics, NEW r \in Peers, NEW s \in accepted'[u][r]
               PROVE  s < latest'[u][r] + KeepLast[u]
    BY DEF WindowOrder
  <2>1. CASE u = t /\ r = p
    <3>1. \A x \in accepted[t][p] : x <= old /\ x \in 0..MaxTime
      BY <1>1 DEF AcceptedSeen, TypeOK
    <3>2. s \in accepted[t][p] \cup {m.seq}
      BY <1>4, <2>1
    <3>3. latest'[u][r] = m.seq
      BY <1>4, <2>1
    <3>4. s < m.seq + KeepLast[t]
      BY <1>1, <1>2, <3>1, <3>2
    <3> QED
      BY <2>1, <3>3, <3>4
  <2>2. CASE ~(u = t /\ r = p)
    BY <1>4, <2>2 DEF WindowOrder
  <2> QED
    BY <2>1, <2>2
<1>8. WindowNotPoisoned'
  BY <1>2, <1>3, <1>4 DEF WindowNotPoisoned
<1>9. HonestNumbers'
  <2>1. p \in Honest => m.seq <= counter[p] /\ old <= counter[p]
    BY <1>1, NoneAssumption, PublishersAssumption
       DEF HonestNumbers, RogueMessage, Peers, t, p
  <2>2. p \in Honest => Advanced(m) <= counter[p]
    BY <2>1 DEF Advanced, t, p
  <2> QED
    BY <1>3, <1>4, <2>2 DEF HonestNumbers, Peers
<1> QED
  BY <1>5, <1>6, <1>7, <1>8, <1>9

\* The invariant of the windows holds always: whatever is gossiped, in whatever
\* order, by honest and rogue publishers.
THEOREM PubsubInvariant == Spec => []PubsubInv
<1>1. PubsubInv /\ [Next]_vars => PubsubInv'
  <2> SUFFICES ASSUME PubsubInv, [Next]_vars PROVE PubsubInv'
    OBVIOUS
  <2>1. CASE UNCHANGED vars
    BY <2>1 DEF vars, nodeVars, history, PubsubInv, TypeOK, AcceptedSeen, HonestNumbers,
       WindowOrder, WindowNotPoisoned
  <2> QED
    BY <2>1, TickInv, StartInv, PublishInv, SubscribeInv, InnerEventInv DEF Next
<1> QED
  BY InitInv, <1>1, PTL DEF Spec

\* Type correctness: no number beyond the clock gets into the node's state.
THEOREM PubsubTyping == Spec => []TypeOK
BY PubsubInvariant, PTL DEF PubsubInv

\* validate_gossipsub_msg keeps the order of the messages of a publisher up to
\* the width of the topic's window: with keep_last = 1 they never go back.
THEOREM WindowsOrdered == Spec => []WindowOrder
BY PubsubInvariant, PTL DEF PubsubInv

\* No publisher, rogue or not, moves a window beyond the present.
THEOREM WindowsNotPoisoned == Spec => []WindowNotPoisoned
BY PubsubInvariant, PTL DEF PubsubInv

\* The newest message of an honest publisher is valid for a subscriber, whenever
\* it arrives and however often the publisher has restarted.
THEOREM NewestIsAccepted == Spec => []NewestAccepted
<1>1. PubsubInv => NewestAccepted
  <2> SUFFICES ASSUME PubsubInv, NEW m \in net, m.source \in Honest, m.topic \in topics,
                      m.seq = counter[m.source]
               PROVE  Valid(m)
    BY DEF NewestAccepted
  <2> USE DEF PubsubInv
  <2>1. /\ m.source \in Peers /\ m.topic \in Topics /\ m.seq \in Nat /\ now \in Nat
        /\ sequence_numbers[m.topic][m.source] \in Nat
        /\ KeepLast[m.topic] \in Nat \ {0}
    BY KeepLastAssumption DEF TypeOK, HonestNumbers, Peers
  <2>2. m.seq <= now /\ sequence_numbers[m.topic][m.source] <= m.seq
    BY <2>1 DEF HonestNumbers
  <2> QED
    BY <2>1, <2>2, NoneAssumption DEF Valid, FromFuture, IsOld
<1> QED
  BY PubsubInvariant, <1>1, PTL
=============================================================================
