----------------------------- MODULE LogsProofs -----------------------------
(* The way of the query logs and of the numbers that come back, for any sizes *)
(* of logs and queues and any number of logs.                                 *)
EXTENDS Logs, SequenceTheorems, FiniteSetTheorems, WellFoundedInduction, TLAPS

(* ------------------------------------------------------------------------ *)
(* The inductive invariant                                                  *)
(* ------------------------------------------------------------------------ *)

PrefixSaved(S) == \A n \in S : 1..n \subseteq saved

\* Every number on its way from the collector's user, and the one the worker's
\* user has acted on, was right when it set out and still is.
NumbersSaved ==
    /\ PrefixSaved({discarded}) /\ PrefixSaved(Range(worker_events))
    /\ PrefixSaved(Range(acks)) /\ PrefixSaved(Range(logs_collected))
    /\ PrefixSaved(Range(observer_events))

Below(S, T) == \A m \in S, n \in T : m <= n
Ascending(s) == \A i, j \in 1..Len(s) : i < j => s[i] <= s[j]
Increasing(s) == \A i, j \in 1..Len(s) : i < j => s[i] < s[j]

\* The numbers are in order, from the collector's queue over gossip and the
\* worker's queue to the worker's user.
NumbersOrdered ==
    /\ Below({discarded}, Range(worker_events)) /\ Below({discarded}, Range(acks))
    /\ Below({discarded}, Range(logs_collected))
    /\ Below(Range(worker_events), Range(acks))
    /\ Below(Range(worker_events), Range(logs_collected))
    /\ Below(Range(acks), Range(logs_collected))
    /\ Ascending(worker_events) /\ Increasing(acks) /\ Ascending(logs_collected)

LogsInv ==
    /\ TypeOK
    /\ CollectedAreAuthentic
    /\ NumbersSaved
    /\ NumbersOrdered

(* ------------------------------------------------------------------------ *)
(* Lemmas about numbers and queues                                          *)
(* ------------------------------------------------------------------------ *)

\* A set of natural numbers that is not empty has a least one.
LEMMA LeastNumber ==
    ASSUME NEW T, T \subseteq Nat, T # {}
    PROVE  \E x \in T : \A y \in T : x <= y
<1>1. PICK x \in T : \A y \in T : ~(<<y, x>> \in OpToRel(<, Nat))
  BY WFMin, NatLessThanWellFounded
<1>2. ASSUME NEW y \in T PROVE x <= y
  <2>1. ~(<<y, x>> \in OpToRel(<, Nat))
    BY <1>1
  <2>2. y < x => <<y, x>> \in OpToRel(<, Nat)
    BY DEF OpToRel
  <2>3. ~(y < x)
    BY <2>1, <2>2, Zenon
  <2> QED
    BY <2>3
<1> QED
  BY <1>2

\* The number the collector's user reports exists: there is a first log that is
\* not saved, and everything before it is.
LEMMA LastSavedProperties ==
    ASSUME saved \in SUBSET Numbers
    PROVE  /\ LastSaved \in 0..MaxLogs
           /\ 1..LastSaved \subseteq saved
           /\ LastSaved + 1 \notin saved
<1> DEFINE T == {n \in Nat : n + 1 \notin saved}
<1>1. MaxLogs \in Nat /\ MaxLogs \in T
  BY BoundsAssumption DEF Numbers
<1>2. PICK x \in T : \A y \in T : x <= y
  BY <1>1, LeastNumber
<1>3. x \in 0..MaxLogs /\ x + 1 \notin saved
  BY <1>1, <1>2
<1>4. 1..x \subseteq saved
  <2> SUFFICES ASSUME NEW k \in 1..x PROVE k \in saved
    OBVIOUS
  <2>1. x \in Nat
    BY <1>1, <1>3
  <2>2. k - 1 \in Nat /\ ~(x <= k - 1) /\ k - 1 + 1 = k
    BY <2>1
  <2>3. k - 1 \notin T
    BY <1>2, <2>2
  <2> QED
    BY <2>2, <2>3
<1>5. \E n \in 0..MaxLogs : 1..n \subseteq saved /\ n + 1 \notin saved
  BY <1>3, <1>4
<1> QED
  BY <1>5 DEF LastSaved

\* A queue to which an entry is added holds what it held, and the entry.
LEMMA RangeAppend ==
    ASSUME NEW S, NEW s \in Seq(S), NEW e \in S
    PROVE  Range(Append(s, e)) = Range(s) \cup {e}
<1> DEFINE t == Append(s, e)
           n == Len(s)
<1>1. /\ n \in Nat /\ DOMAIN s = 1..n /\ DOMAIN t = 1..(n + 1)
      /\ \A i \in 1..n : t[i] = s[i]
      /\ t[n + 1] = e
  BY AppendProperties, LenProperties
<1> HIDE DEF t, n
<1>2. ASSUME NEW x PROVE x \in Range(t) <=> x \in Range(s) \/ x = e
  BY <1>1 DEF Range
<1> QED
  BY <1>2 DEF t

\* The tail of a queue holds nothing new.
LEMMA RangeTail ==
    ASSUME NEW S, NEW s \in Seq(S), s # <<>>
    PROVE  /\ Range(Tail(s)) \subseteq Range(s)
           /\ Head(s) \in Range(s)
<1>1. Range(s) = {s[i] : i \in 1..Len(s)} /\ Len(s) \in Nat \ {0}
  BY RangeEquality, EmptySeq
<1>2. /\ Tail(s) \in Seq(S) /\ Len(Tail(s)) = Len(s) - 1
      /\ \A i \in 1..Len(Tail(s)) : Tail(s)[i] = s[i + 1]
      /\ Head(s) = s[1]
  BY HeadTailProperties
<1>3. Range(Tail(s)) = {Tail(s)[i] : i \in 1..Len(Tail(s))}
  BY <1>2, RangeEquality
<1>4. \A i \in 1..Len(Tail(s)) : i + 1 \in 1..Len(s)
  BY <1>1, <1>2
<1> QED
  BY <1>1, <1>2, <1>3, <1>4

\* A queue of numbers that ascend keeps ascending.
LEMMA AscendingTail ==
    ASSUME NEW s \in Seq(Nat), s # <<>>, Ascending(s)
    PROVE  Ascending(Tail(s)) /\ Below({Head(s)}, Range(Tail(s)))
<1>1. /\ Tail(s) \in Seq(Nat) /\ Len(Tail(s)) = Len(s) - 1
      /\ \A i \in 1..Len(Tail(s)) : Tail(s)[i] = s[i + 1]
      /\ Head(s) = s[1] /\ Len(s) \in Nat \ {0}
  BY HeadTailProperties, EmptySeq
<1>2. Range(Tail(s)) = {Tail(s)[i] : i \in 1..Len(Tail(s))}
  BY <1>1, RangeEquality
<1>3. \A i \in 1..Len(Tail(s)) : i + 1 \in 1..Len(s) /\ 1 < i + 1
  BY <1>1
<1>4. \A i, j \in 1..Len(Tail(s)) : i < j => i + 1 < j + 1
  BY <1>1
<1>5. Ascending(Tail(s))
  BY <1>1, <1>3, <1>4 DEF Ascending
<1>6. \A i \in 1..Len(Tail(s)) : Head(s) <= Tail(s)[i]
  BY <1>1, <1>3 DEF Ascending
<1> QED
  BY <1>2, <1>5, <1>6 DEF Below

\* So does one to which nothing smaller is added.
LEMMA AscendingAppend ==
    ASSUME NEW s \in Seq(Nat), NEW e \in Nat, Ascending(s), Below(Range(s), {e})
    PROVE  Ascending(Append(s, e))
<1>1. /\ Len(Append(s, e)) = Len(s) + 1 /\ Len(s) \in Nat
      /\ \A i \in 1..Len(s) : Append(s, e)[i] = s[i] /\ s[i] <= e
      /\ Append(s, e)[Len(s) + 1] = e
  BY AppendProperties, LenProperties, RangeEquality DEF Below
<1> SUFFICES ASSUME NEW i \in 1..(Len(s) + 1), NEW j \in 1..(Len(s) + 1), i < j
             PROVE  Append(s, e)[i] <= Append(s, e)[j]
  BY <1>1 DEF Ascending
<1>2. i \in 1..Len(s)
  BY <1>1
<1>3. CASE j \in 1..Len(s)
  BY <1>1, <1>2, <1>3 DEF Ascending
<1>4. CASE j = Len(s) + 1
  BY <1>1, <1>2, <1>4
<1> QED
  BY <1>1, <1>3, <1>4

\* send_lossy keeps to the size of the queue and adds nothing else.
LEMMA SendLossy ==
    ASSUME NEW S, NEW q \in Seq(S), NEW e \in S, Len(q) <= EventsQueueSize
    PROVE  /\ send_lossy(q, e) \in Seq(S)
           /\ Len(send_lossy(q, e)) <= EventsQueueSize
           /\ Range(send_lossy(q, e)) \subseteq Range(q) \cup {e}
<1>1. Len(q) \in Nat /\ EventsQueueSize \in Nat
  BY LenProperties, QueueSizesAssumption
<1>2. CASE HasRoom(q)
  <2>1. send_lossy(q, e) = Append(q, e)
    BY <1>2 DEF send_lossy
  <2>2. /\ Append(q, e) \in Seq(S) /\ Len(Append(q, e)) = Len(q) + 1
        /\ Range(Append(q, e)) = Range(q) \cup {e}
    BY AppendProperties, RangeAppend
  <2>3. Len(Append(q, e)) <= EventsQueueSize
    BY <1>1, <1>2, <2>2 DEF HasRoom
  <2> QED
    BY <2>1, <2>2, <2>3
<1>3. CASE ~HasRoom(q)
  BY <1>3 DEF send_lossy
<1> QED
  BY <1>2, <1>3

\* It keeps numbers in order.
LEMMA SendLossyAscending ==
    ASSUME NEW q \in Seq(Nat), NEW e \in Nat, Ascending(q), Below(Range(q), {e})
    PROVE  Ascending(send_lossy(q, e))
BY AscendingAppend DEF send_lossy

\* What a message can hold for the worker: a number or none.
LEMMA SeqNoRange == SeqNo = 0..MaxLogs /\ SeqNo \subseteq Nat /\ MaxLogs \in Nat
BY BoundsAssumption DEF SeqNo, Numbers, NoSeqNo

\* Acks that increase are no more than there are numbers, and none.
LEMMA AcksBounded ==
    ASSUME NEW s \in Seq(SeqNo), Increasing(s)
    PROVE  Len(s) <= MaxLogs + 1
<1>1. MaxLogs \in Nat /\ Len(s) \in Nat /\ s \in [1..Len(s) -> SeqNo]
  BY BoundsAssumption, LenProperties
<1>2. /\ IsFiniteSet(SeqNo) /\ Cardinality(SeqNo) = MaxLogs + 1
      /\ Cardinality(1..Len(s)) = Len(s)
  <2>1. IsFiniteSet(SeqNo) /\ Cardinality(SeqNo) = MaxLogs + 1
    BY BoundsAssumption, FS_Interval, SeqNoRange
  <2>2. Cardinality(1..Len(s)) = Len(s)
    BY <1>1, FS_Interval
  <2> QED
    BY <2>1, <2>2
<1>3. \A i, j \in 1..Len(s) : s[i] = s[j] => i = j
  <2> SUFFICES ASSUME NEW i \in 1..Len(s), NEW j \in 1..Len(s), s[i] = s[j], i # j
               PROVE  FALSE
    OBVIOUS
  <2>1. s[i] \in Int /\ s[j] \in Int /\ (i < j \/ j < i)
    BY <1>1, SeqNoRange
  <2>2. s[i] < s[j] \/ s[j] < s[i]
    BY <2>1 DEF Increasing
  <2> QED
    BY <2>1, <2>2
<1>4. s \in Injection(1..Len(s), SeqNo)
  BY <1>1, <1>3 DEF Injection, IsInjective
<1> QED
  BY <1>2, <1>4, FS_Injection

\* After ack i only later, and so larger, ones get through.
LEMMA StillFreshProperties ==
    ASSUME acks \in Seq(SeqNo), Increasing(acks), NEW i \in 1..Len(acks)
    PROVE  /\ StillFresh(i) \in Seq(SeqNo) /\ Increasing(StillFresh(i))
           /\ Range(StillFresh(i)) \subseteq Range(acks)
           /\ acks[i] \in Range(acks) /\ acks[i] \in SeqNo
           /\ Below({acks[i]}, Range(StillFresh(i)))
<1> DEFINE n == Len(acks)
           t == StillFresh(i)
<1>1. /\ n \in Nat /\ \A k \in 1..n : acks[k] \in SeqNo
      /\ Range(acks) = {acks[k] : k \in 1..n}
  BY LenProperties, ElementOfSeq, RangeEquality
<1>2. i + 1 \in Int /\ n \in Int /\ \A k \in (i + 1)..n : acks[k] \in SeqNo
  BY <1>1
<1>3. /\ SubSeq(acks, i + 1, n) \in Seq(SeqNo)
      /\ Len(SubSeq(acks, i + 1, n)) = IF i + 1 <= n THEN n - (i + 1) + 1 ELSE 0
      /\ \A k \in 1..(n - (i + 1) + 1) :
            SubSeq(acks, i + 1, n)[k] = acks[i + 1 + k - 1]
  BY <1>2, SubSeqProperties
<1>4. t \in Seq(SeqNo) /\ Len(t) = n - i
  BY <1>1, <1>3 DEF StillFresh
<1>5. ASSUME NEW k \in 1..Len(t) PROVE i + k \in 1..n /\ i < i + k /\ t[k] = acks[i + k]
  <2>1. k \in 1..(n - (i + 1) + 1) /\ i + 1 + k - 1 = i + k
    BY <1>1, <1>4
  <2>2. i + k \in 1..n /\ i < i + k
    BY <1>1, <1>4
  <2> QED
    BY <1>3, <2>1, <2>2 DEF StillFresh
<1>6. Range(t) = {t[k] : k \in 1..Len(t)}
  BY <1>4, RangeEquality
<1> HIDE DEF t, n
<1>7. Increasing(t)
  <2> SUFFICES ASSUME NEW j \in 1..Len(t), NEW k \in 1..Len(t), j < k PROVE t[j] < t[k]
    BY DEF Increasing
  <2>1. i + j < i + k
    BY <1>1, <1>4
  <2> QED
    BY <1>5, <2>1 DEF Increasing, n
<1>8. Range(t) \subseteq Range(acks)
  BY <1>1, <1>5, <1>6
<1>9. Below({acks[i]}, Range(t))
  <2> SUFFICES ASSUME NEW k \in 1..Len(t) PROVE acks[i] <= t[k]
    BY <1>6 DEF Below
  <2>1. acks[i] < acks[i + k] /\ acks[i] \in Int /\ acks[i + k] \in Int
    BY <1>1, <1>5, SeqNoRange DEF Increasing, n
  <2> QED
    BY <1>5, <2>1
<1> QED
  BY <1>1, <1>4, <1>7, <1>8, <1>9 DEF t, n

(* ------------------------------------------------------------------------ *)
(* The parts of the invariant                                               *)
(* ------------------------------------------------------------------------ *)

\* Nothing has been made, sent or saved.
LEMMA InitInv == Init => LogsInv
<1> SUFFICES ASSUME Init PROVE LogsInv
  OBVIOUS
<1>1. {LogsQueueSize, CollectedQueueSize, EventsQueueSize, MaxLogs} \subseteq Nat
  BY QueueSizesAssumption, BoundsAssumption
<1>2. /\ sizes = <<>> /\ logs = <<>> /\ worker_events = <<>> /\ collector_events = <<>>
      /\ logs_collected = <<>> /\ acks = <<>> /\ observer_events = <<>>
      /\ saved = {} /\ submitted = {} /\ bundles = {} /\ discarded = 0
  BY DEF Init, QueuesEmpty
<1>3. TypeOK
  BY <1>1, <1>2, EmptySeq DEF TypeOK, produced
<1>4. Range(<<>>) = {}
  BY DEF Range
<1>5. 1..0 = {}
  OBVIOUS
<1>6. NumbersSaved
  BY <1>2, <1>4, <1>5 DEF NumbersSaved, PrefixSaved
<1>7. NumbersOrdered
  BY <1>2, <1>4 DEF NumbersOrdered, Below, Ascending, Increasing
<1>8. CollectedAreAuthentic
  BY <1>2 DEF CollectedAreAuthentic
<1> QED
  BY <1>3, <1>6, <1>7, <1>8 DEF LogsInv

\* What the collector's user may be given: logs of the worker that exist and
\* logs of the gateway that it has submitted.
Authentic ==
    {log \in LogType : /\ log.id = "worker" => log.n <= produced
                       /\ log.id = "gateway" => log.n \in submitted}

\* CollectedAreAuthentic, for the queue of events, in terms of that set.
LEMMA AuthenticEvents ==
    ASSUME TypeOK
    PROVE  (\A k \in 1..Len(collector_events) : \A log \in collector_events[k] :
              /\ log.id = "worker" => log.n <= produced
              /\ log.id = "gateway" => log.n \in submitted)
           <=> \A ls \in Range(collector_events) : ls \subseteq Authentic
<1>1. /\ collector_events \in Seq(SUBSET LogType)
      /\ \A k \in 1..Len(collector_events) : collector_events[k] \subseteq LogType
      /\ Range(collector_events) = {collector_events[k] : k \in 1..Len(collector_events)}
  BY ElementOfSeq, RangeEquality DEF TypeOK
<1> QED
  BY <1>1 DEF Authentic

(* ------------------------------------------------------------------------ *)
(* The worker's steps                                                       *)
(* ------------------------------------------------------------------------ *)

\* A new log takes the next number.
LEMMA MakeKeepsInv ==
    ASSUME LogsInv, NEW size \in Sizes, make_log(size)
    PROVE  LogsInv'
<1>1. /\ sizes' = Append(sizes, size) /\ produced < MaxLogs
      /\ UNCHANGED <<discarded, logs, worker_events, collector_events, saved, logs_collected,
                     submitted, bundles, acks, observer_events>>
  BY DEF make_log, collectorVars, netVars
<1>2. /\ sizes' \in Seq(Sizes) /\ produced' = produced + 1 /\ produced \in Nat
      /\ MaxLogs \in Nat
  BY <1>1, AppendProperties, LenProperties, BoundsAssumption DEF LogsInv, TypeOK, produced
<1>3. 1..produced \subseteq 1..produced'
  BY <1>2
<1>4. logs \in Seq(SUBSET (1..produced'))
  <2>1. logs \in Seq(SUBSET (1..produced))
    BY DEF LogsInv, TypeOK
  <2>2. SUBSET (1..produced) \subseteq SUBSET (1..produced')
    BY <1>3
  <2> QED
    BY <2>1, <2>2, SeqMonotonic
<1>5. bundles \in SUBSET SUBSET (1..produced')
  BY <1>3 DEF LogsInv, TypeOK
<1>6. discarded \in 0..produced' /\ produced' <= MaxLogs
  BY <1>1, <1>2 DEF LogsInv, TypeOK
<1>7. TypeOK'
  BY <1>1, <1>2, <1>4, <1>5, <1>6 DEF LogsInv, TypeOK
<1>8. CollectedAreAuthentic'
  <2>1. saved \subseteq 1..produced'
    BY <1>3 DEF LogsInv, CollectedAreAuthentic
  <2>2. \A ls \in Range(collector_events) : ls \subseteq Authentic
    BY AuthenticEvents DEF LogsInv, CollectedAreAuthentic
  <2>3. Authentic \subseteq Authentic'
    <3> SUFFICES ASSUME NEW log \in LogType, log.id = "worker", log.n <= produced
                 PROVE  log.n <= produced'
      BY <1>1 DEF Authentic
    <3>1. log.n \in Int
      BY DEF LogType, Numbers
    <3> QED
      BY <1>2, <3>1
  <2>4. \A k \in 1..Len(collector_events) : collector_events[k] \subseteq Authentic'
    <3>1. collector_events \in Seq(SUBSET LogType)
      BY DEF LogsInv, TypeOK
    <3>2. \A k \in 1..Len(collector_events) : collector_events[k] \in Range(collector_events)
      BY <3>1, RangeEquality
    <3> QED
      BY <2>2, <2>3, <3>2
  <2> QED
    BY <1>1, <2>1, <2>4 DEF CollectedAreAuthentic, Authentic
<1>9. NumbersSaved' /\ NumbersOrdered'
  BY <1>1 DEF LogsInv, NumbersSaved, PrefixSaved, NumbersOrdered, Below
<1> QED
  BY <1>7, <1>8, <1>9 DEF LogsInv

\* A batch is made of logs that exist.
LEMMA HandOverKeepsInv ==
    ASSUME LogsInv, handle_send_logs
    PROVE  LogsInv'
<1>1. /\ Len(logs) < LogsQueueSize /\ logs' = Append(logs, (discarded + 1)..produced)
      /\ UNCHANGED <<sizes, discarded, worker_events, collector_events, saved, logs_collected,
                     submitted, bundles, acks, observer_events>>
  BY DEF handle_send_logs, collectorVars, netVars
<1>2. (discarded + 1)..produced \in SUBSET (1..produced)
  BY DEF LogsInv, TypeOK
<1>3. /\ logs' \in Seq(SUBSET (1..produced)) /\ Len(logs') = Len(logs) + 1 /\ Len(logs) \in Nat
      /\ LogsQueueSize \in Nat
  BY <1>1, <1>2, AppendProperties, LenProperties, QueueSizesAssumption DEF LogsInv, TypeOK
<1>4. Len(logs') <= LogsQueueSize /\ produced' = produced
  BY <1>1, <1>3 DEF produced
<1>5. TypeOK'
  BY <1>1, <1>3, <1>4 DEF LogsInv, TypeOK
<1>6. CollectedAreAuthentic' /\ NumbersSaved' /\ NumbersOrdered'
  BY <1>1, <1>4 DEF LogsInv, CollectedAreAuthentic, NumbersSaved, PrefixSaved, NumbersOrdered, Below
<1> QED
  BY <1>5, <1>6 DEF LogsInv

\* Bundles are made of the logs of the batch.
LEMMA BundlesWithin ==
    \A ns : \A b \in bundle_messages(ns) : b \subseteq ns
BY DEF bundle_messages

\* A batch leaves the queue and its bundles are on their way.
LEMMA SendKeepsInv ==
    ASSUME LogsInv, send_logs
    PROVE  LogsInv'
<1>1. /\ logs # <<>> /\ logs' = Tail(logs)
      /\ bundles' = bundles \cup {b \in bundle_messages(Head(logs)) : Publishable(b)}
      /\ UNCHANGED <<sizes, discarded, worker_events, collector_events, saved, logs_collected,
                     submitted, acks, observer_events>>
      /\ produced' = produced
  BY DEF send_logs, publish_worker_logs, collectorVars, produced
<1>2. /\ logs' \in Seq(SUBSET (1..produced)) /\ Len(logs') = Len(logs) - 1 /\ Len(logs) \in Nat
      /\ Head(logs) \in SUBSET (1..produced) /\ LogsQueueSize \in Nat
  BY <1>1, HeadTailProperties, LenProperties, QueueSizesAssumption DEF LogsInv, TypeOK
<1>3. Len(logs') <= LogsQueueSize
  BY <1>2 DEF LogsInv, TypeOK
<1>4. bundles' \in SUBSET SUBSET (1..produced)
  <2>1. \A b \in bundle_messages(Head(logs)) : b \in SUBSET (1..produced)
    BY <1>2, BundlesWithin
  <2> QED
    BY <1>1, <2>1 DEF LogsInv, TypeOK
<1>5. TypeOK'
  BY <1>1, <1>2, <1>3, <1>4 DEF LogsInv, TypeOK
<1>6. CollectedAreAuthentic' /\ NumbersSaved' /\ NumbersOrdered'
  BY <1>1 DEF LogsInv, CollectedAreAuthentic, NumbersSaved, PrefixSaved, NumbersOrdered, Below
<1> QED
  BY <1>5, <1>6 DEF LogsInv

\* The oldest number of the queue is not smaller than the last one acted on, and
\* not larger than any that may follow.
LEMMA HearKeepsInv ==
    ASSUME LogsInv, next_worker_event
    PROVE  LogsInv' /\ discarded' >= discarded
<1> DEFINE h == Head(worker_events)
<1>1. /\ worker_events # <<>> /\ worker_events' = Tail(worker_events)
      /\ discarded' = IF h = NoSeqNo THEN discarded ELSE h
      /\ UNCHANGED <<sizes, logs, collector_events, saved, logs_collected, submitted, bundles,
                     acks, observer_events>>
      /\ produced' = produced
  BY DEF next_worker_event, collectorVars, netVars, produced
<1>2. /\ worker_events \in Seq(SeqNo) /\ Len(worker_events) <= EventsQueueSize
      /\ Len(worker_events) \in Nat /\ EventsQueueSize \in Nat /\ MaxLogs \in Nat
      /\ discarded \in Int
  BY LenProperties, QueueSizesAssumption, BoundsAssumption DEF LogsInv, TypeOK
<1>3. /\ worker_events' \in Seq(SeqNo) /\ Len(worker_events') = Len(worker_events) - 1
      /\ h \in SeqNo
  BY <1>1, <1>2, HeadTailProperties
<1>4. Range(worker_events') \subseteq Range(worker_events) /\ h \in Range(worker_events)
  BY <1>1, <1>2, RangeTail
<1>5. discarded <= h /\ 1..h \subseteq saved /\ discarded' = h
  <2>1. discarded <= h /\ 1..h \subseteq saved
    BY <1>4 DEF LogsInv, NumbersOrdered, NumbersSaved, PrefixSaved, Below
  <2>2. discarded >= 0
    BY DEF LogsInv, TypeOK
  <2> QED
    BY <1>1, <1>2, <2>1, <2>2 DEF NoSeqNo
<1>6. h <= produced
  <2>1. saved \subseteq 1..produced /\ h \in Nat /\ produced \in Nat
    BY <1>3, SeqNoRange, LenProperties DEF LogsInv, TypeOK, CollectedAreAuthentic, produced
  <2> HIDE DEF h
  <2>2. h = 0 \/ h \in 1..h
    BY <2>1
  <2>3. h = 0 \/ h \in 1..produced
    BY <1>5, <2>1, <2>2
  <2> QED
    BY <2>1, <2>3
<1>7. TypeOK'
  <2>1. Len(worker_events') <= EventsQueueSize
    BY <1>2, <1>3
  <2>2. discarded' \in 0..produced'
    BY <1>1, <1>3, <1>6, LenProperties, SeqNoRange DEF LogsInv, TypeOK, produced
  <2> QED
    BY <1>1, <1>3, <2>1, <2>2 DEF LogsInv, TypeOK
<1>8. CollectedAreAuthentic'
  BY <1>1 DEF LogsInv, CollectedAreAuthentic
<1>9. NumbersSaved'
  BY <1>1, <1>4, <1>5 DEF LogsInv, NumbersSaved, PrefixSaved
<1>10. NumbersOrdered'
  <2>1. worker_events \in Seq(Nat)
    <3>1. SeqNo \subseteq Nat
      BY SeqNoRange
    <3> QED
      BY <1>2, <3>1, SeqMonotonic
  <2>2. Ascending(worker_events') /\ Below({h}, Range(worker_events'))
    BY <1>1, <2>1, AscendingTail DEF LogsInv, NumbersOrdered
  <2>3. Below({h}, Range(acks)) /\ Below({h}, Range(logs_collected))
    BY <1>4 DEF LogsInv, NumbersOrdered, Below
  <2>4. /\ Below(Range(worker_events'), Range(acks))
        /\ Below(Range(worker_events'), Range(logs_collected))
    BY <1>4 DEF LogsInv, NumbersOrdered, Below
  <2> QED
    BY <1>1, <1>5, <2>2, <2>3, <2>4 DEF LogsInv, NumbersOrdered
<1> QED
  BY <1>1, <1>2, <1>3, <1>5, <1>7, <1>8, <1>9, <1>10, SeqNoRange DEF LogsInv

(* ------------------------------------------------------------------------ *)
(* The collector's steps                                                    *)
(* ------------------------------------------------------------------------ *)

\* An event of authentic logs keeps the invariant, queued or dropped.
LEMMA EventKeepsInv ==
    ASSUME LogsInv, NEW ls, ls \subseteq Authentic,
           on_swarm_event(ls) \/ UNCHANGED collector_events,
           bundles' \subseteq bundles,
           UNCHANGED <<workerVars, saved, logs_collected, submitted, acks, observer_events>>
    PROVE  LogsInv'
<1>1. /\ collector_events \in Seq(SUBSET LogType) /\ Len(collector_events) <= EventsQueueSize
      /\ UNCHANGED <<sizes, discarded, logs, worker_events, saved, logs_collected, submitted,
                     acks, observer_events>>
      /\ produced' = produced /\ Authentic' = Authentic
  BY DEF LogsInv, TypeOK, workerVars, produced, Authentic
<1>2. /\ collector_events' \in Seq(SUBSET LogType)
      /\ Len(collector_events') <= EventsQueueSize
      /\ Range(collector_events') \subseteq Range(collector_events) \cup {ls}
  <2>1. ls \in SUBSET LogType
    BY DEF Authentic
  <2>2. CASE on_swarm_event(ls)
    BY <1>1, <2>1, <2>2, SendLossy DEF on_swarm_event
  <2>3. CASE UNCHANGED collector_events
    BY <1>1, <2>3
  <2> QED
    BY <2>2, <2>3
<1>3. bundles' \in SUBSET SUBSET (1..produced)
  BY DEF LogsInv, TypeOK
<1>4. TypeOK'
  BY <1>1, <1>2, <1>3 DEF LogsInv, TypeOK
<1>5. CollectedAreAuthentic'
  <2>1. \A l \in Range(collector_events) : l \subseteq Authentic
    BY AuthenticEvents DEF LogsInv, CollectedAreAuthentic
  <2>2. \A l \in Range(collector_events') : l \subseteq Authentic
    BY <1>2, <2>1
  <2>3. \A k \in 1..Len(collector_events') : collector_events'[k] \subseteq Authentic
    BY <1>2, <2>2, RangeEquality
  <2> QED
    BY <1>1, <2>3 DEF LogsInv, CollectedAreAuthentic, Authentic
<1>6. NumbersSaved' /\ NumbersOrdered'
  BY <1>1 DEF LogsInv, NumbersSaved, PrefixSaved, NumbersOrdered, Below
<1> QED
  BY <1>4, <1>5, <1>6 DEF LogsInv

\* A bundle of the worker that arrives holds logs of the worker.
LEMMA DeliverKeepsInv ==
    ASSUME LogsInv, NEW b \in bundles, deliver_bundle(b)
    PROVE  LogsInv'
<1> DEFINE ls == {WorkerLog(n) : n \in b}
           own == {log \in ls : OwnLog("worker", log)}
<1>1. \A n \in b : n \in 1..produced /\ n \in Numbers
  BY BoundsAssumption, LenProperties DEF LogsInv, TypeOK, Numbers, produced
<1>2. ls \subseteq Authentic
  BY <1>1 DEF WorkerLog, Log, Authentic, LogType
<1>3. own \subseteq Authentic
  BY <1>2
<1>4. on_swarm_event(own) \/ UNCHANGED collector_events
  BY DEF deliver_bundle, on_worker_logs
<1> QED
  BY <1>3, <1>4, EventKeepsInv DEF deliver_bundle

\* What the other peer publishes is passed on under its own name only.
LEMMA OtherBundleKeepsInv ==
    ASSUME LogsInv, NEW id \in {"worker", "other"}, other_bundle(id, MaxLogs)
    PROVE  LogsInv'
<1> DEFINE ls == {Log(id, "other", MaxLogs)}
           own == {log \in ls : OwnLog("other", log)}
<1>1. MaxLogs \in Numbers
  BY BoundsAssumption DEF Numbers
<1>2. own \subseteq Authentic
  BY <1>1 DEF OwnLog, Log, Authentic, LogType
<1>3. on_swarm_event(own) \/ UNCHANGED collector_events
  BY DEF other_bundle, on_worker_logs
<1> QED
  BY <1>2, <1>3, EventKeepsInv DEF other_bundle, netVars

\* A gateway log is passed on under the name of the gateway that sent it.
LEMMA GatewayLogKeepsInv ==
    ASSUME LogsInv, NEW from \in {"gateway", "other"}, NEW id \in {"gateway", "other"},
           NEW m \in GatewayLogs, on_gateway_log(from, Log(id, from, m))
    PROVE  LogsInv'
<1>1. {Log(id, from, m)} \subseteq Authentic
  BY DEF on_gateway_log, OwnGatewayLog, Log, Authentic, LogType
<1> QED
  BY <1>1, EventKeepsInv DEF on_gateway_log, netVars

\* A bundle that is lost is gone.
LEMMA LoseBundleKeepsInv ==
    ASSUME LogsInv, NEW b \in bundles, lose_bundle(b)
    PROVE  LogsInv'
<1>1. {} \subseteq Authentic
  OBVIOUS
<1>2. bundles' \subseteq bundles
  BY DEF lose_bundle
<1> QED
  BY <1>1, <1>2, EventKeepsInv DEF lose_bundle, collectorVars

\* The gateway's user hands over a log.
LEMMA SubmitKeepsInv ==
    ASSUME LogsInv, NEW m \in GatewayLogs, handle_gateway_log(m)
    PROVE  LogsInv'
<1>1. /\ submitted' = submitted \cup {m}
      /\ UNCHANGED <<sizes, discarded, logs, worker_events, collector_events, saved,
                     logs_collected, bundles, acks, observer_events>>
      /\ produced' = produced
  BY DEF handle_gateway_log, send_log_msg, workerVars, collectorVars, netVars, produced
<1>2. submitted' \in SUBSET GatewayLogs
  BY <1>1 DEF LogsInv, TypeOK
<1>3. TypeOK'
  BY <1>1, <1>2 DEF LogsInv, TypeOK
<1>4. CollectedAreAuthentic'
  BY <1>1 DEF LogsInv, CollectedAreAuthentic
<1>5. NumbersSaved' /\ NumbersOrdered'
  BY <1>1 DEF LogsInv, NumbersSaved, PrefixSaved, NumbersOrdered, Below
<1> QED
  BY <1>3, <1>4, <1>5 DEF LogsInv

\* What is saved in the name of the worker are logs it has made.
LEMMA SaveKeepsInv ==
    ASSUME LogsInv, next_collector_event
    PROVE  LogsInv'
<1> DEFINE ls == Head(collector_events)
           new == {log.n : log \in {l \in ls : l.id = "worker"}}
<1>1. /\ collector_events # <<>> /\ collector_events' = Tail(collector_events)
      /\ saved' = saved \cup new
      /\ UNCHANGED <<sizes, discarded, logs, worker_events, logs_collected, submitted, bundles,
                     acks, observer_events>>
      /\ produced' = produced /\ Authentic' = Authentic
  BY DEF next_collector_event, workerVars, netVars, produced, Authentic
<1>2. /\ collector_events \in Seq(SUBSET LogType) /\ Len(collector_events) <= EventsQueueSize
      /\ Len(collector_events) \in Nat /\ EventsQueueSize \in Nat
  BY LenProperties, QueueSizesAssumption DEF LogsInv, TypeOK
<1>3. /\ collector_events' \in Seq(SUBSET LogType)
      /\ Len(collector_events') = Len(collector_events) - 1
  BY <1>1, <1>2, HeadTailProperties
<1>4. Range(collector_events') \subseteq Range(collector_events) /\ ls \in Range(collector_events)
  BY <1>1, <1>2, RangeTail
<1>5. \A l \in Range(collector_events) : l \subseteq Authentic
  BY AuthenticEvents DEF LogsInv, CollectedAreAuthentic
<1>6. new \subseteq 1..produced /\ new \subseteq Numbers
  <2> SUFFICES ASSUME NEW log \in ls, log.id = "worker"
               PROVE  log.n \in 1..produced /\ log.n \in Numbers
    OBVIOUS
  <2>1. log \in Authentic
    BY <1>4, <1>5
  <2>2. log.n \in Numbers /\ log.n <= produced
    BY <2>1 DEF Authentic, LogType
  <2> QED
    BY <2>2, LenProperties DEF Numbers, LogsInv, TypeOK, produced
<1> HIDE DEF new
<1>7. TypeOK'
  <2>1. Len(collector_events') <= EventsQueueSize
    BY <1>2, <1>3
  <2>2. saved' \in SUBSET Numbers
    BY <1>1, <1>6 DEF LogsInv, TypeOK
  <2> QED
    BY <1>1, <1>3, <2>1, <2>2 DEF LogsInv, TypeOK
<1>8. CollectedAreAuthentic'
  <2>1. saved' \subseteq 1..produced
    BY <1>1, <1>6 DEF LogsInv, CollectedAreAuthentic
  <2>2. \A k \in 1..Len(collector_events') : collector_events'[k] \in Range(collector_events')
    BY <1>3, RangeEquality
  <2>3. \A k \in 1..Len(collector_events') : collector_events'[k] \subseteq Authentic
    BY <1>4, <1>5, <2>2
  <2> QED
    BY <1>1, <2>1, <2>3 DEF CollectedAreAuthentic, Authentic
<1>9. NumbersSaved'
  BY <1>1 DEF LogsInv, NumbersSaved, PrefixSaved
<1>10. NumbersOrdered'
  BY <1>1 DEF LogsInv, NumbersOrdered, Below
<1> QED
  BY <1>7, <1>8, <1>9, <1>10 DEF LogsInv

\* The number that is reported is not smaller than any reported before: all of
\* those name logs that are saved, and the log after this one is not.
LEMMA ReportKeepsInv ==
    ASSUME LogsInv, handle_logs_collected
    PROVE  LogsInv'
<1> DEFINE n == LastSaved
<1>1. /\ Len(logs_collected) < CollectedQueueSize
      /\ logs_collected' = Append(logs_collected, n)
      /\ UNCHANGED <<sizes, discarded, logs, worker_events, collector_events, saved, submitted,
                     bundles, acks, observer_events>>
      /\ produced' = produced
  BY DEF handle_logs_collected, workerVars, netVars, produced
<1>2. n \in 0..MaxLogs /\ 1..n \subseteq saved /\ n + 1 \notin saved
  BY LastSavedProperties DEF LogsInv, TypeOK
<1> HIDE DEF n
<1>3. n \in SeqNo /\ n \in Nat /\ MaxLogs \in Nat
  BY <1>1, <1>2, BoundsAssumption, SeqNoRange
<1>4. ASSUME NEW S, PrefixSaved(S), S \subseteq Nat PROVE Below(S, {n})
  <2> SUFFICES ASSUME NEW m \in S, ~(m <= n) PROVE FALSE
    BY DEF Below
  <2>1. m \in Nat /\ n + 1 \in 1..m
    BY <1>3, <1>4
  <2>2. 1..m \subseteq saved
    BY <1>4 DEF PrefixSaved
  <2> QED
    BY <1>2, <2>1, <2>2
<1>5. /\ logs_collected \in Seq(SeqNo) /\ Len(logs_collected) \in Nat
      /\ worker_events \in Seq(SeqNo) /\ acks \in Seq(SeqNo)
      /\ CollectedQueueSize \in Nat
  BY LenProperties, QueueSizesAssumption DEF LogsInv, TypeOK
<1>6. /\ logs_collected' \in Seq(SeqNo) /\ Len(logs_collected') = Len(logs_collected) + 1
      /\ Range(logs_collected') = Range(logs_collected) \cup {n}
  BY <1>1, <1>3, <1>5, AppendProperties, RangeAppend
<1>7. SeqNo \subseteq Nat
  BY SeqNoRange
<1>8. /\ Range(logs_collected) \subseteq Nat /\ Range(worker_events) \subseteq Nat
      /\ Range(acks) \subseteq Nat
  BY <1>5, <1>7, RangeOfSeq
<1>9. TypeOK'
  <2>1. Len(logs_collected') <= CollectedQueueSize
    BY <1>1, <1>5, <1>6
  <2> QED
    BY <1>1, <1>6, <2>1 DEF LogsInv, TypeOK
<1>10. CollectedAreAuthentic'
  BY <1>1 DEF LogsInv, CollectedAreAuthentic
<1>11. NumbersSaved'
  BY <1>1, <1>2, <1>6 DEF LogsInv, NumbersSaved, PrefixSaved
<1>12. NumbersOrdered'
  <2>1. /\ Below(Range(logs_collected), {n}) /\ Below(Range(worker_events), {n})
        /\ Below(Range(acks), {n})
    BY <1>4, <1>8 DEF LogsInv, NumbersSaved
  <2>2. Below({discarded}, {n})
    <3>1. {discarded} \subseteq Nat
      BY DEF LogsInv, TypeOK
    <3> QED
      BY <1>4, <3>1 DEF LogsInv, NumbersSaved
  <2>3. /\ Below({discarded}, Range(logs_collected'))
        /\ Below(Range(worker_events), Range(logs_collected'))
        /\ Below(Range(acks), Range(logs_collected'))
    BY <1>6, <2>1, <2>2 DEF LogsInv, NumbersOrdered, Below
  <2>4. Ascending(logs_collected')
    <3>1. logs_collected \in Seq(Nat)
      BY <1>5, <1>7, SeqMonotonic
    <3> QED
      BY <1>1, <1>3, <2>1, <3>1, AscendingAppend DEF LogsInv, NumbersOrdered
  <2> QED
    BY <1>1, <2>3, <2>4 DEF LogsInv, NumbersOrdered
<1> QED
  BY <1>9, <1>10, <1>11, <1>12 DEF LogsInv

\* Acks that increase still do after a larger one.
LEMMA IncreasingAppend ==
    ASSUME NEW s \in Seq(SeqNo), NEW e \in SeqNo, Increasing(s), Below(Range(s), {e}),
           s = <<>> \/ Last(s) # e
    PROVE  Increasing(Append(s, e))
<1> DEFINE n == Len(s)
           t == Append(s, e)
<1>1. /\ n \in Nat /\ Len(t) = n + 1
      /\ \A i \in 1..n : t[i] = s[i] /\ s[i] <= e /\ s[i] \in Int
      /\ t[n + 1] = e /\ e \in Int
      /\ s = <<>> => n = 0
  <2>1. /\ n \in Nat /\ Len(t) = n + 1 /\ t[n + 1] = e
        /\ \A i \in 1..n : t[i] = s[i] /\ s[i] \in SeqNo
        /\ s = <<>> => n = 0
    BY AppendProperties, LenProperties, ElementOfSeq, EmptySeq
  <2>2. \A i \in 1..n : s[i] \in Range(s)
    BY RangeEquality
  <2>3. \A i \in 1..n : s[i] <= e
    BY <2>2 DEF Below
  <2>4. SeqNo \subseteq Int
    BY SeqNoRange
  <2> QED
    BY <2>1, <2>3, <2>4
<1>2. \A i \in 1..n : s[i] < e
  <2> SUFFICES ASSUME NEW i \in 1..n PROVE s[i] < e
    OBVIOUS
  <2>1. s # <<>> /\ n \in 1..n /\ Last(s) = s[n]
    BY <1>1 DEF Last
  <2>2. s[n] < e
    BY <1>1, <2>1
  <2>3. i = n \/ s[i] < s[n]
    BY <1>1, <2>1 DEF Increasing
  <2> QED
    BY <1>1, <2>1, <2>2, <2>3
<1> HIDE DEF t, n
<1> SUFFICES ASSUME NEW i \in 1..(n + 1), NEW j \in 1..(n + 1), i < j PROVE t[i] < t[j]
  BY <1>1 DEF Increasing, t
<1>3. i \in 1..n
  BY <1>1
<1>4. CASE j \in 1..n
  BY <1>1, <1>3, <1>4 DEF Increasing, n
<1>5. CASE j = n + 1
  BY <1>1, <1>2, <1>3, <1>5
<1> QED
  BY <1>1, <1>4, <1>5

\* The oldest number of the queue is published after all that are under way.
LEMMA PublishKeepsInv ==
    ASSUME LogsInv, publish_logs_collected
    PROVE  LogsInv'
<1> DEFINE h == Head(logs_collected)
<1>1. /\ logs_collected # <<>> /\ logs_collected' = Tail(logs_collected)
      /\ acks' = IF acks # <<>> /\ Last(acks) = h THEN acks ELSE Append(acks, h)
      /\ UNCHANGED <<sizes, discarded, logs, worker_events, collector_events, saved, submitted,
                     bundles, observer_events>>
      /\ produced' = produced
  BY DEF publish_logs_collected, workerVars, produced
<1>2. /\ logs_collected \in Seq(SeqNo) /\ acks \in Seq(SeqNo)
      /\ Len(logs_collected) \in Nat /\ Len(logs_collected) <= CollectedQueueSize
      /\ CollectedQueueSize \in Nat
  BY LenProperties, QueueSizesAssumption DEF LogsInv, TypeOK
<1>3. /\ h \in SeqNo /\ logs_collected' \in Seq(SeqNo)
      /\ Len(logs_collected') = Len(logs_collected) - 1
      /\ Range(logs_collected') \subseteq Range(logs_collected) /\ h \in Range(logs_collected)
  BY <1>1, <1>2, HeadTailProperties, RangeTail
<1>4. /\ Below(Range(acks), {h}) /\ Below(Range(worker_events), {h}) /\ Below({discarded}, {h})
  BY <1>3 DEF LogsInv, NumbersOrdered, Below
<1>5. acks' \in Seq(SeqNo) /\ Range(acks') \subseteq Range(acks) \cup {h}
  <2>1. CASE acks' = acks
    BY <1>2, <2>1
  <2>2. CASE acks' = Append(acks, h)
    BY <1>2, <1>3, <2>2, AppendProperties, RangeAppend
  <2> QED
    BY <1>1, <2>1, <2>2
<1>6. Increasing(acks')
  <2>1. CASE acks # <<>> /\ Last(acks) = h
    BY <1>1, <2>1 DEF LogsInv, NumbersOrdered
  <2>2. CASE acks = <<>> \/ Last(acks) # h
    <3>1. acks' = Append(acks, h)
      BY <1>1, <2>2
    <3>2. Increasing(acks)
      BY DEF LogsInv, NumbersOrdered
    <3> HIDE DEF h
    <3>3. Increasing(Append(acks, h))
      BY <1>2, <1>3, <1>4, <2>2, <3>2, IncreasingAppend
    <3> QED
      BY <3>1, <3>3
  <2> QED
    BY <2>1, <2>2
<1>7. TypeOK'
  <2>1. Len(acks') <= MaxLogs + 1
    BY <1>5, <1>6, AcksBounded
  <2>2. Len(logs_collected') <= CollectedQueueSize
    BY <1>2, <1>3
  <2> QED
    BY <1>1, <1>3, <1>5, <2>1, <2>2 DEF LogsInv, TypeOK
<1>8. CollectedAreAuthentic'
  BY <1>1 DEF LogsInv, CollectedAreAuthentic
<1>9. NumbersSaved'
  BY <1>1, <1>3, <1>5 DEF LogsInv, NumbersSaved, PrefixSaved
<1>10. NumbersOrdered'
  <2>1. logs_collected \in Seq(Nat)
    <3>1. SeqNo \subseteq Nat
      BY SeqNoRange
    <3> QED
      BY <1>2, <3>1, SeqMonotonic
  <2>2. Ascending(logs_collected') /\ Below({h}, Range(logs_collected'))
    BY <1>1, <2>1, AscendingTail DEF LogsInv, NumbersOrdered
  <2> HIDE DEF h
  <2>3. /\ Below({discarded}, Range(acks')) /\ Below({discarded}, Range(logs_collected'))
        /\ Below(Range(worker_events), Range(acks'))
        /\ Below(Range(worker_events), Range(logs_collected'))
    BY <1>3, <1>4, <1>5 DEF LogsInv, NumbersOrdered, Below
  <2>4. Below(Range(acks'), Range(logs_collected'))
    BY <1>3, <1>5, <2>2 DEF LogsInv, NumbersOrdered, Below
  <2> QED
    BY <1>1, <1>6, <2>2, <2>3, <2>4 DEF LogsInv, NumbersOrdered
<1> QED
  BY <1>7, <1>8, <1>9, <1>10 DEF LogsInv

(* ------------------------------------------------------------------------ *)
(* What is collected arrives                                                *)
(* ------------------------------------------------------------------------ *)

\* An ack that gets through, or is lost, makes way for larger ones only.
LEMMA AckKeepsInv ==
    ASSUME LogsInv, NEW i \in 1..Len(acks), acks' = StillFresh(i),
           worker_events' = send_lossy(worker_events, acks[i]) \/ UNCHANGED worker_events,
           UNCHANGED <<sizes, discarded, logs, collectorVars, submitted, bundles,
                       observer_events>>
    PROVE  LogsInv'
<1> DEFINE a == acks[i]
<1>1. /\ UNCHANGED <<sizes, discarded, logs, collector_events, saved, logs_collected, submitted,
                     bundles, observer_events>>
      /\ produced' = produced
  BY DEF collectorVars, produced
<1>2. /\ acks \in Seq(SeqNo) /\ Increasing(acks)
      /\ worker_events \in Seq(SeqNo) /\ Len(worker_events) <= EventsQueueSize
  BY DEF LogsInv, TypeOK, NumbersOrdered
<1>3. /\ acks' \in Seq(SeqNo) /\ Increasing(acks')
      /\ Range(acks') \subseteq Range(acks) /\ a \in Range(acks) /\ a \in SeqNo
      /\ Below({a}, Range(acks'))
  BY <1>2, StillFreshProperties
<1>4. Below(Range(worker_events), {a})
  BY <1>3 DEF LogsInv, NumbersOrdered, Below
<1>5. /\ worker_events' \in Seq(SeqNo) /\ Len(worker_events') <= EventsQueueSize
      /\ Range(worker_events') \subseteq Range(worker_events) \cup {a}
  BY <1>2, <1>3, SendLossy
<1>6. Ascending(worker_events')
  <2>1. worker_events \in Seq(Nat) /\ a \in Nat /\ Ascending(worker_events)
    <3>1. SeqNo \subseteq Nat
      BY SeqNoRange
    <3> QED
      BY <1>2, <1>3, <3>1, SeqMonotonic DEF LogsInv, NumbersOrdered
  <2> QED
    BY <1>4, <2>1, SendLossyAscending
<1> HIDE DEF a
<1>7. TypeOK'
  <2>1. Len(acks') <= MaxLogs + 1
    BY <1>3, AcksBounded
  <2> QED
    BY <1>1, <1>3, <1>5, <2>1 DEF LogsInv, TypeOK
<1>8. CollectedAreAuthentic'
  BY <1>1 DEF LogsInv, CollectedAreAuthentic
<1>9. NumbersSaved'
  BY <1>1, <1>3, <1>5 DEF LogsInv, NumbersSaved, PrefixSaved
<1>10. NumbersOrdered'
  <2>1. /\ Below({discarded}, Range(worker_events')) /\ Below({discarded}, Range(acks'))
        /\ Below(Range(worker_events'), Range(logs_collected))
        /\ Below(Range(acks'), Range(logs_collected))
    BY <1>3, <1>5 DEF LogsInv, NumbersOrdered, Below
  <2>2. Below(Range(worker_events'), Range(acks'))
    BY <1>3, <1>5 DEF LogsInv, NumbersOrdered, Below
  <2> QED
    BY <1>1, <1>3, <1>6, <2>1, <2>2 DEF LogsInv, NumbersOrdered
<1> QED
  BY <1>7, <1>8, <1>9, <1>10 DEF LogsInv

\* The observer hears a number that is under way, or reads one it has heard.
LEMMA ObserverKeepsInv ==
    ASSUME LogsInv, UNCHANGED <<workerVars, collectorVars, submitted, netVars>>,
           \/ \E i \in 1..Len(acks) : observer_events' = send_lossy(observer_events, acks[i])
           \/ observer_events # <<>> /\ observer_events' = Tail(observer_events)
    PROVE  LogsInv'
<1>1. /\ UNCHANGED <<sizes, discarded, logs, worker_events, collector_events, saved,
                     logs_collected, submitted, bundles, acks>>
      /\ produced' = produced
  BY DEF workerVars, collectorVars, netVars, produced
<1>2. /\ observer_events \in Seq(SeqNo) /\ Len(observer_events) <= EventsQueueSize
      /\ Len(observer_events) \in Nat /\ EventsQueueSize \in Nat /\ acks \in Seq(SeqNo)
  BY LenProperties, QueueSizesAssumption DEF LogsInv, TypeOK
<1>3. /\ observer_events' \in Seq(SeqNo) /\ Len(observer_events') <= EventsQueueSize
      /\ PrefixSaved(Range(observer_events'))
  <2>1. ASSUME NEW i \in 1..Len(acks), observer_events' = send_lossy(observer_events, acks[i])
        PROVE  <1>3
    <3>1. acks[i] \in SeqNo /\ acks[i] \in Range(acks)
      BY <1>2, ElementOfSeq, RangeEquality
    <3>2. /\ observer_events' \in Seq(SeqNo) /\ Len(observer_events') <= EventsQueueSize
          /\ Range(observer_events') \subseteq Range(observer_events) \cup {acks[i]}
      BY <1>2, <2>1, <3>1, SendLossy
    <3> QED
      BY <3>1, <3>2 DEF LogsInv, NumbersSaved, PrefixSaved
  <2>2. CASE observer_events # <<>> /\ observer_events' = Tail(observer_events)
    <3>1. /\ observer_events' \in Seq(SeqNo)
          /\ Len(observer_events') = Len(observer_events) - 1
          /\ Range(observer_events') \subseteq Range(observer_events)
      BY <1>2, <2>2, HeadTailProperties, RangeTail
    <3>2. Len(observer_events') <= EventsQueueSize
      BY <1>2, <3>1
    <3> QED
      BY <3>1, <3>2 DEF LogsInv, NumbersSaved, PrefixSaved
  <2> QED
    BY <2>1, <2>2
<1>4. TypeOK'
  BY <1>1, <1>3 DEF LogsInv, TypeOK
<1>5. CollectedAreAuthentic' /\ NumbersOrdered'
  BY <1>1 DEF LogsInv, CollectedAreAuthentic, NumbersOrdered, Below
<1>6. NumbersSaved'
  BY <1>1, <1>3 DEF LogsInv, NumbersSaved, PrefixSaved
<1> QED
  BY <1>4, <1>5, <1>6 DEF LogsInv

(* ------------------------------------------------------------------------ *)
(* The theorems                                                             *)
(* ------------------------------------------------------------------------ *)

\* Steps that change nothing keep the invariant.
LEMMA StutterKeepsInv == LogsInv /\ UNCHANGED vars => LogsInv'
BY DEF vars, workerVars, collectorVars, netVars, LogsInv, TypeOK, produced, CollectedAreAuthentic,
       NumbersSaved, PrefixSaved, NumbersOrdered, Below

\* Every step keeps the invariant, and none takes the worker's user back.
LEMMA NextKeepsInv == LogsInv /\ [Next]_vars => LogsInv' /\ discarded' >= discarded
<1> SUFFICES ASSUME LogsInv, [Next]_vars PROVE LogsInv' /\ discarded' >= discarded
  OBVIOUS
<1>1. discarded \in Int
  BY DEF LogsInv, TypeOK
<1>2. CASE next_worker_event
  BY <1>2, HearKeepsInv
<1>3. CASE UNCHANGED discarded
  <2>1. discarded' >= discarded
    BY <1>1, <1>3
  <2>2. ASSUME NEW size \in Sizes, make_log(size) PROVE LogsInv'
    BY <2>2, MakeKeepsInv
  <2>3. ASSUME handle_send_logs \/ send_logs PROVE LogsInv'
    BY <2>3, HandOverKeepsInv, SendKeepsInv
  <2>4. ASSUME NEW b \in bundles, deliver_bundle(b) \/ lose_bundle(b) PROVE LogsInv'
    BY <2>4, DeliverKeepsInv, LoseBundleKeepsInv
  <2>5. ASSUME NEW id \in {"worker", "other"}, other_bundle(id, MaxLogs) PROVE LogsInv'
    BY <2>5, OtherBundleKeepsInv
  <2>6. ASSUME NEW m \in GatewayLogs, handle_gateway_log(m) PROVE LogsInv'
    BY <2>6, SubmitKeepsInv
  <2>7. ASSUME NEW from \in {"gateway", "other"}, NEW id \in {"gateway", "other"},
               NEW m \in GatewayLogs, on_gateway_log(from, Log(id, from, m))
        PROVE  LogsInv'
    BY <2>7, GatewayLogKeepsInv
  <2>8. ASSUME next_collector_event \/ handle_logs_collected \/ publish_logs_collected
        PROVE  LogsInv'
    BY <2>8, SaveKeepsInv, ReportKeepsInv, PublishKeepsInv
  <2>9. ASSUME NEW i \in 1..Len(acks), deliver_ack(i) \/ lose_ack(i) PROVE LogsInv'
    <3>1. /\ acks' = StillFresh(i)
          /\ worker_events' = send_lossy(worker_events, acks[i]) \/ UNCHANGED worker_events
          /\ UNCHANGED <<sizes, discarded, logs, collectorVars, submitted, bundles,
                         observer_events>>
      BY <2>9 DEF deliver_ack, lose_ack, on_logs_collected, workerVars
    <3> QED
      BY <3>1, AckKeepsInv
  <2>10. ASSUME NEW i \in 1..Len(acks), observe_ack(i) PROVE LogsInv'
    BY <2>10, ObserverKeepsInv DEF observe_ack, observe_logs_collected
  <2>11. ASSUME next_observer_event PROVE LogsInv'
    BY <2>11, ObserverKeepsInv DEF next_observer_event
  <2>12. ASSUME other_ack(MaxLogs) \/ UNCHANGED vars PROVE LogsInv'
    BY <2>12, StutterKeepsInv DEF other_ack, on_logs_collected, observe_logs_collected, vars, workerVars
  <2> QED
    BY <1>2, <2>1, <2>2, <2>3, <2>4, <2>5, <2>6, <2>7, <2>8, <2>9, <2>10, <2>11, <2>12 DEF Next
<1> QED
  BY <1>2, <1>3 DEF Next, vars, workerVars, make_log, handle_send_logs, send_logs, deliver_bundle,
     lose_bundle, other_bundle, handle_gateway_log, on_gateway_log, next_collector_event,
     handle_logs_collected, publish_logs_collected, deliver_ack, observe_ack, lose_ack, other_ack,
     next_observer_event

\* The actors on the way of the logs keep the inductive invariant.
THEOREM LogsInvariant == Spec => []LogsInv
BY InitInv, NextKeepsInv, PTL DEF Spec

\* The variables have their types and no queue of the worker, the collector or
\* the observer exceeds its size.
THEOREM LogsTyping == Spec => []TypeOK
<1>1. LogsInv => TypeOK
  BY DEF LogsInv
<1> QED
  BY <1>1, LogsInvariant, PTL

\* What LogsCollected announces to the worker and to the observer is saved, for
\* any loss, repetition and order of bundles and acks.
THEOREM AnnouncedSaved == Spec => []AnnouncedAreSaved
<1>1. LogsInv => AnnouncedAreSaved
  <2> SUFFICES ASSUME LogsInv PROVE AnnouncedAreSaved
    OBVIOUS
  <2>1. observer_events \in Seq(SeqNo)
    BY DEF LogsInv, TypeOK
  <2>2. \A k \in 1..Len(observer_events) : observer_events[k] \in Range(observer_events)
    BY <2>1, RangeEquality
  <2> QED
    BY <2>2 DEF LogsInv, NumbersSaved, PrefixSaved, AnnouncedAreSaved
<1> QED
  BY <1>1, LogsInvariant, PTL

\* The checks of on_worker_logs and on_gateway_log let nothing through in the
\* name of a node whose user has not handed it over.
THEOREM CollectedAuthentic == Spec => []CollectedAreAuthentic
<1>1. LogsInv => CollectedAreAuthentic
  BY DEF LogsInv
<1> QED
  BY <1>1, LogsInvariant, PTL

\* With one number kept per topic, last_seq_no never goes back at the worker.
THEOREM NumbersAdvance == Spec => AcksAdvance
<1>1. LogsInv /\ [Next]_vars => [discarded' >= discarded]_vars
  BY NextKeepsInv
<1> QED
  BY <1>1, LogsInvariant, PTL DEF Spec, AcksAdvance
=============================================================================
