--------------------------------- MODULE Logs ---------------------------------
(* The way of the query logs: a worker (actors/worker.rs) publishes the logs   *)
(* its user hands over, in bundles (behaviour/base.rs); the logs collector     *)
(* (actors/logs_collector.rs) passes on those that are the publisher's own,    *)
(* next to the logs gateways send it; its user saves them and has it publish   *)
(* how far it has got, which the worker's user and the user of an observer     *)
(* (actors/observer.rs) hear of.                                               *)
(*                                                                             *)
(* External: the worker's user numbers its logs from 1, keeps them until it    *)
(* hears that they are saved and hands over all it keeps, again and again; the *)
(* collector's user saves what it is given and reports, for each worker it has *)
(* logs of, the last number up to which it has everything; a report may hold   *)
(* other workers' numbers only.  Gossip loses and reorders.  Its windows       *)
(* (module Pubsub) hold 100 numbers for logs, which is no limit here, and one  *)
(* for what is collected: nothing older than the newest gets through.  Another *)
(* registered peer publishes what it likes.                                    *)
EXTENDS Integers, FiniteSets, SequencesExt

CONSTANTS
    Sizes,                \* encoded sizes a log can have
    SizeLimit,            \* BaseConfig::max_pubsub_msg_size
    Overhead,             \* what an encoded and framed bundle adds to its logs
    LogsQueueSize,        \* WorkerConfig::logs_queue_size
    CollectedQueueSize,   \* LogsCollectorConfig::logs_collected_queue_size
    EventsQueueSize,      \* events_queue_size of the actors
    GatewayLogs,          \* QuerySubmitted and QueryFinished messages
    MaxLogs               \* bound: logs the worker's user makes

ASSUME SizesAssumption == Sizes \subseteq Nat \ {0} /\ {SizeLimit, Overhead} \subseteq Nat
ASSUME QueueSizesAssumption ==
    {LogsQueueSize, CollectedQueueSize, EventsQueueSize} \subseteq Nat \ {0}
ASSUME BoundsAssumption == MaxLogs \in Nat \ {0}

VARIABLES
    sizes,             \* external: sizes of the logs the worker's user has made
    discarded,         \* external: its logs up to this number are gone
    logs,              \* the queue behind the worker's logs_tx: batches, as the
                       \* numbers of their logs
    worker_events,     \* the worker's events queue: last_seq_no of LogsCollected,
                       \* NoSeqNo for None
    bundles,           \* bundles of the worker in flight, likewise
    submitted,         \* logs in the gateway's queue or with its log client
    collector_events,  \* the collector's events queue: sets of logs
    saved,             \* external: numbers saved in the name of the worker
    logs_collected,    \* the queue behind the collector's logs_collected_tx
    acks,              \* LogsCollected messages in flight, in the order they were
                       \* published: the number they hold for the worker, or NoSeqNo
    observer_events    \* the observer's events queue: likewise

workerVars == <<sizes, discarded, logs, worker_events>>
collectorVars == <<collector_events, saved, logs_collected>>
netVars == <<bundles, acks>>
vars == <<workerVars, collectorVars, submitted, netVars, observer_events>>

NoSeqNo == 0
produced == Len(sizes)

\* A log as its reader sees it: whom it names, who signed it.
Log(id, signer, n) == [id |-> id, signer |-> signer, n |-> n]
WorkerLog(n) == Log("worker", "worker", n)

\* The length of the longest prefix of the worker's logs that is saved.
LastSaved ==
    CHOOSE n \in 0..MaxLogs :
        1..n \subseteq saved /\ n + 1 \notin saved

QueuesEmpty ==
    /\ logs = <<>> /\ worker_events = <<>>
    /\ collector_events = <<>> /\ logs_collected = <<>>
    /\ observer_events = <<>>

Init ==
    /\ QueuesEmpty
    /\ sizes = <<>> /\ discarded = 0
    /\ saved = {} /\ submitted = {}
    /\ bundles = {} /\ acks = <<>>

\* Sender::send_lossy on a queue of events.
HasRoom(q) == Len(q) < EventsQueueSize

send_lossy_Unbounded(q, e) == Append(q, e)

send_lossy(q, e) == IF HasRoom(q) THEN Append(q, e) ELSE q

(* ------------------------------------------------------------------------ *)
(* The worker                                                               *)
(* ------------------------------------------------------------------------ *)

SizeOf(b) == MapThenSumSet(LAMBDA n : sizes[n], b)

\* P splits the messages, in order, into bundles of at most the limit, each of
\* which ends where the next message does not fit in what remains.
IsBundling(P, fitting) ==
    /\ UNION P = fitting /\ {} \notin P
    /\ \A b \in P : LET later == {n \in fitting : n > Max(b)} IN
          /\ \A c \in P \ {b} : c \subseteq later \/ \A n \in c : n < Min(b)
          /\ SizeOf(b) <= SizeLimit
          /\ later # {} => sizes[Min(later)] > SizeLimit - SizeOf(b)

bundle_messages_LastLost(ns) ==
    LET fitting == {n \in ns : sizes[n] <= SizeLimit} IN
    UNION {{b \in P : Max(fitting) \notin b} :
              P \in {Q \in SUBSET SUBSET ns : IsBundling(Q, fitting)}}

\* Greedy, in order, so there is one way; a message above the limit is left out.
bundle_messages(ns) ==
    LET fitting == {n \in ns : sizes[n] <= SizeLimit} IN
    UNION {P \in SUBSET SUBSET ns : IsBundling(P, fitting)}

\* The worker's user executes a query.
make_log(size) ==
    /\ produced < MaxLogs
    /\ sizes' = Append(sizes, size)
    /\ UNCHANGED <<discarded, logs, worker_events, collectorVars, submitted,
                   netVars, observer_events>>

\* WorkerTransportHandle::send_logs; a full queue refuses with QueueFull.
handle_send_logs ==
    /\ discarded < produced
    /\ Len(logs) < LogsQueueSize
    /\ logs' = Append(logs, (discarded + 1)..produced)
    /\ UNCHANGED <<sizes, discarded, worker_events, collectorVars, submitted,
                   netVars, observer_events>>

\* gossipsub refuses a message that is too large as it goes over the wire.
Publishable(b) == SizeOf(b) + Overhead <= SizeLimit

\* Sign, bundle, publish.
publish_worker_logs(ns) ==
    bundles' = bundles \cup {b \in bundle_messages(ns) : Publishable(b)}

send_logs ==
    /\ logs # <<>>
    /\ logs' = Tail(logs)
    /\ publish_worker_logs(Head(logs))
    /\ UNCHANGED <<sizes, discarded, worker_events, collectorVars, submitted, acks,
                   observer_events>>

on_logs_collected_AnyPeer(from, n) == worker_events' = send_lossy(worker_events, n)

\* WorkerBehaviour::on_logs_collected: last_seq_no for this worker, from the
\* collector only; a message that has none makes an event all the same.
on_logs_collected(from, n) ==
    worker_events' = IF from = "collector" THEN send_lossy(worker_events, n)
                     ELSE worker_events

\* The worker's user hears of it and drops its logs up to last_seq_no, if any.
next_worker_event ==
    /\ worker_events # <<>>
    /\ worker_events' = Tail(worker_events)
    /\ discarded' = IF Head(worker_events) = NoSeqNo THEN discarded
                    ELSE Head(worker_events)
    /\ UNCHANGED <<sizes, logs, collectorVars, submitted, netVars, observer_events>>

(* ------------------------------------------------------------------------ *)
(* The logs collector                                                       *)
(* ------------------------------------------------------------------------ *)

OwnLog_SignatureOnly(from, log) == log.signer = from

\* The log names its publisher and carries its signature.
OwnLog(from, log) == log.id = from /\ log.signer = from

\* An event of the behaviour goes to the user.
on_swarm_event(ls) == collector_events' = send_lossy(collector_events, ls)

\* Only the publisher's own logs are passed on, if there are any.
on_worker_logs(from, ls) ==
    LET own == {log \in ls : OwnLog(from, log)} IN
    \/ own = {} /\ UNCHANGED collector_events
    \/ own # {} /\ on_swarm_event(own)

\* A bundle of the worker arrives.
deliver_bundle(b) ==
    /\ bundles' = bundles \ {b}
    /\ on_worker_logs("worker", {WorkerLog(n) : n \in b})
    /\ UNCHANGED <<workerVars, saved, logs_collected, submitted, acks, observer_events>>

\* A bundle of the other peer arrives, with a log of its own or in the worker's name.
other_bundle(id, n) ==
    /\ on_worker_logs("other", {Log(id, "other", n)})
    /\ UNCHANGED <<workerVars, saved, logs_collected, submitted, netVars,
                   observer_events>>

lose_bundle(b) ==
    /\ bundles' = bundles \ {b}
    /\ UNCHANGED <<workerVars, collectorVars, submitted, acks, observer_events>>

\* A message that finds the queue or the log client full is dropped.
send_log_msg(m) == submitted' = submitted \cup {m}

\* GatewayTransportHandle::query_submitted or ::query_finished.
handle_gateway_log(m) ==
    /\ send_log_msg(m)
    /\ UNCHANGED <<workerVars, collectorVars, netVars, observer_events>>

\* The log names the gateway that sent it.
OwnGatewayLog(from, log) == log.id = from

\* A gateway log arrives and is acknowledged; it is passed on if it is the
\* sender's own.  The queue and the log client behind it (module RequestClient)
\* deliver a message, repeat it, or give up.
on_gateway_log(from, log) ==
    /\ from = "gateway" => log.id = from /\ log.n \in submitted
    /\ OwnGatewayLog(from, log)
    /\ on_swarm_event({log})
    /\ UNCHANGED <<workerVars, saved, logs_collected, submitted, netVars,
                   observer_events>>

\* The collector's user saves what it is given; the worker's logs are followed.
next_collector_event ==
    /\ collector_events # <<>>
    /\ collector_events' = Tail(collector_events)
    /\ saved' = saved \cup {log.n : log \in {l \in Head(collector_events) : l.id = "worker"}}
    /\ UNCHANGED <<workerVars, logs_collected, submitted, netVars, observer_events>>

\* LogsCollectorTransportHandle::logs_collected; a full queue refuses.  As long
\* as it has nothing of the worker, LastSaved is NoSeqNo.
handle_logs_collected ==
    /\ Len(logs_collected) < CollectedQueueSize
    /\ logs_collected' = Append(logs_collected, LastSaved)
    /\ UNCHANGED <<workerVars, collector_events, saved, submitted, netVars,
                   observer_events>>

\* publish_logs_collected.  Messages with the same number, one after the other,
\* are not told apart.  The second copy, on the topic of the logs, is read by
\* earlier versions only.
publish_logs_collected ==
    /\ logs_collected # <<>>
    /\ logs_collected' = Tail(logs_collected)
    /\ acks' = IF acks # <<>> /\ Last(acks) = Head(logs_collected) THEN acks
               ELSE Append(acks, Head(logs_collected))
    /\ UNCHANGED <<workerVars, collector_events, saved, submitted, bundles,
                   observer_events>>

(* ------------------------------------------------------------------------ *)
(* What is collected arrives                                                *)
(* ------------------------------------------------------------------------ *)

StillFresh_Unordered(i) == RemoveAt(acks, i)

\* TopicState with keep_last = 1: what is older than the newest is refused.
StillFresh(i) == SubSeq(acks, i + 1, Len(acks))

deliver_ack(i) ==
    /\ acks' = StillFresh(i)
    /\ on_logs_collected("collector", acks[i])
    /\ UNCHANGED <<sizes, discarded, logs, collectorVars, submitted, bundles,
                   observer_events>>

\* ObserverBehaviour::on_base_event: from the collector only, as in the worker.
observe_logs_collected(from, n) ==
    observer_events' = IF from = "collector" THEN send_lossy(observer_events, n)
                       ELSE observer_events

\* The same message reaches the observer, sooner or later than the worker.
observe_ack(i) ==
    /\ observe_logs_collected("collector", acks[i])
    /\ UNCHANGED <<workerVars, collectorVars, submitted, netVars>>

\* Another peer publishes on the collector's topic.
other_ack(n) ==
    /\ on_logs_collected("other", n)
    /\ observe_logs_collected("other", n)
    /\ UNCHANGED <<sizes, discarded, logs, collectorVars, submitted, netVars>>

\* The observer's user reads.
next_observer_event ==
    /\ observer_events # <<>>
    /\ observer_events' = Tail(observer_events)
    /\ UNCHANGED <<workerVars, collectorVars, submitted, netVars>>

\* An ack may get lost: the newest, too.
lose_ack(i) ==
    /\ acks' = StillFresh(i)
    /\ UNCHANGED <<workerVars, collectorVars, submitted, bundles, observer_events>>

Next ==
    \/ \E size \in Sizes : make_log(size)
    \/ handle_send_logs
    \/ send_logs
    \/ next_worker_event
    \/ \E b \in bundles : deliver_bundle(b) \/ lose_bundle(b)
    \/ \E id \in {"worker", "other"} : other_bundle(id, MaxLogs)
    \/ \E m \in GatewayLogs : handle_gateway_log(m)
    \/ \E from, id \in {"gateway", "other"}, m \in GatewayLogs :
          on_gateway_log(from, Log(id, from, m))
    \/ next_collector_event
    \/ handle_logs_collected
    \/ publish_logs_collected
    \/ \E i \in 1..Len(acks) : deliver_ack(i) \/ observe_ack(i) \/ lose_ack(i)
    \/ other_ack(MaxLogs)
    \/ next_observer_event

Spec == Init /\ [][Next]_vars

\* Log n is in a bundle that gossip accepts; it reaches the collector's user.
log_published(n) ==
    /\ send_logs
    /\ \E b \in bundle_messages(Head(logs)) : n \in b /\ Publishable(b)
log_heard(n) ==
    \E b \in bundles : n \in b /\ HasRoom(collector_events) /\ deliver_bundle(b)

ack_heard == \E i \in 1..Len(acks) : HasRoom(worker_events) /\ deliver_ack(i)

\* The tasks run and the users keep reading and repeating.  Of what is published
\* again and again some gets through: gossip does not lose every copy, and the
\* queue of events is not full each time.
Fairness ==
    /\ WF_vars(handle_send_logs)
    /\ WF_vars(send_logs)
    /\ WF_vars(next_worker_event)
    /\ WF_vars(next_collector_event)
    /\ WF_vars(handle_logs_collected)
    /\ WF_vars(publish_logs_collected)
    /\ \A n \in 1..MaxLogs :
          <>[][~log_published(n)]_vars \/ []<><<log_heard(n)>>_vars
    /\ <>[][~publish_logs_collected]_vars \/ []<><<ack_heard>>_vars

FairSpec == Spec /\ Fairness

(* ------------------------------------------------------------------------ *)
(* Properties                                                               *)
(* ------------------------------------------------------------------------ *)

Numbers == 1..MaxLogs
SeqNo == Numbers \cup {NoSeqNo}
LogType ==
    [id : {"worker", "other"}, signer : {"worker", "other"}, n : Numbers]
        \cup [id : {"gateway", "other"}, signer : {"gateway", "other"}, n : GatewayLogs]

\* Every variable has its type and no queue exceeds its size.
TypeOK ==
    /\ sizes \in Seq(Sizes) /\ produced <= MaxLogs
    /\ discarded \in 0..produced
    /\ logs \in Seq(SUBSET (1..produced)) /\ Len(logs) <= LogsQueueSize
    /\ worker_events \in Seq(SeqNo) /\ Len(worker_events) <= EventsQueueSize
    /\ bundles \in SUBSET SUBSET (1..produced)
    /\ submitted \in SUBSET GatewayLogs
    /\ collector_events \in Seq(SUBSET LogType)
    /\ Len(collector_events) <= EventsQueueSize
    /\ saved \in SUBSET Numbers
    /\ logs_collected \in Seq(SeqNo)
    /\ Len(logs_collected) <= CollectedQueueSize
    /\ acks \in Seq(SeqNo) /\ Len(acks) <= MaxLogs + 1
    /\ observer_events \in Seq(SeqNo) /\ Len(observer_events) <= EventsQueueSize

\* "Logs up to `last_seq_no` have been saved by logs collector": what the worker's
\* user drops on an event, and what the observer's user hears of, is saved,
\* whoever publishes on the topic and in whatever order bundles and acks arrive.
AnnouncedAreSaved ==
    /\ 1..discarded \subseteq saved
    /\ \A k \in 1..Len(observer_events) : 1..observer_events[k] \subseteq saved

\* What the collector's user is given, and saves, in the name of the worker or
\* the gateway is a log that the user of that node has handed over, whatever
\* other peers send and whenever they do.
CollectedAreAuthentic ==
    /\ saved \subseteq 1..produced
    /\ \A k \in 1..Len(collector_events) : \A log \in collector_events[k] :
          /\ log.id = "worker" => log.n <= produced
          /\ log.id = "gateway" => log.n \in submitted

\* The numbers the worker's user hears never go back, although gossip reorders
\* them: it would otherwise take logs for unsaved that it no longer has.
AcksAdvance == [][discarded' >= discarded]_vars

\* "Bundle into chunks of at most `size_limit` total size" (base.rs): what is
\* about to be published is within the limit of gossipsub, which is the same.
BundlesWithinLimit ==
    \A k \in 1..Len(logs) :
        \A b \in bundle_messages(logs[k]) : Publishable(b)

\* Unless batches keep making bundles that gossipsub refuses, a log that can be
\* published, like all logs before it, is saved and its worker hears of it,
\* although bundles, events and acks get lost on the way.
LogsSettle ==
    <>[]BundlesWithinLimit =>
        \A n \in Numbers :
            (produced >= n /\ \A m \in 1..n : Publishable({m})) ~> discarded >= n
================================================================================
