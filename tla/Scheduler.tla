------------------------------ MODULE Scheduler ------------------------------
(* The scheduler actor (transport/src/actors/scheduler.rs) on top of the      *)
(* lookups and probes of its BaseBehaviour: the user's handle, the queues     *)
(* between the user and the transport task, and SchedulerBehaviour.           *)
(* The transport task runs a swarm event to its end (poll, on_inner_event,    *)
(* on_swarm_event, send_lossy) before it takes up anything else, so that is   *)
(* one action.  The pong client is a RequestClient: what matters here is that *)
(* it may not know a peer, at any time.                                       *)
EXTENDS PeerLookup

CONSTANTS
    ProbesQueueSize,  \* SchedulerConfig::probes_queue_size
    EventsQueueSize   \* SchedulerConfig::events_queue_size

ASSUME QueueSizesAssumption ==
    ProbesQueueSize \in Nat \ {0} /\ EventsQueueSize \in Nat \ {0}

VARIABLES
    probes,   \* the queue behind probes_tx and probes_rx
    events,   \* the queue behind events_tx and the user's stream
    waiting   \* history: peers with a probe taken up and no verdict since

schedulerVars == <<vars, probes, events, waiting>>

\* SchedulerEvent in the queue; which peer it is about is in waiting.
Ping == "Ping"
PeerProbed == "PeerProbed"

QueuesEmpty == probes = <<>> /\ events = <<>>

SchedulerInit ==
    /\ Init
    /\ QueuesEmpty
    /\ waiting = {}

(* ------------------------------------------------------------------------ *)
(* The user's side                                                          *)
(* ------------------------------------------------------------------------ *)

\* SchedulerTransportHandle::probe_peer; a full queue refuses with QueueFull.
handle_probe_peer(p) ==
    /\ Len(probes) < ProbesQueueSize
    /\ probes' = Append(probes, p)
    /\ UNCHANGED <<vars, events, waiting>>

next_event ==
    /\ events # <<>>
    /\ events' = Tail(events)
    /\ UNCHANGED <<vars, probes, waiting>>

(* ------------------------------------------------------------------------ *)
(* The transport task                                                       *)
(* ------------------------------------------------------------------------ *)

send_lossy_Unbounded(e) == events' = Append(events, e)

send_lossy(e) ==
    events' = IF Len(events) < EventsQueueSize THEN Append(events, e) ELSE events

\* probe_peer and what try_probe_peer returns: Ok(true), Ok(false) for a probe
\* that is under way or scheduled now, and Err, which is logged.
probe_peer ==
    /\ probes # <<>>
    /\ probes' = Tail(probes)
    /\ LET p == Head(probes) IN
       \/ /\ ProbeConnected(p)
          /\ send_lossy(PeerProbed)
          /\ UNCHANGED <<vars, waiting>>
       \/ /\ ProbeUnderWay(p)
          /\ waiting' = waiting \cup {p}
          /\ UNCHANGED <<vars, events>>
       \/ /\ schedule_probe(p)
          /\ waiting' = waiting \cup {p}
          /\ UNCHANGED events
       \/ /\ ProbeRefused(p)
          /\ UNCHANGED <<vars, events, waiting>>

\* PeerProbed from the base behaviour.
on_peer_probed(p) ==
    /\ send_lossy(PeerProbed)
    /\ waiting' = waiting \ {p}
    /\ UNCHANGED probes

probe_succeeded ==
    deliver_probed /\ on_peer_probed(Head(pending_events))

probe_failed(p) ==
    probe_timed_out(p) /\ on_peer_probed(p)

\* decode_ping lets a ping through if its publisher has signed it.
decode_ping(ping) == ping.signed

\* A ping is dropped unless its worker_id is its publisher.
on_ping(p, ping) ==
    /\ decode_ping(ping)
    /\ ping.worker_id = p
    /\ send_lossy(Ping)
    /\ UNCHANGED <<vars, probes, waiting>>

\* PeerUnknown from the pong client.  Its other events are only logged.
on_pong_event(p) ==
    /\ call_find_and_dial(p)
    /\ UNCHANGED <<probes, events, waiting>>

\* The steps of kademlia and of the swarm that reach no user.
base_step ==
    /\ \/ \E q \in running, found, last \in BOOLEAN : on_kademlia_event(q, found, last)
       \/ \E p \in Peers : other_dial(p)
       \/ \E p \in Peers : dial_failure(p)
       \/ \E p \in Peers, d \in Direction : on_connection_established(p, d)
       \/ \E p \in Peers, d \in Direction : on_connection_closed(p, d)
    /\ UNCHANGED <<probes, events, waiting>>

SchedulerNext ==
    \/ \E p \in Peers : handle_probe_peer(p)
    \/ next_event
    \/ probe_peer
    \/ probe_succeeded
    \/ \E p \in Peers : probe_failed(p)
    \/ \E p \in Peers, ping \in [signed : BOOLEAN, worker_id : Peers] : on_ping(p, ping)
    \/ \E p \in Peers : on_pong_event(p)
    \/ base_step

\* The transport task keeps polling and a timer that is not removed fires, at
\* the latest when nothing is queued the next time.  A lookup may find nothing,
\* a peer may never be connected and the user may stop reading.
SchedulerSpec ==
    /\ SchedulerInit
    /\ [][SchedulerNext]_schedulerVars
    /\ WF_schedulerVars(probe_succeeded)
    /\ \A p \in Peers : WF_schedulerVars(probe_failed(p))

(* ------------------------------------------------------------------------ *)
(* Properties                                                               *)
(* ------------------------------------------------------------------------ *)

\* Every variable has its type, those of the base behaviour included; neither
\* queue exceeds its size.
SchedulerTypeOK ==
    /\ TypeOK
    /\ probes \in Seq(Peers) /\ Len(probes) <= ProbesQueueSize
    /\ events \in Seq({Ping, PeerProbed}) /\ Len(events) <= EventsQueueSize
    /\ waiting \in SUBSET Peers

\* The answer "reachable" that probe_peer gives at once is true: the count of
\* outbound connections says that there is one exactly when there is one,
\* however many are opened and closed in both directions.
ConnectedIsTrue ==
    \A p \in Peers : ProbeConnected(p) <=> live[p]["out"] > 0

\* A probe the transport takes up is followed by a verdict on its peer, whether
\* it was scheduled for this request or joined to one that was under way, and
\* although lookups find nothing, connections come and go and the queue is full.
EveryProbeAnswered ==
    \A p \in Peers : p \in waiting ~> p \notin waiting
=============================================================================
