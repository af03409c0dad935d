----------------------------- MODULE PeerLookup -----------------------------
(* Peer lookups, dialling and reachability probes of BaseBehaviour            *)
(* (transport/src/behaviour/base.rs), inside its Wrapped behaviour.           *)
(*                                                                            *)
(* External: the kademlia behaviour, which reports on a query any number of   *)
(* times and then for the last time, with or without the peer among the       *)
(* closest ones it found; and the swarm, which dials and keeps connections.   *)
EXTENDS Integers, FiniteSets, Sequences

CONSTANTS
    Peers,           \* remote peers
    MaxProbes,       \* BaseConfig::max_concurrent_probes
    MaxQueries,      \* bound: kademlia queries started
    MaxOutbound,     \* bound: simultaneous connections to a peer
    MaxInbound,      \* bound: simultaneous connections from a peer
    MaxPending       \* bound: events waiting for the next poll

ASSUME BoundsAssumption ==
    {MaxProbes, MaxQueries, MaxOutbound, MaxInbound, MaxPending} \subseteq Nat

VARIABLES
    ongoing_queries,  \* peer -> query id, NoQuery where there is no entry
    outbound_conns,   \* peer -> the count kept by BaseBehaviour
    probe_timeouts,   \* peers with a running probe timer
    pending_events,   \* Wrapped::pending_events between two polls: the peers of
                      \* PeerProbed events, all of them reachable
    next_query,       \* external: query ids handed out by kademlia
    running,          \* external: queries kademlia works on, [id, peer, found]
    dialing,          \* external: peers the swarm is dialling
    live,             \* external: peer -> open connections per direction
    owed              \* history: peer -> probes scheduled less those reported

baseVars == <<ongoing_queries, outbound_conns, probe_timeouts, pending_events>>
kadVars == <<next_query, running>>
swarmVars == <<dialing, live>>
vars == <<baseVars, kadVars, swarmVars, owed>>

NoQuery == 0
Direction == {"out", "in"}  \* ConnectedPoint::Dialer and ::Listener

Init ==
    /\ ongoing_queries = [p \in Peers |-> NoQuery]
    /\ outbound_conns = [p \in Peers |-> 0]
    /\ probe_timeouts = {}
    /\ pending_events = <<>>
    /\ next_query = 0
    /\ running = {}
    /\ dialing = {}
    /\ live = [p \in Peers |-> [d \in Direction |-> 0]]
    /\ owed = [p \in Peers |-> 0]

(* ------------------------------------------------------------------------ *)
(* Calls of the actors                                                      *)
(* ------------------------------------------------------------------------ *)

AlreadyOngoing_Never(p) == FALSE

\* ongoing_queries.contains_left
AlreadyOngoing(p) == ongoing_queries[p] # NoQuery

\* Start a kademlia query for p unless there is one.
find_and_dial(p) ==
    \/ /\ AlreadyOngoing(p)
       /\ UNCHANGED <<ongoing_queries, kadVars>>
    \/ /\ ~AlreadyOngoing(p)
       /\ next_query < MaxQueries
       /\ next_query' = next_query + 1
       /\ running' = running \cup
             {[id |-> next_query + 1, peer |-> p, found |-> FALSE]}
       /\ ongoing_queries' = [ongoing_queries EXCEPT ![p] = next_query + 1]

call_find_and_dial(p) ==
    /\ find_and_dial(p)
    /\ UNCHANGED <<outbound_conns, probe_timeouts, pending_events, swarmVars, owed>>

HasOutbound_Unchecked(p) == FALSE

\* The first check of try_probe_peer.
HasOutbound(p) == outbound_conns[p] > 0

\* try_probe_peer returns Ok(true), Ok(false) for a probe that is under way,
\* Ok(false) after it has scheduled one, or Err; only schedule_probe changes
\* anything.
ProbeConnected(p) == HasOutbound(p)

ProbeUnderWay_ByLookup(p) == ~HasOutbound(p) /\ AlreadyOngoing(p)

ProbeUnderWay(p) == ~HasOutbound(p) /\ p \in probe_timeouts

ProbeRefused(p) ==
    /\ ~HasOutbound(p)
    /\ p \notin probe_timeouts
    /\ Cardinality(probe_timeouts) = MaxProbes

schedule_probe(p) ==
    /\ ~HasOutbound(p)
    /\ p \notin probe_timeouts
    /\ Cardinality(probe_timeouts) < MaxProbes
    /\ probe_timeouts' = probe_timeouts \cup {p}
    /\ owed' = [owed EXCEPT ![p] = @ + 1]
    /\ find_and_dial(p)
    /\ UNCHANGED <<outbound_conns, pending_events, swarmVars>>

(* ------------------------------------------------------------------------ *)
(* Wrapped::poll: queued events, then the probe timers, then kademlia.  What  *)
(* a timer or kademlia gives rise to leaves in the same poll.                 *)
(* ------------------------------------------------------------------------ *)

Reported(p) == owed' = [owed EXCEPT ![p] = @ - 1]

\* A queued PeerProbed event, reachable, reaches the actor.
deliver_probed ==
    /\ pending_events # <<>>
    /\ pending_events' = Tail(pending_events)
    /\ Reported(Head(pending_events))
    /\ UNCHANGED <<ongoing_queries, outbound_conns, probe_timeouts, kadVars, swarmVars>>

\* A probe timer fires: PeerProbed, not reachable.
probe_timed_out(p) ==
    /\ pending_events = <<>>
    /\ p \in probe_timeouts
    /\ probe_timeouts' = probe_timeouts \ {p}
    /\ Reported(p)
    /\ UNCHANGED <<ongoing_queries, outbound_conns, pending_events, kadVars, swarmVars>>

\* Kademlia reports on query q; the report is its last one or more follow.
\* `found`: the peer is among the closest peers.  A query that is not in
\* ongoing_queries (any more) is none of our business; one that is stays there
\* until its peer is found.  The swarm ignores the Dial of a peer it is dialling
\* already (PeerCondition::NotDialing).
on_kademlia_event(q, found, last) ==
    /\ pending_events = <<>>
    /\ running' = (running \ {q}) \cup
          {r \in {[q EXCEPT !.found = @ \/ found]} : ~last}
    /\ \/ /\ ongoing_queries[q.peer] = q.id /\ found
          /\ ongoing_queries' = [ongoing_queries EXCEPT ![q.peer] = NoQuery]
          /\ dialing' = dialing \cup {q.peer}
       \/ /\ ~(ongoing_queries[q.peer] = q.id /\ found)
          /\ UNCHANGED <<ongoing_queries, dialing>>
    /\ UNCHANGED <<outbound_conns, probe_timeouts, pending_events, next_query,
                   live, owed>>

(* ------------------------------------------------------------------------ *)
(* Swarm events                                                             *)
(* ------------------------------------------------------------------------ *)

\* Another behaviour (a request client, a relay) makes the swarm dial p.
other_dial(p) ==
    /\ p \notin dialing
    /\ dialing' = dialing \cup {p}
    /\ UNCHANGED <<baseVars, kadVars, live, owed>>

\* DialFailure is logged.
dial_failure(p) ==
    /\ p \in dialing
    /\ dialing' = dialing \ {p}
    /\ UNCHANGED <<baseVars, kadVars, live, owed>>

ProbeSucceeds_NoEvent(p) ==
    /\ probe_timeouts' = probe_timeouts \ {p}
    /\ UNCHANGED pending_events

\* The end of on_connection_established: a running probe of p has succeeded.
ProbeSucceeds(p) ==
    /\ probe_timeouts' = probe_timeouts \ {p}
    /\ pending_events' = IF p \in probe_timeouts
                         THEN Append(pending_events, p)
                         ELSE pending_events

\* A connection is up.  Only one this node dialled counts.
on_connection_established(p, d) ==
    /\ live[p][d] < (IF d = "out" THEN MaxOutbound ELSE MaxInbound)
    /\ Len(pending_events) < MaxPending
    /\ live' = [live EXCEPT ![p][d] = @ + 1]
    /\ \/ /\ d = "out"
          /\ p \in dialing
          /\ dialing' = dialing \ {p}
          /\ outbound_conns' = [outbound_conns EXCEPT ![p] = @ + 1]
          /\ ProbeSucceeds(p)
       \/ /\ d = "in"
          /\ UNCHANGED <<outbound_conns, probe_timeouts, pending_events, dialing>>
    /\ UNCHANGED <<ongoing_queries, kadVars, owed>>

Uncount_All(p, d) ==
    outbound_conns' = [outbound_conns EXCEPT ![p] = IF d = "out" THEN 0 ELSE @]

Uncount(p, d) ==
    outbound_conns' = IF d = "out" THEN [outbound_conns EXCEPT ![p] = @ - 1]
                      ELSE outbound_conns

on_connection_closed(p, d) ==
    /\ live[p][d] > 0
    /\ live' = [live EXCEPT ![p][d] = @ - 1]
    /\ Uncount(p, d)
    /\ UNCHANGED <<ongoing_queries, probe_timeouts, pending_events, kadVars,
                   dialing, owed>>

Next ==
    \/ \E p \in Peers : call_find_and_dial(p)
    \/ \E p \in Peers : schedule_probe(p)
    \/ deliver_probed
    \/ \E p \in Peers : probe_timed_out(p)
    \/ \E q \in running, found, last \in BOOLEAN : on_kademlia_event(q, found, last)
    \/ \E p \in Peers : other_dial(p)
    \/ \E p \in Peers : dial_failure(p)
    \/ \E p \in Peers, d \in Direction : on_connection_established(p, d)
    \/ \E p \in Peers, d \in Direction : on_connection_closed(p, d)

Spec == Init /\ [][Next]_vars

(* ------------------------------------------------------------------------ *)
(* Properties                                                               *)
(* ------------------------------------------------------------------------ *)

\* Every variable has its type: the u32 counts do not go below zero and no more
\* than max_concurrent_probes run.
TypeOK ==
    /\ ongoing_queries \in [Peers -> 0..MaxQueries]
    /\ outbound_conns \in [Peers -> 0..MaxOutbound]
    /\ probe_timeouts \in SUBSET Peers
    /\ Cardinality(probe_timeouts) <= MaxProbes
    /\ pending_events \in Seq(Peers)
    /\ next_query \in 0..MaxQueries
    /\ running \in SUBSET [id : 1..MaxQueries, peer : Peers, found : BOOLEAN]
    /\ dialing \in SUBSET Peers
    /\ live \in [Peers -> [Direction -> Nat]]
    /\ \A p \in Peers : live[p]["out"] <= MaxOutbound /\ live[p]["in"] <= MaxInbound
    /\ owed \in [Peers -> 0..(MaxPending + 1)]

\* A probe runs only for a peer without an outbound connection, whatever else
\* dials it, so a running probe can only end by a new connection or by its
\* timer, and "unreachable" is never reported of a peer we are connected to.
NoProbeWhileConnected ==
    \A p \in probe_timeouts : live[p]["out"] = 0 /\ outbound_conns[p] = 0

\* Every probe that is scheduled is reported exactly once: until then it is
\* running or its report is queued.
ProbesAccounted ==
    \A p \in Peers :
        owed[p] = Cardinality(probe_timeouts \cap {p})
                    + Cardinality({k \in 1..Len(pending_events) : pending_events[k] = p})

\* Calls for the same peer share one lookup, and none is lost track of: a query
\* kademlia works on and that has not led to its dial is the one on record.
OneLookupPerPeer ==
    \A q \in running : q.found \/ ongoing_queries[q.peer] = q.id

\* "The number of ongoing kademlia DHT queries" (metrics.rs): what is counted,
\* and what makes find_and_dial a no-op, is a query kademlia still works on.
OngoingQueriesOngoing ==
    \A p \in Peers : ongoing_queries[p] # NoQuery =>
        \E q \in running : q.id = ongoing_queries[p]
=============================================================================
