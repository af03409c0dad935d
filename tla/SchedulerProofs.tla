--------------------------- MODULE SchedulerProofs ---------------------------
(* The lookups and probes of the base behaviour, and the scheduler actor on   *)
(* top of them, for any peers, sizes of queues and bounds.  The scheduler is  *)
(* first shown to implement the base behaviour, so that what holds of the     *)
(* base behaviour alone holds of it inside the scheduler.                     *)
EXTENDS Scheduler, SequenceTheorems, FiniteSetTheorems, FunctionTheorems, TLAPS

(* ------------------------------------------------------------------------ *)
(* The inductive invariant of the base behaviour, in three parts            *)
(* ------------------------------------------------------------------------ *)

Query == [id : 1..MaxQueries, peer : Peers, found : BOOLEAN]

\* Query ids are fresh and name one query each; lookups are on record.
LookupInv ==
    /\ ongoing_queries \in [Peers -> 0..MaxQueries]
    /\ next_query \in 0..MaxQueries
    /\ running \in SUBSET Query
    /\ \A q \in running : q.id <= next_query
    /\ \A q, r \in running : q.id = r.id => q = r
    /\ OneLookupPerPeer

\* The count kept by the base behaviour is the number of connections.
ConnInv ==
    /\ outbound_conns \in [Peers -> 0..MaxOutbound]
    /\ dialing \in SUBSET Peers
    /\ live \in [Peers -> [Direction -> Nat]]
    /\ \A p \in Peers : live[p]["out"] <= MaxOutbound /\ live[p]["in"] <= MaxInbound
    /\ \A p \in Peers : outbound_conns[p] = live[p]["out"]

\* Probes are limited, run without a connection and are reported once.
ProbeInv ==
    /\ probe_timeouts \in SUBSET Peers
    /\ IsFiniteSet(probe_timeouts)
    /\ Cardinality(probe_timeouts) <= MaxProbes
    /\ pending_events \in Seq(Peers)
    /\ Len(pending_events) <= MaxPending
    /\ owed \in [Peers -> 0..(MaxPending + 1)]
    /\ NoProbeWhileConnected
    /\ ProbesAccounted

BaseInv == LookupInv /\ ConnInv /\ ProbeInv

(* ------------------------------------------------------------------------ *)
(* Lemmas about counting                                                    *)
(* ------------------------------------------------------------------------ *)

\* The places of x in a list.
Places(s, x) == {k \in 1..Len(s) : s[k] = x}

\* There are finitely many of them, no more than the list is long.
LEMMA PlacesFinite ==
    ASSUME NEW S, NEW s \in Seq(S), NEW x
    PROVE  /\ IsFiniteSet(Places(s, x))
           /\ Cardinality(Places(s, x)) \in Nat
           /\ Cardinality(Places(s, x)) <= Len(s)
<1>1. Len(s) \in Nat
  BY LenProperties
<1>2. IsFiniteSet(1..Len(s)) /\ Cardinality(1..Len(s)) = Len(s)
  BY <1>1, FS_Interval
<1>3. Places(s, x) \in SUBSET (1..Len(s))
  BY DEF Places
<1> QED
  BY <1>2, <1>3, FS_Subset, FS_CardinalityType

\* Appending x adds one place of x and none of anything else.
LEMMA PlacesAppend ==
    ASSUME NEW S, NEW s \in Seq(S), NEW e \in S, NEW x
    PROVE  Cardinality(Places(Append(s, e), x)) =
              Cardinality(Places(s, x)) + (IF x = e THEN 1 ELSE 0)
<1> DEFINE n == Len(s)
           t == Append(s, e)
<1>1. n \in Nat
  BY LenProperties
<1>2. Len(t) = n + 1 /\ (\A i \in 1..n : t[i] = s[i]) /\ t[n + 1] = e
  BY AppendProperties
<1>3. 1..Len(t) = (1..n) \cup {n + 1} /\ n + 1 \notin 1..n
  BY <1>1, <1>2
<1>4. IsFiniteSet(Places(s, x)) /\ Cardinality(Places(s, x)) \in Nat
  BY PlacesFinite
<1> HIDE DEF n, t
<1>5. CASE x = e
  <2>1. Places(t, x) = Places(s, x) \cup {n + 1}
    BY <1>2, <1>3, <1>5 DEF Places, n
  <2>2. n + 1 \notin Places(s, x)
    BY <1>3 DEF Places, n
  <2> QED
    BY <1>4, <1>5, <2>1, <2>2, FS_AddElement DEF t
<1>6. CASE x # e
  <2>1. Places(t, x) = Places(s, x)
    BY <1>2, <1>3, <1>6 DEF Places, n
  <2> QED
    BY <1>4, <1>6, <2>1 DEF t
<1> QED
  BY <1>5, <1>6

\* Taking the head off removes one place of it and none of anything else.
LEMMA PlacesTail ==
    ASSUME NEW S, NEW s \in Seq(S), s # <<>>, NEW x
    PROVE  Cardinality(Places(s, x)) =
              Cardinality(Places(Tail(s), x)) + (IF x = Head(s) THEN 1 ELSE 0)
<1> DEFINE n == Len(s)
           t == Tail(s)
           A == Places(t, x)
           B == Places(s, x) \ {1}
           f == [k \in A |-> k + 1]
<1>1. /\ n \in Nat /\ n >= 1 /\ Len(t) = n - 1
      /\ \A i \in 1..Len(t) : t[i] = s[i + 1]
      /\ t \in Seq(S)
      /\ Head(s) = s[1]
  BY LenProperties, HeadTailProperties, EmptySeq
<1>2. /\ IsFiniteSet(A) /\ Cardinality(A) \in Nat
      /\ IsFiniteSet(Places(s, x)) /\ Cardinality(Places(s, x)) \in Nat
  BY <1>1, PlacesFinite
<1>3. \A k \in A : k + 1 \in B
  BY <1>1 DEF Places
<1>4. \A k \in B : k - 1 \in A
  BY <1>1 DEF Places
<1>5. \A k \in A : k \in Nat
  BY DEF Places
<1>6. \A k \in B : k \in Nat
  BY DEF Places
<1> HIDE DEF A, B
<1>7. f \in Bijection(A, B)
  <2>1. f \in [A -> B]
    BY <1>3
  <2>2. \A a, b \in A : f[a] = f[b] => a = b
    BY <1>5
  <2>3. \A b \in B : \E a \in A : f[a] = b
    <3> SUFFICES ASSUME NEW b \in B PROVE \E a \in A : f[a] = b
      OBVIOUS
    <3>1. b - 1 \in A /\ f[b - 1] = b
      BY <1>4, <1>6
    <3> QED
      BY <3>1
  <2> HIDE DEF f
  <2> QED
    BY <2>1, <2>2, <2>3 DEF Bijection, Injection, IsInjective, Surjection
<1>8. Cardinality(B) = Cardinality(A)
  <2>1. ExistsBijection(A, B)
    BY <1>7 DEF ExistsBijection
  <2> QED
    BY <1>2, <2>1, FS_Bijection
<1>9. 1 \in Places(s, x) <=> x = Head(s)
  BY <1>1 DEF Places
<1>10. Cardinality(B) = IF 1 \in Places(s, x) THEN Cardinality(Places(s, x)) - 1
                        ELSE Cardinality(Places(s, x))
  BY <1>2, FS_RemoveElement DEF B
<1> QED
  BY <1>2, <1>8, <1>9, <1>10 DEF A

\* What a set contributes to the count of x.
LEMMA OneIfMember ==
    \A T, x : Cardinality(T \cap {x}) = IF x \in T THEN 1 ELSE 0
<1> SUFFICES ASSUME NEW T, NEW x
             PROVE  Cardinality(T \cap {x}) = IF x \in T THEN 1 ELSE 0
  OBVIOUS
<1>1. CASE x \in T
  <2>1. T \cap {x} = {x}
    BY <1>1
  <2> QED
    BY <1>1, <2>1, FS_Singleton
<1>2. CASE x \notin T
  <2>1. T \cap {x} = {}
    BY <1>2
  <2> QED
    BY <1>2, <2>1, FS_EmptySet
<1> QED
  BY <1>1, <1>2

Running(p) == IF p \in probe_timeouts THEN 1 ELSE 0

\* ProbesAccounted with the two counts named.
LEMMA AccountedAs ==
    ProbesAccounted <=>
        \A p \in Peers : owed[p] = Running(p) + Cardinality(Places(pending_events, p))
<1>1. \A p : Cardinality(probe_timeouts \cap {p}) = Running(p)
  BY OneIfMember, Zenon DEF Running
<1> QED
  BY <1>1, Zenon DEF ProbesAccounted, Places

\* The same of the next state.
LEMMA AccountedAsNext ==
    ProbesAccounted' <=>
        \A p \in Peers : owed'[p] = Running(p)' + Cardinality(Places(pending_events', p))
<1>1. \A p : Cardinality(probe_timeouts' \cap {p}) = Running(p)'
  BY OneIfMember, Zenon DEF Running
<1> QED
  BY <1>1, Zenon DEF ProbesAccounted, Places

(* ------------------------------------------------------------------------ *)
(* Lookups                                                                  *)
(* ------------------------------------------------------------------------ *)

\* A call starts a query under a new id, or finds one on record.
LEMMA FindKeepsLookups ==
    ASSUME LookupInv, NEW p \in Peers, find_and_dial(p)
    PROVE  LookupInv'
<1>1. CASE UNCHANGED <<ongoing_queries, kadVars>>
  BY <1>1 DEF LookupInv, OneLookupPerPeer, kadVars
<1>2. CASE /\ ~AlreadyOngoing(p)
           /\ next_query < MaxQueries
           /\ next_query' = next_query + 1
           /\ running' = running \cup
                 {[id |-> next_query + 1, peer |-> p, found |-> FALSE]}
           /\ ongoing_queries' = [ongoing_queries EXCEPT ![p] = next_query + 1]
  <2> DEFINE new == [id |-> next_query + 1, peer |-> p, found |-> FALSE]
  <2>1. /\ next_query \in Nat /\ MaxQueries \in Nat
        /\ next_query + 1 \in 1..MaxQueries
        /\ ongoing_queries \in [Peers -> 0..MaxQueries]
    BY <1>2, BoundsAssumption DEF LookupInv
  <2>2. new \in Query
    <3>1. FALSE \in BOOLEAN
      BY Zenon
    <3> QED
      BY <2>1, <3>1, Zenon DEF Query
  <2>3. /\ ongoing_queries' \in [Peers -> 0..MaxQueries]
        /\ next_query' \in 0..MaxQueries
    BY <1>2, <2>1
  <2>4. running' \in SUBSET Query
    BY <1>2, <2>2 DEF LookupInv
  <2>5. \A q \in running : q.id <= next_query /\ q.id \in 1..MaxQueries /\ q.peer \in Peers
    BY DEF LookupInv, Query
  <2>6. new.id = next_query + 1 /\ new.peer = p
    OBVIOUS
  <2> HIDE DEF new
  <2>7. \A q \in running' : q.id <= next_query'
    BY <1>2, <2>1, <2>5, <2>6 DEF new
  <2>8. ASSUME NEW q \in running', NEW r \in running', q.id = r.id PROVE q = r
    <3>1. (q \in running \/ q = new) /\ (r \in running \/ r = new)
      BY <1>2 DEF new
    <3>2. CASE q \in running /\ r \in running
      BY <2>8, <3>2 DEF LookupInv
    <3>3. CASE (q = new) # (r = new)
      BY <2>1, <2>5, <2>6, <2>8, <3>1, <3>3
    <3> QED
      BY <3>1, <3>2, <3>3
  <2>9. OneLookupPerPeer'
    <3> SUFFICES ASSUME NEW q \in running', ~q.found
                 PROVE  ongoing_queries'[q.peer] = q.id
      BY DEF OneLookupPerPeer
    <3>1. CASE q = new
      BY <1>2, <2>1, <2>6, <3>1
    <3>2. CASE q \in running
      <4>1. ongoing_queries[q.peer] = q.id
        BY <3>2 DEF LookupInv, OneLookupPerPeer
      <4>2. q.peer # p
        BY <1>2, <2>5, <3>2, <4>1 DEF AlreadyOngoing, NoQuery
      <4> QED
        BY <1>2, <2>1, <2>5, <3>2, <4>1, <4>2
    <3> QED
      BY <1>2, <3>1, <3>2 DEF new
  <2> QED
    BY <2>3, <2>4, <2>7, <2>8, <2>9 DEF LookupInv
<1> QED
  BY <1>1, <1>2 DEF find_and_dial

\* A report of kademlia takes a query off the record only once its peer is found.
LEMMA ReportKeepsLookups ==
    ASSUME LookupInv, NEW q \in running, NEW found \in BOOLEAN, NEW last \in BOOLEAN,
           on_kademlia_event(q, found, last)
    PROVE  LookupInv'
<1> DEFINE more == [q EXCEPT !.found = @ \/ found]
<1>1. /\ q \in Query /\ q.id \in 1..MaxQueries /\ q.peer \in Peers
      /\ ongoing_queries \in [Peers -> 0..MaxQueries]
      /\ next_query' = next_query
      /\ MaxQueries \in Nat
  BY BoundsAssumption DEF LookupInv, Query, on_kademlia_event
<1>2. more.id = q.id /\ more.peer = q.peer /\ (more.found <=> q.found \/ found)
  BY <1>1 DEF Query
<1>3. more \in Query
  <2>1. \A b \in BOOLEAN : [q EXCEPT !.found = b] \in Query
    BY <1>1 DEF Query
  <2>2. (q.found \/ found) \in BOOLEAN
    BY Zenon
  <2> QED
    BY <2>1, <2>2
<1>4. /\ running' \subseteq (running \ {q}) \cup {more}
      /\ running' \subseteq Query
  BY <1>3 DEF LookupInv, on_kademlia_event
<1>5. \/ /\ ongoing_queries[q.peer] = q.id /\ found
         /\ ongoing_queries' = [ongoing_queries EXCEPT ![q.peer] = NoQuery]
      \/ /\ ~(ongoing_queries[q.peer] = q.id /\ found)
         /\ ongoing_queries' = ongoing_queries
  BY DEF on_kademlia_event
<1>6. ongoing_queries' \in [Peers -> 0..MaxQueries]
  BY <1>1, <1>5 DEF NoQuery
<1> HIDE DEF more
<1>7. \A r \in running' : r.id <= next_query'
  BY <1>1, <1>2, <1>4 DEF LookupInv
<1>8. \A r, t \in running' : r.id = t.id => r = t
  BY <1>2, <1>4 DEF LookupInv
<1>9. OneLookupPerPeer'
  <2> SUFFICES ASSUME NEW r \in running', ~r.found
               PROVE  ongoing_queries'[r.peer] = r.id
    BY DEF OneLookupPerPeer
  <2>1. CASE r = more
    <3>1. ~q.found /\ ~found
      BY <1>2, <2>1
    <3>2. ongoing_queries' = ongoing_queries /\ ongoing_queries[q.peer] = q.id
      BY <1>5, <3>1 DEF LookupInv, OneLookupPerPeer
    <3> QED
      BY <1>2, <2>1, <3>2
  <2>2. CASE r \in running /\ r # q
    <3>1. ongoing_queries[r.peer] = r.id /\ r.peer \in Peers /\ r.id # q.id
      BY <2>2 DEF LookupInv, OneLookupPerPeer, Query
    <3> QED
      BY <1>1, <1>5, <3>1
  <2> QED
    BY <1>4, <2>1, <2>2
<1> QED
  BY <1>1, <1>4, <1>6, <1>7, <1>8, <1>9 DEF LookupInv

\* Every step keeps the record of lookups.
LEMMA NextKeepsLookups ==
    ASSUME LookupInv, [Next]_vars
    PROVE  LookupInv'
<1>1. CASE \E p \in Peers : find_and_dial(p)
  BY <1>1, FindKeepsLookups
<1>2. CASE \E q \in running, found, last \in BOOLEAN : on_kademlia_event(q, found, last)
  BY <1>2, ReportKeepsLookups
<1>3. CASE UNCHANGED <<ongoing_queries, kadVars>>
  BY <1>3 DEF LookupInv, OneLookupPerPeer, kadVars
<1> QED
  BY <1>1, <1>2, <1>3 DEF Next, vars, baseVars, call_find_and_dial, schedule_probe, deliver_probed,
     probe_timed_out, other_dial, dial_failure, on_connection_established, on_connection_closed

(* ------------------------------------------------------------------------ *)
(* Connections                                                              *)
(* ------------------------------------------------------------------------ *)

\* A connection that comes up is counted if this node dialled it.
LEMMA EstablishedKeepsConns ==
    ASSUME ConnInv, NEW p \in Peers, NEW d \in Direction, on_connection_established(p, d)
    PROVE  ConnInv'
<1>1. /\ live \in [Peers -> [Direction -> Nat]]
      /\ outbound_conns \in [Peers -> 0..MaxOutbound]
      /\ \A x \in Peers : live[x]["out"] <= MaxOutbound /\ live[x]["in"] <= MaxInbound
      /\ \A x \in Peers : outbound_conns[x] = live[x]["out"]
      /\ MaxOutbound \in Nat /\ MaxInbound \in Nat
  BY BoundsAssumption DEF ConnInv
<1>2. live' = [live EXCEPT ![p][d] = @ + 1]
  BY DEF on_connection_established
<1>3. /\ live' \in [Peers -> [Direction -> Nat]]
      /\ \A x \in Peers, e \in Direction :
            live'[x][e] = IF x = p /\ e = d THEN live[x][e] + 1 ELSE live[x][e]
  BY <1>1, <1>2
<1>4. \A x \in Peers : live'[x]["out"] <= MaxOutbound /\ live'[x]["in"] <= MaxInbound
  BY <1>1, <1>3 DEF on_connection_established, Direction
<1>5. dialing' \in SUBSET Peers
  BY DEF ConnInv, on_connection_established
<1>6. CASE d = "out" /\ outbound_conns' = [outbound_conns EXCEPT ![p] = @ + 1]
  <2>1. \A x \in Peers : outbound_conns'[x] = live'[x]["out"]
    BY <1>1, <1>3, <1>6 DEF Direction
  <2>2. outbound_conns' \in [Peers -> 0..MaxOutbound]
    BY <1>1, <1>3, <1>4, <1>6 DEF Direction
  <2> QED
    BY <1>3, <1>4, <1>5, <2>1, <2>2 DEF ConnInv
<1>7. CASE d = "in" /\ outbound_conns' = outbound_conns
  <2>1. \A x \in Peers : outbound_conns'[x] = live'[x]["out"]
    BY <1>1, <1>3, <1>7 DEF Direction
  <2> QED
    BY <1>1, <1>3, <1>4, <1>5, <1>7, <2>1 DEF ConnInv
<1> QED
  BY <1>6, <1>7 DEF on_connection_established

\* A connection that goes down is uncounted if this node dialled it.
LEMMA ClosedKeepsConns ==
    ASSUME ConnInv, NEW p \in Peers, NEW d \in Direction, on_connection_closed(p, d)
    PROVE  ConnInv'
<1>1. /\ live \in [Peers -> [Direction -> Nat]]
      /\ outbound_conns \in [Peers -> 0..MaxOutbound]
      /\ \A x \in Peers : live[x]["out"] <= MaxOutbound /\ live[x]["in"] <= MaxInbound
      /\ \A x \in Peers : outbound_conns[x] = live[x]["out"]
      /\ MaxOutbound \in Nat /\ MaxInbound \in Nat
  BY BoundsAssumption DEF ConnInv
<1>2. live' = [live EXCEPT ![p][d] = @ - 1] /\ live[p][d] > 0
  BY DEF on_connection_closed
<1>3. /\ live' \in [Peers -> [Direction -> Nat]]
      /\ \A x \in Peers, e \in Direction :
            live'[x][e] = IF x = p /\ e = d THEN live[x][e] - 1 ELSE live[x][e]
  BY <1>1, <1>2
<1>4. \A x \in Peers : live'[x]["out"] <= MaxOutbound /\ live'[x]["in"] <= MaxInbound
  BY <1>1, <1>3 DEF Direction
<1>5. outbound_conns' = IF d = "out" THEN [outbound_conns EXCEPT ![p] = @ - 1]
                        ELSE outbound_conns
  BY DEF on_connection_closed, Uncount
<1>6. \A x \in Peers : outbound_conns'[x] = live'[x]["out"]
  BY <1>1, <1>3, <1>5 DEF Direction
<1>7. outbound_conns' \in [Peers -> 0..MaxOutbound]
  BY <1>1, <1>2, <1>5
<1> QED
  BY <1>3, <1>4, <1>6, <1>7 DEF ConnInv, on_connection_closed

\* Every step keeps the count.
LEMMA NextKeepsConns ==
    ASSUME LookupInv, ConnInv, [Next]_vars
    PROVE  ConnInv'
<1>1. CASE \E p \in Peers, d \in Direction : on_connection_established(p, d)
  BY <1>1, EstablishedKeepsConns
<1>2. CASE \E p \in Peers, d \in Direction : on_connection_closed(p, d)
  BY <1>2, ClosedKeepsConns
<1>3. CASE UNCHANGED <<outbound_conns, live>> /\ dialing' \in SUBSET Peers
  BY <1>3 DEF ConnInv
<1>4. CASE UNCHANGED vars
  BY <1>3, <1>4 DEF ConnInv, vars, baseVars, swarmVars
<1>5. CASE \E p \in Peers : call_find_and_dial(p) \/ schedule_probe(p)
  BY <1>5 DEF ConnInv, swarmVars, call_find_and_dial, schedule_probe
<1>6. CASE deliver_probed \/ \E p \in Peers : probe_timed_out(p)
  BY <1>6 DEF ConnInv, swarmVars, deliver_probed, probe_timed_out
<1>7. CASE \E q \in running, found, last \in BOOLEAN : on_kademlia_event(q, found, last)
  <2>1. PICK q \in running, found \in BOOLEAN, last \in BOOLEAN :
                on_kademlia_event(q, found, last)
    BY <1>7
  <2>2. q.peer \in Peers
    BY DEF LookupInv, Query
  <2>3. dialing' \in SUBSET Peers
    BY <2>1, <2>2 DEF ConnInv, on_kademlia_event
  <2>4. UNCHANGED <<outbound_conns, live>>
    BY <2>1 DEF on_kademlia_event
  <2> QED
    BY <1>3, <2>3, <2>4
<1>8. CASE \E p \in Peers : other_dial(p) \/ dial_failure(p)
  BY <1>3, <1>8 DEF ConnInv, other_dial, dial_failure, baseVars
<1> QED
  BY <1>1, <1>2, <1>4, <1>5, <1>6, <1>7, <1>8 DEF Next

(* ------------------------------------------------------------------------ *)
(* Probes                                                                   *)
(* ------------------------------------------------------------------------ *)

\* Where every probe is accounted for, the number owed is within bounds.
LEMMA OwedBounded ==
    ASSUME pending_events' \in Seq(Peers), Len(pending_events') <= MaxPending,
           DOMAIN owed' = Peers, owed' \in [Peers -> Int],
           ProbesAccounted'
    PROVE  owed' \in [Peers -> 0..(MaxPending + 1)]
<1>1. MaxPending \in Nat /\ Len(pending_events') \in Nat
  BY BoundsAssumption, LenProperties
<1>2. \A p \in Peers : owed'[p] \in 0..(MaxPending + 1)
  <2> SUFFICES ASSUME NEW p \in Peers PROVE owed'[p] \in 0..(MaxPending + 1)
    OBVIOUS
  <2> DEFINE n == Cardinality(Places(pending_events', p))
  <2>1. n \in Nat /\ n <= Len(pending_events')
    BY PlacesFinite
  <2>2. Running(p)' \in {0, 1}
    BY DEF Running
  <2>3. owed'[p] = Running(p)' + n
    BY AccountedAsNext
  <2> HIDE DEF n
  <2> QED
    BY <1>1, <2>1, <2>2, <2>3
<1> QED
  BY <1>2

\* Probes stay within their limit when one ends.
LEMMA FewerProbes ==
    ASSUME ProbeInv, NEW p
    PROVE  /\ IsFiniteSet(probe_timeouts \ {p})
           /\ Cardinality(probe_timeouts \ {p}) <= MaxProbes
<1>1. IsFiniteSet(probe_timeouts) /\ Cardinality(probe_timeouts) \in Nat
  BY FS_CardinalityType DEF ProbeInv
<1>2. /\ IsFiniteSet(probe_timeouts \ {p})
      /\ Cardinality(probe_timeouts \ {p}) =
            IF p \in probe_timeouts THEN Cardinality(probe_timeouts) - 1
            ELSE Cardinality(probe_timeouts)
  BY <1>1, FS_RemoveElement
<1>3. Cardinality(probe_timeouts) <= MaxProbes /\ MaxProbes \in Nat
  BY BoundsAssumption DEF ProbeInv
<1> QED
  BY <1>1, <1>2, <1>3

\* A probe is scheduled for a peer without a connection and without one running.
LEMMA ScheduleKeepsProbes ==
    ASSUME ConnInv, ProbeInv, NEW p \in Peers, schedule_probe(p)
    PROVE  ProbeInv'
<1>1. /\ probe_timeouts' = probe_timeouts \cup {p} /\ p \notin probe_timeouts
      /\ Cardinality(probe_timeouts) < MaxProbes
      /\ owed' = [owed EXCEPT ![p] = @ + 1]
      /\ UNCHANGED <<outbound_conns, pending_events, live>>
      /\ outbound_conns[p] = 0 /\ live[p]["out"] = 0
      /\ owed \in [Peers -> 0..(MaxPending + 1)] /\ MaxPending \in Nat /\ MaxProbes \in Nat
  BY BoundsAssumption DEF ProbeInv, ConnInv, schedule_probe, HasOutbound, swarmVars
<1>2. IsFiniteSet(probe_timeouts') /\ Cardinality(probe_timeouts') <= MaxProbes
  <2>1. IsFiniteSet(probe_timeouts) /\ Cardinality(probe_timeouts) \in Nat
    BY FS_CardinalityType DEF ProbeInv
  <2>2. /\ IsFiniteSet(probe_timeouts')
        /\ Cardinality(probe_timeouts') = Cardinality(probe_timeouts) + 1
    BY <1>1, <2>1, FS_AddElement
  <2> QED
    BY <1>1, <2>1, <2>2
<1>3. NoProbeWhileConnected'
  BY <1>1 DEF ProbeInv, NoProbeWhileConnected
<1>4. ProbesAccounted'
  <2> SUFFICES ASSUME NEW x \in Peers
               PROVE  owed'[x] = Running(x)' + Cardinality(Places(pending_events', x))
    BY AccountedAsNext
  <2> DEFINE n == Cardinality(Places(pending_events, x))
  <2>1. owed[x] = Running(x) + n /\ n \in Nat
    BY AccountedAs, PlacesFinite DEF ProbeInv
  <2>2. Running(x)' = IF x = p THEN 1 ELSE Running(x)
    BY <1>1 DEF Running
  <2>3. x = p => Running(x) = 0
    BY <1>1 DEF Running
  <2>4. owed'[x] = IF x = p THEN owed[x] + 1 ELSE owed[x]
    BY <1>1
  <2>5. Cardinality(Places(pending_events', x)) = n
    BY <1>1
  <2> HIDE DEF n
  <2> QED
    BY <2>1, <2>2, <2>3, <2>4, <2>5
<1>5. owed' \in [Peers -> 0..(MaxPending + 1)]
  BY <1>1, <1>4, OwedBounded DEF ProbeInv
<1> QED
  BY <1>1, <1>2, <1>3, <1>4, <1>5 DEF ProbeInv

\* A report that is delivered leaves the queue and is owed no more.
LEMMA DeliverKeepsProbes ==
    ASSUME ProbeInv, deliver_probed
    PROVE  ProbeInv'
<1> DEFINE p == Head(pending_events)
<1>1. /\ pending_events # <<>> /\ pending_events' = Tail(pending_events)
      /\ owed' = [owed EXCEPT ![p] = @ - 1]
      /\ UNCHANGED <<probe_timeouts, outbound_conns, live>>
      /\ pending_events \in Seq(Peers)
      /\ owed \in [Peers -> 0..(MaxPending + 1)] /\ MaxPending \in Nat
  BY BoundsAssumption DEF ProbeInv, deliver_probed, Reported, swarmVars
<1>2. /\ p \in Peers /\ pending_events' \in Seq(Peers)
      /\ Len(pending_events') = Len(pending_events) - 1
      /\ Len(pending_events) \in Nat
  BY <1>1, HeadTailProperties, LenProperties
<1>3. Len(pending_events') <= MaxPending
  BY <1>1, <1>2 DEF ProbeInv
<1>4. ProbesAccounted'
  <2> SUFFICES ASSUME NEW x \in Peers
               PROVE  owed'[x] = Running(x)' + Cardinality(Places(pending_events', x))
    BY AccountedAsNext
  <2> DEFINE n == Cardinality(Places(pending_events, x))
             m == Cardinality(Places(pending_events', x))
  <2>1. owed[x] = Running(x) + n /\ n \in Nat /\ m \in Nat
    BY <1>2, AccountedAs, PlacesFinite DEF ProbeInv
  <2>2. n = m + (IF x = p THEN 1 ELSE 0)
    BY <1>1, PlacesTail
  <2>3. Running(x)' = Running(x) /\ Running(x) \in {0, 1}
    BY <1>1 DEF Running
  <2>4. owed'[x] = IF x = p THEN owed[x] - 1 ELSE owed[x]
    BY <1>1
  <2> HIDE DEF n, m, p
  <2>5. owed'[x] = Running(x)' + m
    BY <2>1, <2>2, <2>3, <2>4
  <2> QED
    BY <2>5 DEF m
<1>5. owed' \in [Peers -> 0..(MaxPending + 1)]
  BY <1>1, <1>2, <1>3, <1>4, OwedBounded DEF ProbeInv
<1> QED
  BY <1>1, <1>2, <1>3, <1>4, <1>5 DEF ProbeInv, NoProbeWhileConnected

\* A timer that fires is a report.
LEMMA TimeoutKeepsProbes ==
    ASSUME ProbeInv, NEW p \in Peers, probe_timed_out(p)
    PROVE  ProbeInv'
<1>1. /\ p \in probe_timeouts /\ probe_timeouts' = probe_timeouts \ {p}
      /\ owed' = [owed EXCEPT ![p] = @ - 1]
      /\ UNCHANGED <<pending_events, outbound_conns, live>>
      /\ owed \in [Peers -> 0..(MaxPending + 1)]
      /\ MaxPending \in Nat /\ MaxProbes \in Nat
  BY BoundsAssumption DEF ProbeInv, probe_timed_out, Reported, swarmVars
<1>2. IsFiniteSet(probe_timeouts') /\ Cardinality(probe_timeouts') <= MaxProbes
  BY <1>1, FewerProbes
<1>3. ProbesAccounted'
  <2> SUFFICES ASSUME NEW x \in Peers
               PROVE  owed'[x] = Running(x)' + Cardinality(Places(pending_events', x))
    BY AccountedAsNext
  <2> DEFINE n == Cardinality(Places(pending_events, x))
  <2>1. owed[x] = Running(x) + n /\ n \in Nat
    BY AccountedAs, PlacesFinite DEF ProbeInv
  <2>2. Running(x)' = IF x = p THEN 0 ELSE Running(x)
    BY <1>1 DEF Running
  <2>3. x = p => Running(x) = 1
    BY <1>1 DEF Running
  <2>4. owed'[x] = IF x = p THEN owed[x] - 1 ELSE owed[x]
    BY <1>1
  <2>5. Cardinality(Places(pending_events', x)) = n
    BY <1>1
  <2> HIDE DEF n
  <2> QED
    BY <2>1, <2>2, <2>3, <2>4, <2>5
<1>4. owed' \in [Peers -> 0..(MaxPending + 1)]
  BY <1>1, <1>3, OwedBounded DEF ProbeInv
<1> QED
  BY <1>1, <1>2, <1>3, <1>4 DEF ProbeInv, NoProbeWhileConnected

\* A connection that this node dialled turns a running probe into a report.
LEMMA EstablishedKeepsProbes ==
    ASSUME ConnInv, ProbeInv, NEW p \in Peers, NEW d \in Direction,
           on_connection_established(p, d)
    PROVE  ProbeInv'
<1>1. /\ live' = [live EXCEPT ![p][d] = @ + 1] /\ owed' = owed
      /\ Len(pending_events) < MaxPending
      /\ live \in [Peers -> [Direction -> Nat]]
      /\ outbound_conns \in [Peers -> 0..MaxOutbound]
      /\ pending_events \in Seq(Peers)
      /\ owed \in [Peers -> 0..(MaxPending + 1)]
      /\ MaxPending \in Nat /\ MaxProbes \in Nat
      /\ probe_timeouts \in SUBSET Peers
  BY BoundsAssumption DEF ProbeInv, ConnInv, on_connection_established
<1>2. \A x \in Peers : x # p \/ d # "out" => live'[x]["out"] = live[x]["out"]
  BY <1>1 DEF Direction
<1>3. CASE d = "in" /\ UNCHANGED <<outbound_conns, probe_timeouts, pending_events>>
  <2>1. NoProbeWhileConnected'
    BY <1>1, <1>2, <1>3 DEF ProbeInv, NoProbeWhileConnected
  <2>2. ProbesAccounted'
    BY <1>1, <1>3 DEF ProbeInv, ProbesAccounted
  <2> QED
    BY <1>1, <1>3, <2>1, <2>2 DEF ProbeInv
<1>4. CASE /\ d = "out"
           /\ outbound_conns' = [outbound_conns EXCEPT ![p] = @ + 1]
           /\ ProbeSucceeds(p)
  <2>1. probe_timeouts' = probe_timeouts \ {p}
    BY <1>4 DEF ProbeSucceeds
  <2>2. IsFiniteSet(probe_timeouts') /\ Cardinality(probe_timeouts') <= MaxProbes
    BY <2>1, FewerProbes
  <2>3. NoProbeWhileConnected'
    BY <1>1, <1>2, <1>4, <2>1 DEF ProbeInv, NoProbeWhileConnected
  <2>4. CASE p \in probe_timeouts
    <3>1. pending_events' = Append(pending_events, p)
      BY <1>4, <2>4 DEF ProbeSucceeds
    <3>2. /\ pending_events' \in Seq(Peers)
          /\ Len(pending_events') = Len(pending_events) + 1
          /\ Len(pending_events) \in Nat
      BY <1>1, <3>1, AppendProperties, LenProperties
    <3>3. Len(pending_events') <= MaxPending
      BY <1>1, <3>2
    <3>4. ProbesAccounted'
      <4> SUFFICES ASSUME NEW x \in Peers
                   PROVE  owed'[x] = Running(x)' + Cardinality(Places(pending_events', x))
        BY AccountedAsNext
      <4> DEFINE n == Cardinality(Places(pending_events, x))
                 m == Cardinality(Places(pending_events', x))
      <4>1. owed[x] = Running(x) + n /\ n \in Nat
        BY <1>1, AccountedAs, PlacesFinite DEF ProbeInv
      <4>2. m = n + (IF x = p THEN 1 ELSE 0)
        BY <1>1, <3>1, PlacesAppend
      <4>3. Running(x)' = IF x = p THEN 0 ELSE Running(x)
        BY <2>1 DEF Running
      <4>4. x = p => Running(x) = 1
        BY <2>4 DEF Running
      <4>5. Running(x) \in {0, 1}
        BY DEF Running
      <4> HIDE DEF n, m
      <4>6. owed'[x] = Running(x)' + m
        BY <1>1, <4>1, <4>2, <4>3, <4>4, <4>5
      <4> QED
        BY <4>6 DEF m
    <3> QED
      BY <1>1, <2>1, <2>2, <2>3, <3>2, <3>3, <3>4 DEF ProbeInv
  <2>5. CASE p \notin probe_timeouts
    <3>1. probe_timeouts' = probe_timeouts /\ pending_events' = pending_events
      BY <1>4, <2>1, <2>5 DEF ProbeSucceeds
    <3>2. ProbesAccounted'
      BY <1>1, <3>1 DEF ProbeInv, ProbesAccounted
    <3> QED
      BY <1>1, <2>2, <2>3, <3>1, <3>2 DEF ProbeInv
  <2> QED
    BY <2>4, <2>5
<1> QED
  BY <1>3, <1>4 DEF on_connection_established

\* A connection that goes down does not connect anyone.
LEMMA ClosedKeepsProbes ==
    ASSUME ConnInv, ProbeInv, NEW p \in Peers, NEW d \in Direction, on_connection_closed(p, d)
    PROVE  ProbeInv'
<1>1. /\ live' = [live EXCEPT ![p][d] = @ - 1] /\ live[p][d] > 0
      /\ outbound_conns' = IF d = "out" THEN [outbound_conns EXCEPT ![p] = @ - 1]
                           ELSE outbound_conns
      /\ live \in [Peers -> [Direction -> Nat]]
      /\ outbound_conns \in [Peers -> 0..MaxOutbound]
      /\ UNCHANGED <<probe_timeouts, pending_events, owed>>
      /\ probe_timeouts \in SUBSET Peers
  BY DEF ProbeInv, ConnInv, on_connection_closed, Uncount
<1>2. NoProbeWhileConnected'
  <2> SUFFICES ASSUME NEW x \in probe_timeouts
               PROVE  live'[x]["out"] = 0 /\ outbound_conns'[x] = 0
    BY <1>1 DEF NoProbeWhileConnected
  <2>1. x \in Peers /\ live[x]["out"] = 0 /\ outbound_conns[x] = 0
    BY <1>1 DEF ProbeInv, NoProbeWhileConnected
  <2>2. x # p \/ d # "out"
    BY <1>1, <2>1
  <2> QED
    BY <1>1, <2>1, <2>2 DEF Direction
<1> QED
  BY <1>1, <1>2 DEF ProbeInv, ProbesAccounted

\* Every step keeps the probes in order.
LEMMA NextKeepsProbes ==
    ASSUME ConnInv, ProbeInv, [Next]_vars
    PROVE  ProbeInv'
<1>1. CASE \E p \in Peers : schedule_probe(p)
  BY <1>1, ScheduleKeepsProbes
<1>2. CASE deliver_probed
  BY <1>2, DeliverKeepsProbes
<1>3. CASE \E p \in Peers : probe_timed_out(p)
  BY <1>3, TimeoutKeepsProbes
<1>4. CASE \E p \in Peers, d \in Direction : on_connection_established(p, d)
  BY <1>4, EstablishedKeepsProbes
<1>5. CASE \E p \in Peers, d \in Direction : on_connection_closed(p, d)
  BY <1>5, ClosedKeepsProbes
<1>6. CASE UNCHANGED <<probe_timeouts, pending_events, owed, outbound_conns, live>>
  BY <1>6 DEF ProbeInv, NoProbeWhileConnected, ProbesAccounted
<1> QED
  BY <1>1, <1>2, <1>3, <1>4, <1>5, <1>6
     DEF Next, vars, baseVars, swarmVars, call_find_and_dial, on_kademlia_event, other_dial,
         dial_failure

(* ------------------------------------------------------------------------ *)
(* The base behaviour                                                       *)
(* ------------------------------------------------------------------------ *)

\* Nothing is looked up, connected or probed at the start.
LEMMA InitBaseInv == Init => BaseInv
<1> SUFFICES ASSUME Init PROVE BaseInv
  OBVIOUS
<1>1. {MaxProbes, MaxQueries, MaxOutbound, MaxInbound, MaxPending} \subseteq Nat
  BY BoundsAssumption
<1>2. LookupInv
  BY <1>1 DEF Init, LookupInv, OneLookupPerPeer, NoQuery
<1>3. ConnInv
  BY <1>1 DEF Init, ConnInv, Direction
<1>4. ProbeInv
  <2>1. ProbesAccounted
    <3> SUFFICES ASSUME NEW x \in Peers
                 PROVE  owed[x] = Running(x) + Cardinality(Places(pending_events, x))
      BY AccountedAs
    <3>1. Places(pending_events, x) = {}
      BY DEF Init, Places
    <3>2. Cardinality(Places(pending_events, x)) = 0
      BY <3>1, FS_EmptySet
    <3>3. owed[x] = 0 /\ Running(x) = 0
      BY DEF Init, Running
    <3> QED
      BY <3>2, <3>3
  <2>2. pending_events \in Seq(Peers) /\ Len(pending_events) = 0
    BY EmptySeq DEF Init
  <2>3. IsFiniteSet(probe_timeouts) /\ Cardinality(probe_timeouts) = 0
    BY FS_EmptySet DEF Init
  <2> QED
    BY <1>1, <2>1, <2>2, <2>3 DEF Init, ProbeInv, NoProbeWhileConnected
<1> QED
  BY <1>2, <1>3, <1>4 DEF BaseInv

\* Every step keeps the three parts of the invariant.
LEMMA NextKeepsBaseInv == BaseInv /\ [Next]_vars => BaseInv'
BY NextKeepsLookups, NextKeepsConns, NextKeepsProbes DEF BaseInv

\* The three parts give the types.
LEMMA BaseInvTypes == BaseInv => TypeOK
BY DEF BaseInv, LookupInv, ConnInv, ProbeInv, TypeOK, Query

\* The base behaviour keeps the inductive invariant, whichever calls the actor
\* on top of it makes.
THEOREM BaseInvariant == Spec => []BaseInv
BY InitBaseInv, NextKeepsBaseInv, PTL DEF Spec

(* ------------------------------------------------------------------------ *)
(* The scheduler implements the base behaviour                              *)
(* ------------------------------------------------------------------------ *)

\* The queues between the user and the transport task.
QueuesOK ==
    /\ probes \in Seq(Peers) /\ Len(probes) <= ProbesQueueSize
    /\ events \in Seq({Ping, PeerProbed}) /\ Len(events) <= EventsQueueSize
    /\ waiting \in SUBSET Peers

\* send_lossy keeps to the size of the queue.
LEMMA SendLossy ==
    ASSUME QueuesOK, NEW e \in {Ping, PeerProbed}, send_lossy(e)
    PROVE  events' \in Seq({Ping, PeerProbed}) /\ Len(events') <= EventsQueueSize
<1>1. /\ events \in Seq({Ping, PeerProbed}) /\ Len(events) <= EventsQueueSize
      /\ Len(events) \in Nat /\ EventsQueueSize \in Nat
  BY LenProperties, QueueSizesAssumption DEF QueuesOK
<1>2. CASE Len(events) < EventsQueueSize
  <2>1. events' = Append(events, e)
    BY <1>2 DEF send_lossy
  <2>2. events' \in Seq({Ping, PeerProbed}) /\ Len(events') = Len(events) + 1
    BY <1>1, <2>1, AppendProperties
  <2> QED
    BY <1>1, <1>2, <2>2
<1>3. CASE ~(Len(events) < EventsQueueSize)
  BY <1>1, <1>3 DEF send_lossy
<1> QED
  BY <1>2, <1>3

\* Every step of the scheduler keeps its queues in order.
LEMMA NextKeepsQueues ==
    ASSUME QueuesOK, [SchedulerNext]_schedulerVars
    PROVE  QueuesOK'
<1>1. /\ probes \in Seq(Peers) /\ Len(probes) \in Nat /\ Len(probes) <= ProbesQueueSize
      /\ events \in Seq({Ping, PeerProbed}) /\ Len(events) \in Nat
      /\ Len(events) <= EventsQueueSize
      /\ waiting \in SUBSET Peers
      /\ ProbesQueueSize \in Nat /\ EventsQueueSize \in Nat
  BY LenProperties, QueueSizesAssumption DEF QueuesOK
<1>2. ASSUME NEW p \in Peers, handle_probe_peer(p) PROVE QueuesOK'
  <2>1. Len(probes) < ProbesQueueSize /\ probes' = Append(probes, p) /\ UNCHANGED <<events, waiting>>
    BY <1>2 DEF handle_probe_peer
  <2>2. probes' \in Seq(Peers) /\ Len(probes') = Len(probes) + 1
    BY <1>1, <2>1, AppendProperties
  <2>3. Len(probes') <= ProbesQueueSize
    BY <1>1, <2>1, <2>2
  <2> QED
    BY <1>1, <2>1, <2>2, <2>3 DEF QueuesOK
<1>3. CASE next_event
  <2>1. events # <<>> /\ events' = Tail(events) /\ UNCHANGED <<probes, waiting>>
    BY <1>3 DEF next_event
  <2>2. events' \in Seq({Ping, PeerProbed}) /\ Len(events') = Len(events) - 1
    BY <1>1, <2>1, HeadTailProperties
  <2>3. Len(events') <= EventsQueueSize
    BY <1>1, <2>2
  <2> QED
    BY <1>1, <2>1, <2>2, <2>3 DEF QueuesOK
<1>4. CASE probe_peer
  <2>1. probes # <<>> /\ probes' = Tail(probes)
    BY <1>4 DEF probe_peer
  <2>2. probes' \in Seq(Peers) /\ Len(probes') = Len(probes) - 1 /\ Head(probes) \in Peers
    BY <1>1, <2>1, HeadTailProperties
  <2>3. Len(probes') <= ProbesQueueSize
    BY <1>1, <2>2
  <2>4. send_lossy(PeerProbed) \/ UNCHANGED events
    BY <1>4 DEF probe_peer
  <2>5. events' \in Seq({Ping, PeerProbed}) /\ Len(events') <= EventsQueueSize
    BY <1>1, <2>4, SendLossy
  <2>6. waiting' \in SUBSET Peers
    BY <1>1, <1>4, <2>2 DEF probe_peer
  <2> QED
    BY <2>2, <2>3, <2>5, <2>6 DEF QueuesOK
<1>5. ASSUME NEW p, on_peer_probed(p) PROVE QueuesOK'
  <2>1. events' \in Seq({Ping, PeerProbed}) /\ Len(events') <= EventsQueueSize
    BY <1>5, SendLossy DEF on_peer_probed
  <2> QED
    BY <1>1, <1>5, <2>1 DEF on_peer_probed, QueuesOK
<1>6. ASSUME NEW p, NEW ping, on_ping(p, ping) PROVE QueuesOK'
  <2>1. events' \in Seq({Ping, PeerProbed}) /\ Len(events') <= EventsQueueSize
    BY <1>6, SendLossy DEF on_ping
  <2> QED
    BY <1>1, <1>6, <2>1 DEF on_ping, QueuesOK
<1>7. CASE UNCHANGED <<probes, events, waiting>>
  BY <1>1, <1>7 DEF QueuesOK
<1> QED
  BY <1>2, <1>3, <1>4, <1>5, <1>6, <1>7
     DEF SchedulerNext, schedulerVars, probe_succeeded, probe_failed, on_pong_event, base_step

\* A step of the scheduler is a step of the base behaviour or none of its own.
LEMMA SchedulerStep ==
    ASSUME QueuesOK, [SchedulerNext]_schedulerVars
    PROVE  [Next]_vars
<1>1. CASE probe_peer
  <2>1. Head(probes) \in Peers
    BY <1>1, HeadTailProperties DEF QueuesOK, probe_peer
  <2>2. UNCHANGED vars \/ schedule_probe(Head(probes))
    BY <1>1 DEF probe_peer
  <2> QED
    BY <2>1, <2>2 DEF Next
<1>2. CASE probe_succeeded
  BY <1>2 DEF Next, probe_succeeded
<1>3. ASSUME NEW p \in Peers, probe_failed(p) PROVE Next
  BY <1>3 DEF Next, probe_failed
<1>4. ASSUME NEW p \in Peers, on_pong_event(p) PROVE Next
  BY <1>4 DEF Next, on_pong_event
<1>5. CASE base_step
  BY <1>5 DEF Next, base_step
<1>6. CASE UNCHANGED vars
  BY <1>6
<1> QED
  BY <1>1, <1>2, <1>3, <1>4, <1>5, <1>6
     DEF SchedulerNext, schedulerVars, handle_probe_peer, next_event, on_ping

\* The queues are empty at the start.
LEMMA InitQueues == SchedulerInit => QueuesOK
BY EmptySeq, QueueSizesAssumption DEF SchedulerInit, QueuesEmpty, QueuesOK

\* The scheduler actor keeps its queues in order.
LEMMA SchedulerQueues == SchedulerSpec => []QueuesOK
BY InitQueues, NextKeepsQueues, PTL DEF SchedulerSpec

\* Every behaviour of the scheduler actor is, for its base behaviour, one that
\* BaseBehaviour allows: probe_peer, on_pong_event and the rest of scheduler.rs
\* change the base behaviour only by its own operations.
THEOREM SchedulerImplementsBase == SchedulerSpec => Spec
<1>1. SchedulerInit => Init
  BY DEF SchedulerInit
<1> QED
  BY <1>1, SchedulerStep, SchedulerQueues, PTL DEF SchedulerSpec, Spec

(* ------------------------------------------------------------------------ *)
(* The theorems about the scheduler                                         *)
(* ------------------------------------------------------------------------ *)

\* The invariant of the base behaviour holds inside the scheduler.
LEMMA SchedulerBaseInv == SchedulerSpec => []BaseInv
BY SchedulerImplementsBase, BaseInvariant, PTL

\* The variables of the scheduler and of its base behaviour have their types:
\* no count goes below zero, no more than max_concurrent_probes run and no
\* queue exceeds its size.
THEOREM SchedulerTyping == SchedulerSpec => []SchedulerTypeOK
<1>1. BaseInv /\ QueuesOK => SchedulerTypeOK
  BY BaseInvTypes DEF QueuesOK, SchedulerTypeOK
<1> QED
  BY <1>1, SchedulerBaseInv, SchedulerQueues, PTL

\* try_probe_peer and on_connection_established never leave a probe running for
\* a peer that this node has dialled and is connected to.
THEOREM ProbesUnconnected == SchedulerSpec => []NoProbeWhileConnected
<1>1. BaseInv => NoProbeWhileConnected
  BY DEF BaseInv, ProbeInv
<1> QED
  BY <1>1, SchedulerBaseInv, PTL

\* Every probe that schedule_probe starts is running, waits in pending_events
\* or has been reported, once.
THEOREM ProbesReportedOnce == SchedulerSpec => []ProbesAccounted
<1>1. BaseInv => ProbesAccounted
  BY DEF BaseInv, ProbeInv
<1> QED
  BY <1>1, SchedulerBaseInv, PTL

\* find_and_dial and on_kademlia_event lose no lookup: a query that has not led
\* to its dial is the one ongoing_queries has for the peer.
THEOREM LookupsOnRecord == SchedulerSpec => []OneLookupPerPeer
<1>1. BaseInv => OneLookupPerPeer
  BY DEF BaseInv, LookupInv
<1> QED
  BY <1>1, SchedulerBaseInv, PTL

\* The count behind the answer try_probe_peer gives at once is right.
THEOREM ConnectedAnswerTrue == SchedulerSpec => []ConnectedIsTrue
<1>1. BaseInv => ConnectedIsTrue
  BY BoundsAssumption DEF BaseInv, ConnInv, ConnectedIsTrue, ProbeConnected, HasOutbound
<1> QED
  BY <1>1, SchedulerBaseInv, PTL

\* A peer the scheduler owes a verdict on has a probe timer or a report that is
\* queued: what remains of EveryProbeAnswered is that timers fire and that the
\* queue is polled.
WaitingHasProbe ==
    \A p \in waiting : p \in probe_timeouts \/ Places(pending_events, p) # {}

\* Every step of the scheduler keeps it so.
LEMMA NextKeepsWaiting ==
    ASSUME QueuesOK, BaseInv, WaitingHasProbe, [SchedulerNext]_schedulerVars
    PROVE  WaitingHasProbe'
<1>1. pending_events \in Seq(Peers) /\ Len(pending_events) \in Nat
  BY LenProperties DEF BaseInv, ProbeInv
<1>2. CASE probe_peer
  <2>1. CASE UNCHANGED vars /\ waiting' \subseteq waiting
    BY <2>1 DEF WaitingHasProbe, vars, baseVars
  <2>2. CASE /\ Head(probes) \in probe_timeouts' /\ waiting' = waiting \cup {Head(probes)}
             /\ probe_timeouts \subseteq probe_timeouts' /\ UNCHANGED pending_events
    BY <2>2 DEF WaitingHasProbe
  <2> QED
    BY <1>2, <2>1, <2>2 DEF probe_peer, ProbeUnderWay, schedule_probe, vars, baseVars
<1>3. CASE probe_succeeded
  <2> DEFINE h == Head(pending_events)
  <2>1. /\ pending_events # <<>> /\ pending_events' = Tail(pending_events)
        /\ waiting' = waiting \ {h} /\ probe_timeouts' = probe_timeouts
    BY <1>3 DEF probe_succeeded, deliver_probed, on_peer_probed
  <2>2. /\ Len(pending_events') = Len(pending_events) - 1
        /\ \A i \in 1..Len(pending_events') : pending_events'[i] = pending_events[i + 1]
        /\ pending_events[1] = h
    BY <1>1, <2>1, HeadTailProperties
  <2> SUFFICES ASSUME NEW p \in waiting, p # h, p \notin probe_timeouts
               PROVE  \E k \in 1..Len(pending_events') : pending_events'[k] = p
    BY <2>1 DEF WaitingHasProbe, Places
  <2>3. PICK k \in 1..Len(pending_events) : pending_events[k] = p
    BY DEF WaitingHasProbe, Places
  <2>4. k - 1 \in 1..Len(pending_events') /\ pending_events'[k - 1] = p
    BY <1>1, <2>2, <2>3
  <2> QED
    BY <2>4
<1>4. ASSUME NEW p \in Peers, probe_failed(p) PROVE WaitingHasProbe'
  BY <1>4 DEF WaitingHasProbe, probe_failed, probe_timed_out, on_peer_probed
<1>5. ASSUME NEW p \in Peers, NEW d \in Direction, on_connection_established(p, d),
             UNCHANGED waiting
      PROVE  WaitingHasProbe'
  <2>1. CASE UNCHANGED <<probe_timeouts, pending_events>>
    BY <1>5, <2>1 DEF WaitingHasProbe
  <2>2. CASE ProbeSucceeds(p) /\ p \in probe_timeouts
    <3>1. probe_timeouts' = probe_timeouts \ {p} /\ pending_events' = Append(pending_events, p)
      BY <2>2 DEF ProbeSucceeds
    <3>2. /\ Len(pending_events') = Len(pending_events) + 1
          /\ \A i \in 1..Len(pending_events) : pending_events'[i] = pending_events[i]
          /\ pending_events'[Len(pending_events) + 1] = p
      BY <1>1, <3>1, AppendProperties
    <3>3. Len(pending_events) + 1 \in Places(pending_events', p)
      BY <1>1, <3>2 DEF Places
    <3>4. \A x : Places(pending_events, x) \subseteq Places(pending_events', x)
      BY <1>1, <3>2 DEF Places
    <3> QED
      BY <1>5, <3>1, <3>3, <3>4 DEF WaitingHasProbe
  <2>3. CASE ProbeSucceeds(p) /\ p \notin probe_timeouts
    BY <1>5, <2>3 DEF WaitingHasProbe, ProbeSucceeds
  <2> QED
    BY <1>5, <2>1, <2>2, <2>3 DEF on_connection_established
<1>6. CASE UNCHANGED <<probe_timeouts, pending_events, waiting>>
  BY <1>6 DEF WaitingHasProbe
<1> QED
  BY <1>2, <1>3, <1>4, <1>5, <1>6
     DEF SchedulerNext, schedulerVars, vars, baseVars, handle_probe_peer, next_event, on_ping,
         on_pong_event, call_find_and_dial, base_step, on_kademlia_event, other_dial,
         dial_failure, on_connection_closed

\* A probe that probe_peer has taken up is never forgotten, whether it started
\* the probe or joined one: until its verdict, a timer or a report stands for it.
THEOREM NoProbeForgotten == SchedulerSpec => []WaitingHasProbe
<1>1. SchedulerInit => WaitingHasProbe
  BY DEF SchedulerInit, WaitingHasProbe
<1> QED
  BY <1>1, NextKeepsWaiting, SchedulerBaseInv, SchedulerQueues, PTL DEF SchedulerSpec
=============================================================================
