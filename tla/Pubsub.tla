------------------------------- MODULE Pubsub -------------------------------
(* PubsubBehaviour (transport/src/behaviour/pubsub.rs): validation of gossip  *)
(* messages by source, topic and sequence number.                             *)
(*                                                                            *)
(* External: gossipsub.  It starts a publisher's sequence numbers at the      *)
(* time of its start and adds one per message, signs messages (nobody forges  *)
(* a source) and delivers them in any order, repeatedly or never.  Rogue      *)
(* peers put anything into their own messages.                                *)
EXTENDS Integers, FiniteSets

CONSTANTS
    Honest, Rogue,    \* publishers
    Topics,
    KeepLast,         \* topic -> keep_last given to subscribe
    NoSource, NoSeq,  \* Option::None of a message's source and number
    MaxTime           \* bound: the clock, in nanoseconds

Peers == Honest \cup Rogue
SeqNo == 0..(MaxTime + 1)

ASSUME KeepLastAssumption == KeepLast \in [Topics -> Nat \ {0}]
ASSUME MaxTimeAssumption == MaxTime \in Nat \ {0}
ASSUME PublishersAssumption == Honest \cap Rogue = {}
ASSUME NoneAssumption == NoSource \notin Peers /\ NoSeq \notin Int

VARIABLES
    now,               \* timestamp_now()
    topics,            \* topics subscribed to
    sequence_numbers,  \* topic -> peer -> highest number seen, 0 by default
    counter,           \* external: number of each publisher's latest message
    net,               \* external: honest messages gossiped so far
    accepted,          \* history: topic -> peer -> numbers accepted
    latest             \* history: topic -> peer -> number accepted last

nodeVars == <<topics, sequence_numbers>>
history == <<accepted, latest>>
vars == <<now, nodeVars, counter, net, history>>

Message == [source : Peers \cup {NoSource}, topic : Topics,
            seq : SeqNo \cup {NoSeq}]

PerPublisher(x) == [t \in Topics |-> [p \in Peers |-> x]]

Init ==
    /\ now = 1
    /\ topics = {}
    /\ sequence_numbers = PerPublisher(0)
    /\ counter = [p \in Peers |-> 0]
    /\ net = {}
    /\ accepted = PerPublisher({})
    /\ latest = PerPublisher(0)

(* ------------------------------------------------------------------------ *)
(* The network                                                              *)
(* ------------------------------------------------------------------------ *)

tick ==
    /\ now < MaxTime
    /\ now' = now + 1
    /\ UNCHANGED <<nodeVars, counter, net, history>>

\* An honest publisher starts, or starts again: numbers go on from the time.
\* Its clock agrees with ours and it publishes less than once per nanosecond.
start(p) ==
    /\ counter[p] < now
    /\ counter' = [counter EXCEPT ![p] = now - 1]
    /\ UNCHANGED <<now, nodeVars, net, history>>

\* PubsubBehaviour::publish at the publisher's node, where gossipsub numbers what
\* it accepts.  A publish that fails there (a topic not subscribed to, no peers,
\* a message too large) is only logged: no message, which is no step here.
publish(p, t) ==
    /\ counter[p] < now
    /\ counter' = [counter EXCEPT ![p] = @ + 1]
    /\ net' = net \cup {[source |-> p, topic |-> t, seq |-> counter[p] + 1]}
    /\ UNCHANGED <<now, nodeVars, history>>

\* Rogue peers and anonymous senders can send any of these at any time.
RogueMessage == {m \in Message : m.source \in Rogue \cup {NoSource}}

(* ------------------------------------------------------------------------ *)
(* This node                                                                *)
(* ------------------------------------------------------------------------ *)

subscribe_Resets(t) ==
    /\ topics' = topics \cup {t}
    /\ sequence_numbers' = [sequence_numbers EXCEPT ![t] = [p \in Peers |-> 0]]
    /\ UNCHANGED <<now, counter, net, history>>

\* A topic that is subscribed to already keeps its state.
subscribe(t) ==
    /\ t \notin topics
    /\ topics' = topics \cup {t}
    /\ sequence_numbers' = [sequence_numbers EXCEPT ![t] = [p \in Peers |-> 0]]
    /\ UNCHANGED <<now, counter, net, history>>

FromFuture_Never(m) == FALSE
FromFuture_Tolerant(m) == m.seq > now + 1

\* "Sequence numbers should be timestamp-based, can't be from the future"
FromFuture(m) == m.seq > now

\* Outside the window of keep_last numbers that ends with the highest one.
IsOld(m) == m.seq + KeepLast[m.topic] <= sequence_numbers[m.topic][m.source]

\* The checks of validate_gossipsub_msg, in their order.
Valid(m) ==
    /\ m.source # NoSource
    /\ m.topic \in topics
    /\ m.seq # NoSeq
    /\ ~FromFuture(m)
    /\ ~IsOld(m)

Advanced_ToNow(m) == now

\* The entry of the publisher after message m.
Advanced(m) ==
    IF m.seq > sequence_numbers[m.topic][m.source] THEN m.seq
    ELSE sequence_numbers[m.topic][m.source]

\* A gossip message is validated and handed on (Accept) or discarded (Reject).
on_inner_event(m) ==
    /\ Valid(m)
    /\ sequence_numbers' = [sequence_numbers EXCEPT ![m.topic][m.source] = Advanced(m)]
    /\ accepted' = [accepted EXCEPT ![m.topic][m.source] = @ \cup {m.seq}]
    /\ latest' = [latest EXCEPT ![m.topic][m.source] = m.seq]
    /\ UNCHANGED <<now, topics, counter, net>>

Next ==
    \/ tick
    \/ \E p \in Honest : start(p)
    \/ \E p \in Honest, t \in Topics : publish(p, t)
    \/ \E t \in Topics : subscribe(t)
    \/ \E m \in net \cup RogueMessage : on_inner_event(m)

Spec == Init /\ [][Next]_vars

(* ------------------------------------------------------------------------ *)
(* Properties                                                               *)
(* ------------------------------------------------------------------------ *)

\* Every variable has its type; no number from the future is recorded.
TypeOK ==
    /\ now \in 0..MaxTime
    /\ topics \in SUBSET Topics
    /\ sequence_numbers \in [Topics -> [Peers -> 0..MaxTime]]
    /\ counter \in [Peers -> 0..MaxTime]
    /\ net \in SUBSET Message
    /\ accepted \in [Topics -> [Peers -> SUBSET (0..MaxTime)]]
    /\ latest \in [Topics -> [Peers -> 0..MaxTime]]

\* "Enforce message ordering (if configured for topic)": whatever the network
\* reorders or repeats, a message is accepted only if fewer than keep_last
\* numbers lie between it and the highest one accepted before it; with
\* keep_last = 1 the numbers never decrease.
WindowOrder ==
    \A t \in Topics, p \in Peers :
        \A s \in accepted[t][p] : s < latest[t][p] + KeepLast[t]

\* No publisher, rogue ones included, moves the window past the present, so the
\* next message with the current time as its number is accepted.
WindowNotPoisoned ==
    \A t \in Topics, p \in Peers : sequence_numbers[t][p] <= now

\* Across restarts of an honest publisher and whatever rogue peers send, the
\* message it published last is not discarded as an old one.
NewestAccepted ==
    \A m \in net :
        m.source \in Honest /\ m.topic \in topics /\ m.seq = counter[m.source]
            => Valid(m)
=============================================================================
