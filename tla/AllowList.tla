----------------------------- MODULE AllowList -----------------------------
(* Who may connect: the nodes registered on chain, read page by page and role *)
(* by role (contract-client/src/client.rs), and the allow list that follows   *)
(* them (on_nodes_update of transport/src/behaviour/base.rs and the same loop *)
(* in bin/bootnode.rs).                                                       *)
(*                                                                            *)
(* External: the registry contracts, which change between any two reads, and  *)
(* the RPC node, which may fail any read.  The gateway registry is a list     *)
(* that is read by position.                                                  *)
EXTENDS Integers, FiniteSets, Sequences, SequencesExt

CONSTANTS
    Peers,
    Pinned,       \* allowed by new or by the command line: boot nodes and such
    BadId,        \* a gateway id on chain that is not a peer id
    PageSize,     \* GATEWAYS_PAGE_SIZE
    MaxChanges,   \* bound: changes on chain
    MaxFailures   \* bound: failed reads

ASSUME PinnedAssumption == Pinned \subseteq Peers /\ BadId \notin Peers
ASSUME SizesAssumption ==
    PageSize \in Nat \ {0} /\ MaxChanges \in Nat /\ MaxFailures \in Nat

VARIABLES
    gateways,          \* external: the gateway registry
    workers,           \* external: the registered workers
    changes, failures, \* how much of the bounds is used
    phase,             \* where the future of network_nodes_stream is
    latest_block,      \* the registry as of the block the pages are read at
    page,
    active_gateways,   \* gathered so far
    registered_nodes,  \* BaseBehaviour::registered_nodes
    allow,             \* the peers of allow_block_list
    steady,            \* history: nodes that kept a role since the read began
    missed             \* history: steady nodes a finished read did not return

chainVars == <<gateways, workers, changes>>
readVars == <<phase, latest_block, page, active_gateways>>
nodeVars == <<registered_nodes, allow>>
vars == <<chainVars, failures, readVars, nodeVars, steady, missed>>

\* The gateways of a list whose ids parse as peer ids.
valid(ids) == ToSet(ids) \ {BadId}

Active == valid(gateways) \cup workers

Init ==
    /\ gateways = <<>>
    /\ workers = {}
    /\ changes = 0
    /\ failures = 0
    /\ phase = "idle"
    /\ latest_block = <<>>
    /\ page = 0
    /\ active_gateways = {}
    /\ registered_nodes = {}
    /\ allow = Pinned
    /\ steady = {}
    /\ missed = {}

(* ------------------------------------------------------------------------ *)
(* The chain                                                                *)
(* ------------------------------------------------------------------------ *)

register(p) ==
    /\ changes < MaxChanges
    /\ changes' = changes + 1
    /\ \/ /\ p \notin ToSet(gateways)
          /\ gateways' = Append(gateways, p)
          /\ UNCHANGED workers
       \/ /\ p \in Peers \ workers
          /\ workers' = workers \cup {p}
          /\ UNCHANGED gateways
    /\ UNCHANGED <<failures, readVars, nodeVars, steady, missed>>

\* What follows a gateway that is removed moves to an earlier position.
unregister(p) ==
    /\ changes < MaxChanges
    /\ changes' = changes + 1
    /\ \/ /\ \E k \in 1..Len(gateways) :
                gateways[k] = p /\ gateways' = RemoveAt(gateways, k)
          /\ UNCHANGED workers
       \/ /\ p \in workers
          /\ workers' = workers \ {p}
          /\ UNCHANGED gateways
    /\ steady' = steady \ {p}
    /\ UNCHANGED <<failures, readVars, nodeVars, missed>>

(* ------------------------------------------------------------------------ *)
(* network_nodes_stream: one read at a time, a new one with every tick      *)
(* ------------------------------------------------------------------------ *)

\* get_block_number of active_gateways.
read_begin ==
    /\ phase = "idle"
    /\ phase' = "gateways"
    /\ latest_block' = gateways
    /\ page' = 0
    /\ active_gateways' = {}
    /\ steady' = Active
    /\ UNCHANGED <<chainVars, failures, nodeVars, missed>>

PageOf(seq) ==
    LET last == (page + 1) * PageSize IN
    SubSeq(seq, page * PageSize + 1, IF last < Len(seq) THEN last ELSE Len(seq))

PageIds_Unpinned == PageOf(gateways)

\* get_active_gateways(page, GATEWAYS_PAGE_SIZE).block(latest_block)
PageIds == PageOf(latest_block)

IsLastPage_Never == Len(PageIds) > PageSize

\* The length of the page as it was received, unparsed ids included.
IsLastPage == Len(PageIds) < PageSize

\* A page of gateways; a short one is the last.
read_page ==
    /\ phase = "gateways"
    /\ active_gateways' = active_gateways \cup valid(PageIds)
    /\ page' = page + 1
    /\ phase' = IF IsLastPage THEN "workers" ELSE "gateways"
    /\ UNCHANGED <<chainVars, failures, latest_block, nodeVars, steady, missed>>

KeepNodes_Stale(nodes) == registered_nodes' = registered_nodes

\* The assignment at the end of on_nodes_update.
KeepNodes(nodes) == registered_nodes' = nodes

Unchanged_SameSize(nodes) == Cardinality(nodes) = Cardinality(registered_nodes)

\* The early return of on_nodes_update.
Unchanged(nodes) == nodes = registered_nodes

\* disallow_peer for the nodes that are gone, allow_peer for the new ones.
on_nodes_update(nodes) ==
    \/ /\ Unchanged(nodes)
       /\ UNCHANGED nodeVars
    \/ /\ ~Unchanged(nodes)
       /\ allow' = (allow \ (registered_nodes \ nodes)) \cup (nodes \ registered_nodes)
       /\ KeepNodes(nodes)

\* active_workers (one multicall); the stream yields and the allow list follows
\* in the same poll.
read_workers ==
    LET nodes == active_gateways \cup workers IN
    /\ phase = "workers"
    /\ phase' = "idle"
    /\ on_nodes_update(nodes)
    /\ missed' = missed \cup (steady \ nodes)
    /\ UNCHANGED <<chainVars, failures, latest_block, page, active_gateways, steady>>

\* A read fails: the stream yields the error, which is logged.
read_failed ==
    /\ phase # "idle"
    /\ failures < MaxFailures
    /\ failures' = failures + 1
    /\ phase' = "idle"
    /\ UNCHANGED <<chainVars, latest_block, page, active_gateways, nodeVars,
                   steady, missed>>

Next ==
    \/ \E p \in Peers \cup {BadId} : register(p)
    \/ \E p \in Peers \cup {BadId} : unregister(p)
    \/ read_begin
    \/ read_page
    \/ read_workers
    \/ read_failed

Spec == Init /\ [][Next]_vars

\* The interval ticks for ever and a read that does not fail goes on.
Fairness == WF_vars(read_begin) /\ WF_vars(read_page) /\ WF_vars(read_workers)

FairSpec == Spec /\ Fairness

(* ------------------------------------------------------------------------ *)
(* Properties                                                               *)
(* ------------------------------------------------------------------------ *)

\* Every variable has its type, and no page is read beyond the end of the list.
TypeOK ==
    /\ gateways \in Seq(Peers \cup {BadId})
    /\ workers \in SUBSET Peers
    /\ changes \in 0..MaxChanges
    /\ failures \in 0..MaxFailures
    /\ phase \in {"idle", "gateways", "workers"}
    /\ latest_block \in Seq(Peers \cup {BadId})
    /\ page \in Nat /\ page * PageSize <= Len(latest_block) + PageSize
    /\ active_gateways \in SUBSET Peers
    /\ registered_nodes \in SUBSET Peers
    /\ allow \in SUBSET Peers
    /\ steady \in SUBSET Peers
    /\ missed \in SUBSET Peers

\* The list that is updated by differences never drifts from the set it stands
\* for, whatever the order of registrations, failed reads and updates: the
\* registered nodes are allowed, and beyond them only pinned ones.
AllowFollowsRegistered ==
    /\ registered_nodes \subseteq allow
    /\ allow \ registered_nodes \subseteq Pinned

\* A node that keeps its role while the pages are read is in the result, although
\* the registry changes under the read: no page skips anybody.
NoneMissed == missed = {}

\* Once the chain is quiet, the node knows exactly the active nodes.
CatchesUp == <>[](registered_nodes = Active)

\* "Allowed nodes" (the help of --allowed-nodes of the boot node): a node that
\* was allowed explicitly is allowed.
PinnedStayAllowed == Pinned \subseteq allow
=============================================================================
