--------------------------- MODULE AllowListProofs ---------------------------
(* The reads of the registered nodes and the allow list that follows them,    *)
(* for any peers, page size and number of changes on chain.                   *)
EXTENDS AllowList, SequenceTheorems, TLAPS

(* ------------------------------------------------------------------------ *)
(* The inductive invariant                                                  *)
(* ------------------------------------------------------------------------ *)

\* While a read is under way, nodes that have kept their role since it began are
\* in the block it reads gateways at, or are workers still.
SteadyKept == phase # "idle" => steady \subseteq valid(latest_block) \cup workers

\* The pages read so far are full and what they hold has been gathered; after
\* the last one everything has.
PagesGathered ==
    /\ phase = "gateways" =>
          /\ page * PageSize <= Len(latest_block)
          /\ \A i \in 1..(page * PageSize) :
                latest_block[i] \in active_gateways \cup {BadId}
    /\ phase = "workers" => valid(latest_block) \subseteq active_gateways

AllowInv ==
    /\ TypeOK
    /\ SteadyKept
    /\ PagesGathered
    /\ AllowFollowsRegistered
    /\ NoneMissed

(* ------------------------------------------------------------------------ *)
(* Lemmas about the registry as a list                                      *)
(* ------------------------------------------------------------------------ *)

Ids == Peers \cup {BadId}

\* What is read of a list of ids are peers.
LEMMA ValidArePeers ==
    ASSUME NEW ids \in Seq(Ids)
    PROVE  /\ valid(ids) \in SUBSET Peers
           /\ \A x : x \in valid(ids) <=> \E i \in 1..Len(ids) : x = ids[i] /\ x # BadId
BY LenProperties, ElementOfSeq DEF valid, ToSet, Ids

\* Taking an entry out of a list keeps the type of the list.
LEMMA RemoveAtType ==
    ASSUME NEW ids \in Seq(Ids), NEW k \in 1..Len(ids)
    PROVE  RemoveAt(ids, k) \in Seq(Ids)
<1>1. Len(ids) \in Nat /\ \A i \in 1..Len(ids) : ids[i] \in Ids
  BY LenProperties, ElementOfSeq
<1>2. SubSeq(ids, 1, k - 1) \in Seq(Ids)
  BY <1>1, SubSeqProperties, SMT
<1>3. SubSeq(ids, k + 1, Len(ids)) \in Seq(Ids)
  BY <1>1, SubSeqProperties, SMT
<1> QED
  BY <1>2, <1>3, ConcatProperties DEF RemoveAt

\* A page: entry by entry, its length, and when it is the last one.
LEMMA PageProperties ==
    ASSUME TypeOK, page * PageSize <= Len(latest_block),
           NEW a, a = page * PageSize
    PROVE  \E b \in Nat :
              /\ a <= b /\ b <= Len(latest_block) /\ b <= a + PageSize
              /\ b < a + PageSize => b = Len(latest_block)
              /\ PageIds \in Seq(Ids)
              /\ Len(PageIds) = b - a
              /\ \A i \in 1..(b - a) : PageIds[i] = latest_block[a + i]
<1> DEFINE n == Len(latest_block)
           b == IF a + PageSize < n THEN a + PageSize ELSE n
<1>1. /\ n \in Nat /\ a \in Nat /\ PageSize \in Nat /\ PageSize > 0 /\ a <= n
      /\ \A i \in 1..n : latest_block[i] \in Ids
  BY SizesAssumption, LenProperties, ElementOfSeq DEF TypeOK, Ids
<1>2. (page + 1) * PageSize = a + PageSize
  BY SizesAssumption, SMT DEF TypeOK
<1>3. PageIds = SubSeq(latest_block, a + 1, b)
  BY <1>2 DEF PageIds, PageOf
<1>4. /\ b \in Nat /\ a <= b /\ b <= n /\ b <= a + PageSize
      /\ b < a + PageSize => b = n
  BY <1>1
<1> HIDE DEF b
<1>5. a + 1 \in Int /\ b \in Int /\ \A i \in (a + 1)..b : latest_block[i] \in Ids
  BY <1>1, <1>4
<1>6. /\ SubSeq(latest_block, a + 1, b) \in Seq(Ids)
      /\ Len(SubSeq(latest_block, a + 1, b)) = IF a + 1 <= b THEN b - (a + 1) + 1 ELSE 0
      /\ \A i \in 1..(b - (a + 1) + 1) :
            SubSeq(latest_block, a + 1, b)[i] = latest_block[a + 1 + i - 1]
  BY <1>5, SubSeqProperties
<1>7. \A i \in 1..(b - a) : PageIds[i] = latest_block[a + i]
  <2> SUFFICES ASSUME NEW i \in 1..(b - a) PROVE PageIds[i] = latest_block[a + i]
    OBVIOUS
  <2>1. i \in 1..(b - (a + 1) + 1) /\ a + 1 + i - 1 = a + i
    BY <1>1, <1>4
  <2> QED
    BY <1>3, <1>6, <2>1
<1>8. Len(PageIds) = b - a
  BY <1>1, <1>3, <1>4, <1>6
<1> QED
  BY <1>3, <1>4, <1>6, <1>7, <1>8

(* ------------------------------------------------------------------------ *)
(* The steps                                                                *)
(* ------------------------------------------------------------------------ *)

\* Nothing is registered, read or missed at the start.
LEMMA InitInv == Init => AllowInv
<1> SUFFICES ASSUME Init PROVE AllowInv
  OBVIOUS
<1>1. TypeOK
  BY PinnedAssumption, SizesAssumption, EmptySeq DEF Init, TypeOK
<1> QED
  BY <1>1 DEF Init, AllowInv, SteadyKept, PagesGathered, AllowFollowsRegistered, NoneMissed

\* The chain changes: a node that gives up a role is not steady any more.
LEMMA ChainInv ==
    ASSUME AllowInv, NEW p \in Ids, register(p) \/ unregister(p)
    PROVE  AllowInv'
<1> USE DEF AllowInv
<1>1. /\ UNCHANGED <<failures, readVars, nodeVars, missed>>
      /\ steady' \subseteq steady
      /\ changes' \in 0..MaxChanges
  BY SizesAssumption DEF TypeOK, register, unregister
<1>2. gateways' \in Seq(Ids)
  <2>1. CASE UNCHANGED gateways
    BY <2>1 DEF TypeOK, Ids
  <2>2. CASE gateways' = Append(gateways, p)
    BY <2>2, AppendProperties DEF TypeOK, Ids
  <2>3. ASSUME NEW k \in 1..Len(gateways), gateways' = RemoveAt(gateways, k)
        PROVE  gateways' \in Seq(Ids)
    BY <2>3, RemoveAtType DEF TypeOK, Ids
  <2> QED
    BY <2>1, <2>2, <2>3 DEF register, unregister
<1>3. workers' \in SUBSET Peers /\ steady' \cap workers \subseteq workers'
  BY DEF TypeOK, register, unregister
<1>4. TypeOK'
  BY <1>1, <1>2, <1>3 DEF TypeOK, readVars, nodeVars, Ids
<1>5. SteadyKept'
  BY <1>1, <1>3 DEF SteadyKept, readVars, valid
<1>6. PagesGathered'
  BY <1>1 DEF PagesGathered, readVars, valid
<1> QED
  BY <1>1, <1>4, <1>5, <1>6 DEF AllowFollowsRegistered, NoneMissed, nodeVars

\* A read pins the block and starts with no page.
LEMMA BeginInv == AllowInv /\ read_begin => AllowInv'
<1> SUFFICES ASSUME AllowInv, read_begin PROVE AllowInv'
  OBVIOUS
<1> USE DEF AllowInv, read_begin, chainVars, nodeVars
<1>1. Len(gateways) \in Nat /\ valid(gateways) \in SUBSET Peers
  BY LenProperties, ValidArePeers DEF TypeOK, Ids
<1>2. page' * PageSize = 0
  BY SizesAssumption
<1>3. TypeOK'
  BY <1>1, <1>2, SizesAssumption DEF TypeOK, Active
<1>4. SteadyKept'
  BY DEF SteadyKept, Active, valid
<1>5. PagesGathered'
  BY <1>1, <1>2 DEF PagesGathered
<1> QED
  BY <1>3, <1>4, <1>5 DEF AllowFollowsRegistered, NoneMissed

\* A page is added; a short one is the last, and then nothing is left.
LEMMA PageInv == AllowInv /\ read_page => AllowInv'
<1> SUFFICES ASSUME AllowInv, read_page PROVE AllowInv'
  OBVIOUS
<1> USE DEF AllowInv
<1> DEFINE a == page * PageSize
           n == Len(latest_block)
<1>0. /\ phase = "gateways" /\ a <= n
      /\ \A i \in 1..a : latest_block[i] \in active_gateways \cup {BadId}
      /\ page \in Nat /\ a \in Nat /\ n \in Nat /\ PageSize \in Nat \ {0}
      /\ page' = page + 1 /\ page' * PageSize = a + PageSize
  BY LenProperties, SizesAssumption DEF read_page, PagesGathered, TypeOK
<1> HIDE DEF a
<1>1. PICK b \in Nat :
         /\ a <= b /\ b <= n /\ b <= a + PageSize
         /\ b < a + PageSize => b = n
         /\ PageIds \in Seq(Ids)
         /\ Len(PageIds) = b - a
         /\ \A i \in 1..(b - a) : PageIds[i] = latest_block[a + i]
  BY <1>0, PageProperties DEF a
<1>2. /\ active_gateways' = active_gateways \cup valid(PageIds)
      /\ phase' = IF b - a < PageSize THEN "workers" ELSE "gateways"
      /\ UNCHANGED <<chainVars, failures, latest_block, nodeVars, steady, missed>>
  BY <1>1 DEF read_page, IsLastPage
<1>3. active_gateways' \in SUBSET Peers
  BY <1>1, <1>2, ValidArePeers DEF TypeOK
<1>4. TypeOK'
  <2>1. page' \in Nat /\ page' * PageSize <= Len(latest_block') + PageSize
    BY <1>0, <1>2
  <2> QED
    BY <1>2, <1>3, <2>1 DEF TypeOK, chainVars, nodeVars
<1>5. SteadyKept'
  BY <1>0, <1>2 DEF SteadyKept, chainVars, valid
<1>6. \A i \in 1..b : latest_block[i] \in active_gateways' \cup {BadId}
  <2> SUFFICES ASSUME NEW i \in 1..b, latest_block[i] # BadId
               PROVE  latest_block[i] \in active_gateways'
    OBVIOUS
  <2>1. CASE i <= a
    BY <1>0, <1>2, <2>1
  <2>2. CASE i > a
    <3>1. i - a \in 1..(b - a) /\ PageIds[i - a] = latest_block[i]
      BY <1>0, <1>1, <2>2
    <3> QED
      BY <1>1, <1>2, <3>1, ValidArePeers
  <2> QED
    BY <1>0, <2>1, <2>2
<1>7. PagesGathered'
  <2>1. CASE b - a < PageSize
    <3>1. b = n
      BY <1>0, <1>1, <2>1
    <3>2. valid(latest_block) \subseteq active_gateways'
      BY <1>6, <3>1, ValidArePeers DEF TypeOK, Ids
    <3> QED
      BY <1>2, <2>1, <3>2 DEF PagesGathered, valid
  <2>2. CASE ~(b - a < PageSize)
    <3>1. b = a + PageSize
      BY <1>0, <1>1, <2>2
    <3>2. phase' = "gateways" /\ latest_block' = latest_block
      BY <1>2, <2>2
    <3> QED
      BY <1>0, <1>1, <1>6, <3>1, <3>2 DEF PagesGathered
  <2> QED
    BY <2>1, <2>2
<1> QED
  BY <1>2, <1>4, <1>5, <1>7 DEF AllowFollowsRegistered, NoneMissed, nodeVars

\* The workers complete a read: it has all steady nodes, and the allow list follows.
LEMMA WorkersInv == AllowInv /\ read_workers => AllowInv'
<1> SUFFICES ASSUME AllowInv, read_workers PROVE AllowInv'
  OBVIOUS
<1> USE DEF AllowInv
<1> DEFINE nodes == active_gateways \cup workers
<1>1. /\ phase = "workers" /\ phase' = "idle" /\ on_nodes_update(nodes)
      /\ missed' = missed \cup (steady \ nodes)
      /\ UNCHANGED <<chainVars, failures, latest_block, page, active_gateways, steady>>
  BY DEF read_workers
<1>2. steady \subseteq nodes
  BY <1>1 DEF SteadyKept, PagesGathered
<1>3. nodes \in SUBSET Peers
  BY DEF TypeOK
<1> HIDE DEF nodes
<1>4. /\ registered_nodes' = nodes
      /\ \/ allow' = allow /\ registered_nodes = nodes
         \/ allow' = (allow \ (registered_nodes \ nodes)) \cup (nodes \ registered_nodes)
  BY <1>1 DEF on_nodes_update, Unchanged, KeepNodes, nodeVars
<1>5. AllowFollowsRegistered'
  BY <1>4 DEF AllowFollowsRegistered
<1>6. NoneMissed'
  BY <1>1, <1>2 DEF NoneMissed
<1>7. TypeOK'
  BY <1>1, <1>3, <1>4, <1>6 DEF TypeOK, chainVars, NoneMissed
<1>8. SteadyKept' /\ PagesGathered'
  BY <1>1 DEF SteadyKept, PagesGathered
<1> QED
  BY <1>5, <1>6, <1>7, <1>8

\* A failed read changes nothing.
LEMMA FailedInv == AllowInv /\ read_failed => AllowInv'
<1> SUFFICES ASSUME AllowInv, read_failed PROVE AllowInv'
  OBVIOUS
<1> USE DEF AllowInv, read_failed
<1>1. TypeOK'
  BY SizesAssumption DEF TypeOK, chainVars, nodeVars
<1> QED
  BY <1>1 DEF SteadyKept, PagesGathered, AllowFollowsRegistered, NoneMissed, nodeVars

\* The invariant holds always: the chain changes between any two reads of pages, and
\* any of them may fail.
THEOREM AllowInvariant == Spec => []AllowInv
<1>1. AllowInv /\ [Next]_vars => AllowInv'
  <2> SUFFICES ASSUME AllowInv, [Next]_vars PROVE AllowInv'
    OBVIOUS
  <2>1. CASE UNCHANGED vars
    BY <2>1 DEF vars, chainVars, readVars, nodeVars, AllowInv, TypeOK, SteadyKept,
       PagesGathered, AllowFollowsRegistered, NoneMissed, valid
  <2>2. CASE Next
    BY <2>2, ChainInv, BeginInv, PageInv, WorkersInv, FailedInv DEF Next, Ids
  <2> QED
    BY <2>1, <2>2
<1> QED
  BY InitInv, <1>1, PTL DEF Spec

\* Type correctness: only peers get into the allow list, and no page is read past
\* the end of the registry.
THEOREM AllowTyping == Spec => []TypeOK
BY AllowInvariant, PTL DEF AllowInv

\* on_nodes_update, which works by differences, never drifts: all registered nodes
\* are allowed, and nobody else but those that were allowed explicitly.
THEOREM AllowFollows == Spec => []AllowFollowsRegistered
BY AllowInvariant, PTL DEF AllowInv

\* A read that succeeds returns every node that kept its role while it ran, for any
\* page size and although the registry changes between the pages.
THEOREM NobodyMissed == Spec => []NoneMissed
BY AllowInvariant, PTL DEF AllowInv
==============================================================================
