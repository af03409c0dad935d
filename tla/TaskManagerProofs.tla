-------------------------- MODULE TaskManagerProofs --------------------------
(* Shutdown and cancellation of TaskManager, for any tasks.                   *)
EXTENDS TaskManager, TLAPS

(* ------------------------------------------------------------------------ *)
(* The inductive invariant                                                  *)
(* ------------------------------------------------------------------------ *)

\* No handle gets lost: a task that was spawned is the manager's while it is
\* live; from await_stop on it is cancelled, and waited for, timed out or ended.
HandlesKept ==
    /\ phase = "live" =>
          \A t \in Tasks : state[t] # "unspawned" => t \in tasks
    /\ phase # "live" =>
          /\ cancel_token
          /\ \A t \in Tasks : state[t] \in Alive => t \in joining \cup timedOut
    /\ phase = "stopped" => joining = {}

\* Tokens are cancelled by the owner or by the task they were given to.
TokensOwned ==
    /\ cancel_token => asked
    /\ child_tokens \subseteq broke

ManagerInv == TypeOK /\ HandlesKept /\ TokensOwned

\* TaskManager::new.
LEMMA InitInv == Init => ManagerInv
<1> SUFFICES ASSUME Init PROVE ManagerInv
  OBVIOUS
<1>1. TypeOK
  <2>1. cancel_token \in BOOLEAN /\ asked \in BOOLEAN
    BY Zenon DEF Init
  <2>2. due \in [Tasks -> 0..MaxDue]
    BY MaxDueAssumption DEF Init
  <2>3. state \in [Tasks -> Alive \cup Ended \cup {"unspawned"}]
    BY DEF Init
  <2> QED
    BY <2>1, <2>2, <2>3 DEF Init, TypeOK
<1>2. HandlesKept /\ TokensOwned
  BY DEF Init, HandlesKept, TokensOwned
<1> QED
  BY <1>1, <1>2 DEF ManagerInv

\* spawn registers the handle of the task it starts.
LEMMA SpawnInv == ASSUME ManagerInv, NEW t \in Tasks, spawn(t) PROVE ManagerInv'
<1> USE DEF ManagerInv, spawn, history
<1>1. TypeOK'
  BY DEF TypeOK, Alive, Ended
<1>2. HandlesKept'
  BY DEF TypeOK, HandlesKept
<1>3. TokensOwned'
  BY DEF TokensOwned
<1> QED
  BY <1>1, <1>2, <1>3

\* The owner cancels, or stops: every handle is then waited for.
LEMMA OwnerInv == ManagerInv /\ (cancel \/ await_stop \/ stopped) => ManagerInv'
<1> SUFFICES ASSUME ManagerInv, cancel \/ await_stop \/ stopped PROVE ManagerInv'
  OBVIOUS
<1> USE DEF ManagerInv, TypeOK, HandlesKept, TokensOwned
<1>1. CASE cancel
  BY <1>1 DEF cancel
<1>2. CASE await_stop
  BY <1>2 DEF await_stop, CancelAll, Alive
<1>3. CASE stopped
  BY <1>3 DEF stopped, history
<1> QED
  BY <1>1, <1>2, <1>3

\* await_stop gives up a handle when its task has ended or timed out.
LEMMA JoinInv ==
    ASSUME ManagerInv, NEW t \in Tasks, join(t) \/ join_timeout(t) PROVE ManagerInv'
<1> USE DEF ManagerInv
<1>1. phase' = phase /\ cancel_token' = cancel_token /\ state' = state /\ tasks' = tasks
  BY DEF join, join_timeout
<1>2. TypeOK'
  BY DEF TypeOK, join, join_timeout, history
<1>3. HandlesKept'
  <2>1. CASE join(t)
    <3>1. state[t] \notin Alive
      BY <2>1 DEF join, Alive, Ended
    <3> QED
      BY <1>1, <2>1, <3>1 DEF HandlesKept, join, history
  <2>2. CASE join_timeout(t)
    BY <1>1, <2>2 DEF HandlesKept, join_timeout
  <2> QED
    BY <2>1, <2>2
<1>4. TokensOwned'
  BY DEF TokensOwned, join, join_timeout, history
<1> QED
  BY <1>2, <1>3, <1>4

\* A task goes on, ends or cancels its own token; none comes to life again.
LEMMA TaskInv ==
    ASSUME ManagerInv, NEW t \in Tasks,
           \/ tick_due(t) \/ select_tick(t) \/ select_cancelled(t)
           \/ complete(t) \/ panic(t) \/ break_loop(t)
    PROVE  ManagerInv'
<1> USE DEF ManagerInv
<1>1. /\ UNCHANGED <<tasks, phase, joining, cancel_token, asked, timedOut>>
      /\ \/ UNCHANGED <<child_tokens, broke>>
         \/ child_tokens' = child_tokens \cup {t} /\ broke' = broke \cup {t}
  BY DEF tick_due, select_tick, select_cancelled, complete, panic, break_loop, CancelOwn,
     managerVars, history
<1>2. /\ state' \in [Tasks -> Alive \cup Ended \cup {"unspawned"}]
      /\ \A u \in Tasks : state'[u] \in Alive => state[u] \in Alive
      /\ \A u \in Tasks : state'[u] # "unspawned" => state[u] # "unspawned"
  BY DEF TypeOK, tick_due, select_tick, select_cancelled, complete, panic, break_loop,
     Alive, Ended
<1>3. due' \in [Tasks -> 0..MaxDue]
  BY MaxDueAssumption DEF TypeOK, tick_due, select_tick, select_cancelled, complete, panic,
     break_loop
<1>4. TypeOK'
  BY <1>1, <1>2, <1>3 DEF TypeOK
<1>5. HandlesKept'
  BY <1>1, <1>2 DEF HandlesKept
<1>6. TokensOwned'
  BY <1>1 DEF TokensOwned
<1> QED
  BY <1>4, <1>5, <1>6

\* The books of the manager hold always, however tasks, ticks and calls interleave.
THEOREM ManagerInvariant == Spec => []ManagerInv
<1>1. ManagerInv /\ [Next]_vars => ManagerInv'
  <2> SUFFICES ASSUME ManagerInv, [Next]_vars PROVE ManagerInv'
    OBVIOUS
  <2>1. CASE UNCHANGED vars
    BY <2>1 DEF vars, managerVars, history, ManagerInv, TypeOK, HandlesKept, TokensOwned
  <2>2. CASE Next
    BY <2>2, OwnerInv, SpawnInv, JoinInv, TaskInv DEF Next
  <2> QED
    BY <2>1, <2>2
<1> QED
  BY InitInv, <1>1, PTL DEF Spec

\* Type correctness: an interval never gives a tick it does not have.
THEOREM ManagerTyping == Spec => []TypeOK
BY ManagerInvariant, PTL DEF ManagerInv

\* When await_stop, or Drop, returns, a task that is still alive has been cancelled
\* and was waited for until its shutdown_timeout.
THEOREM StopReachesAll == Spec => []StopReachesEveryTask
<1>1. ManagerInv => StopReachesEveryTask
  BY DEF ManagerInv, HandlesKept, StopReachesEveryTask, Cancelled
<1> QED
  BY ManagerInvariant, <1>1, PTL

\* A task that cancels the token it was given cancels no other task.
THEOREM CancelsAreLocal == Spec => []CancelIsLocal
<1>1. ManagerInv => CancelIsLocal
  BY DEF ManagerInv, TokensOwned, CancelIsLocal, Cancelled
<1> QED
  BY ManagerInvariant, <1>1, PTL
==============================================================================
