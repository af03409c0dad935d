---------------------------- MODULE TaskManager ----------------------------
(* TaskManager (transport/src/util/task_manager.rs): the background tasks of  *)
(* a node, their cancellation tokens, periodic tasks and the bounded shutdown.*)
(*                                                                            *)
(* External: tokio.  A child token counts as cancelled when it or its parent  *)
(* is; an interval keeps every tick that fell due while its task was busy     *)
(* (MissedTickBehavior::Burst) and select! picks at random among the branches *)
(* that are ready.                                                            *)
EXTENDS Integers, FiniteSets

CONSTANTS
    Plain, Periodic,  \* tasks given to spawn and to spawn_periodic
    MaxDue            \* bound: ticks an interval keeps

Tasks == Plain \cup Periodic

ASSUME KindsAssumption == Plain \cap Periodic = {}
ASSUME MaxDueAssumption == MaxDue \in Nat \ {0}

VARIABLES
    cancel_token,  \* the manager's token is cancelled
    child_tokens,  \* tasks whose own token is cancelled
    tasks,         \* tasks whose handles the manager owns
    phase,         \* where await_stop is
    joining,       \* handles await_stop still waits for
    state,         \* external: what each task does
    due,           \* external: ticks an interval has ready
    asked,         \* history: cancel or await_stop was called
    broke,         \* history: tasks that cancelled the token they were given
    timedOut       \* history: tasks whose shutdown_timeout elapsed

managerVars == <<cancel_token, tasks, phase, joining>>
history == <<asked, broke, timedOut>>
vars == <<managerVars, child_tokens, state, due, history>>

Alive == {"selecting", "running"}
Ended == {"finished", "panicked"}

Init ==
    /\ cancel_token = FALSE
    /\ child_tokens = {}
    /\ tasks = {}
    /\ phase = "live"
    /\ joining = {}
    /\ state = [t \in Tasks |-> "unspawned"]
    /\ due = [t \in Tasks |-> 0]
    /\ asked = FALSE
    /\ broke = {}
    /\ timedOut = {}

\* is_cancelled() on the token a task was given.
Cancelled(t) == cancel_token \/ t \in child_tokens

(* ------------------------------------------------------------------------ *)
(* The manager's owner                                                      *)
(* ------------------------------------------------------------------------ *)

\* spawn and spawn_periodic; they panic once the token is cancelled.  A plain
\* task runs at once, a periodic one waits for its interval.
spawn(t) ==
    /\ phase = "live"
    /\ ~cancel_token
    /\ state[t] = "unspawned"
    /\ tasks' = tasks \cup {t}
    /\ state' = [state EXCEPT ![t] = IF t \in Periodic THEN "selecting" ELSE "running"]
    /\ UNCHANGED <<cancel_token, child_tokens, phase, joining, due, history>>

cancel ==
    /\ phase = "live"
    /\ cancel_token' = TRUE
    /\ asked' = TRUE
    /\ UNCHANGED <<child_tokens, tasks, phase, joining, state, due, broke, timedOut>>

CancelAll_Forgotten == cancel_token' = cancel_token

\* The cancel at the start of await_stop.
CancelAll == cancel_token' = TRUE

\* await_stop, also from Drop: cancel, then wait for all handles.
await_stop ==
    /\ phase = "live"
    /\ phase' = "stopping"
    /\ CancelAll
    /\ asked' = TRUE
    /\ joining' = tasks
    /\ tasks' = {}
    /\ UNCHANGED <<child_tokens, state, due, broke, timedOut>>

\* A handle resolves: its task finished or panicked.
join(t) ==
    /\ t \in joining
    /\ state[t] \in Ended
    /\ joining' = joining \ {t}
    /\ UNCHANGED <<cancel_token, child_tokens, tasks, phase, state, due, history>>

join_timeout_Forever(t) ==
    /\ t \in joining
    /\ UNCHANGED vars

\* shutdown_timeout elapses first; the handle is dropped, the task goes on.
join_timeout(t) ==
    /\ t \in joining
    /\ state[t] \in Alive
    /\ joining' = joining \ {t}
    /\ timedOut' = timedOut \cup {t}
    /\ UNCHANGED <<cancel_token, child_tokens, tasks, phase, state, due, asked, broke>>

stopped ==
    /\ phase = "stopping"
    /\ joining = {}
    /\ phase' = "stopped"
    /\ UNCHANGED <<cancel_token, child_tokens, tasks, joining, state, due, history>>

(* ------------------------------------------------------------------------ *)
(* The tasks                                                                *)
(* ------------------------------------------------------------------------ *)

\* An interval runs from the moment the task is spawned.
tick_due(t) ==
    /\ t \in Periodic
    /\ state[t] \in Alive
    /\ due[t] < MaxDue
    /\ due' = [due EXCEPT ![t] = @ + 1]
    /\ UNCHANGED <<managerVars, child_tokens, state, history>>

select_tick_Early(t) ==
    /\ state[t] = "selecting"
    /\ due' = [due EXCEPT ![t] = @ - 1]
    /\ state' = [state EXCEPT ![t] = "running"]
    /\ UNCHANGED <<managerVars, child_tokens, history>>

\* The select! of spawn_periodic takes its first branch ...
select_tick(t) ==
    /\ state[t] = "selecting"
    /\ due[t] > 0
    /\ due' = [due EXCEPT ![t] = @ - 1]
    /\ state' = [state EXCEPT ![t] = "running"]
    /\ UNCHANGED <<managerVars, child_tokens, history>>

select_cancelled_OwnerOnly(t) ==
    /\ state[t] = "selecting"
    /\ cancel_token
    /\ state' = [state EXCEPT ![t] = "finished"]
    /\ UNCHANGED <<managerVars, child_tokens, due, history>>

\* ... or its second one, and the loop ends.
select_cancelled(t) ==
    /\ state[t] = "selecting"
    /\ Cancelled(t)
    /\ state' = [state EXCEPT ![t] = "finished"]
    /\ UNCHANGED <<managerVars, child_tokens, due, history>>

\* The future of a task completes: the loop of a periodic task goes on.
complete(t) ==
    /\ state[t] = "running"
    /\ state' = [state EXCEPT ![t] = IF t \in Periodic THEN "selecting" ELSE "finished"]
    /\ UNCHANGED <<managerVars, child_tokens, due, history>>

panic(t) ==
    /\ state[t] = "running"
    /\ state' = [state EXCEPT ![t] = "panicked"]
    /\ UNCHANGED <<managerVars, child_tokens, due, history>>

CancelOwn_Parent(t) ==
    /\ cancel_token' = TRUE
    /\ UNCHANGED child_tokens

\* The token given to a task is a child: cancelling it reaches no other task.
CancelOwn(t) ==
    /\ child_tokens' = child_tokens \cup {t}
    /\ UNCHANGED cancel_token

\* A running task cancels the token it was given.
break_loop(t) ==
    /\ state[t] = "running"
    /\ CancelOwn(t)
    /\ broke' = broke \cup {t}
    /\ UNCHANGED <<tasks, phase, joining, state, due, asked, timedOut>>

Next ==
    \/ cancel
    \/ await_stop
    \/ stopped
    \/ \E t \in Tasks :
          \/ spawn(t)
          \/ join(t)
          \/ join_timeout(t)
          \/ tick_due(t)
          \/ select_tick(t)
          \/ select_cancelled(t)
          \/ complete(t)
          \/ panic(t)
          \/ break_loop(t)

Spec == Init /\ [][Next]_vars

\* The runtime runs the tasks that are ready and its timers fire.  select! has
\* no `biased`: as long as both branches keep being ready, the second one is
\* taken at some time.  Plain tasks may hang; a periodic task's future ends.
Fairness ==
    /\ WF_vars(stopped)
    /\ \A t \in Tasks : WF_vars(join(t) \/ join_timeout(t))
    /\ \A t \in Periodic : WF_vars(complete(t)) /\ SF_vars(select_cancelled(t))

FairSpec == Spec /\ Fairness

(* ------------------------------------------------------------------------ *)
(* Properties                                                               *)
(* ------------------------------------------------------------------------ *)

\* Every variable has its type.
TypeOK ==
    /\ cancel_token \in BOOLEAN
    /\ child_tokens \in SUBSET Tasks
    /\ tasks \in SUBSET Tasks
    /\ phase \in {"live", "stopping", "stopped"}
    /\ joining \in SUBSET Tasks
    /\ state \in [Tasks -> Alive \cup Ended \cup {"unspawned"}]
    /\ due \in [Tasks -> 0..MaxDue]
    /\ asked \in BOOLEAN
    /\ broke \in SUBSET Tasks
    /\ timedOut \in SUBSET Tasks

\* "makes sure all them are cancelled when it is dropped": once await_stop is
\* over, a task that is still alive has been told to stop and was given up on
\* only after its timeout; none was overlooked.
StopReachesEveryTask ==
    phase = "stopped" => \A t \in Tasks :
        state[t] \in Alive => Cancelled(t) /\ t \in timedOut

\* A task is told to stop only by the owner or by itself, never because another
\* periodic task broke its loop.
CancelIsLocal ==
    \A t \in Tasks : Cancelled(t) => asked \/ t \in broke

\* await_stop, and so Drop, ends even if tasks hang.
StopEnds == phase = "stopping" ~> phase = "stopped"

\* A periodic task whose token is cancelled ends, also when its runs take longer
\* than its interval and a tick is always ready.
PeriodicTasksEnd ==
    \A t \in Periodic :
        state[t] \in Alive /\ Cancelled(t) ~> state[t] \in Ended

\* "Task should get cancelled after second run and only execute twice": a
\* periodic task that cancelled its own token does not run again.
NoRunAfterCancel ==
    [][\A t \in Periodic :
          t \in child_tokens /\ state[t] = "selecting" => state'[t] # "running"]_vars
=============================================================================
