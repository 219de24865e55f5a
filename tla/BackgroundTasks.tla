--------------------------- MODULE BackgroundTasks --------------------------
(***************************************************************************)
(* The background sub-agents of the summon extension:                      *)
(* crates/goose/src/agents/platform_extensions/summon.rs.                  *)
(*                                                                         *)
(* A client keeps a map of running tasks and a map of finished ones, each  *)
(* under a lock.  Every operation first moves the finished tasks from one  *)
(* to the other.  A call that waits for a task, or stops it, has taken it  *)
(* out of the map; a call that goes away (a reply cancelled or dropped)    *)
(* loses what it holds: the task runs on and nobody can name it.           *)
(***************************************************************************)
EXTENDS Naturals, FiniteSets

CONSTANTS
  Callers,    \* tool calls and prompts that use the client at one time
  Tasks,      \* session ids of sub-agents, numbers handed out in order
  MaxTasks,   \* max_background_tasks()
  None

ASSUME MaxTasksPositive == MaxTasks \in Nat \ {0}
ASSUME CallersFinite == IsFiniteSet(Callers) /\ None \notin Callers
ASSUME TasksNumbered == Tasks \subseteq Nat \ {0}

VARIABLES
  background,   \* background_tasks
  completed,    \* completed_tasks
  lock,         \* who holds the lock of each map
  at,           \* where each call is
  call,         \* the task a call looks for, and whether to stop it; alone is
                \* history: no other call was open while this one was
  hands,        \* the tasks it has taken out of both maps
  running,      \* sub-agents that execute
  cancelled,    \* those whose token is cancelled
  aborted,      \* those whose handle was aborted
  closed,       \* the client was dropped
  given, lost   \* history: tasks whose result was handed out, or dropped

taskVars == <<running, cancelled, aborted>>
vars == <<background, completed, lock, at, call, hands, running, cancelled,
          aborted, closed, given, lost>>

Points == {"idle", "sweep", "sort", "swept", "build", "register", "find", "missing",
           "wait", "back", "stop", "inline", "status"}

Spawned == background \cup completed \cup given \cup lost \cup UNION {hands[c] : c \in Callers}

NoCall == [target |-> 0, cancel |-> FALSE, alone |-> TRUE]

Goto(c, point) ==
  /\ at' = [at EXCEPT ![c] = point]
  /\ call' = IF point = "idle" THEN [call EXCEPT ![c] = NoCall] ELSE call

Take(c, S) == hands' = [hands EXCEPT ![c] = S]

\* c may enter the critical section of map m
Free(c, m) == lock[m] \in {None, c}

Init ==
  /\ background = {} /\ completed = {}
  /\ lock = [m \in {"background", "completed"} |-> None]
  /\ at = [c \in Callers |-> "idle"]
  /\ call = [c \in Callers |-> NoCall]
  /\ hands = [c \in Callers |-> {}]
  /\ running = {} /\ cancelled = {} /\ aborted = {}
  /\ closed = FALSE
  /\ given = {} /\ lost = {}

-----------------------------------------------------------------------------
\* A call begins: load, delegate, list_tools or get_moim.  All sweep first.

Begin(c) ==
  /\ ~closed
  /\ at[c] = "idle"
  /\ LET first == \A d \in Callers : at[d] = "idle"
     IN  call' = [d \in Callers |->
           IF at[d] = "idle" THEN [NoCall EXCEPT !.alone = (d = c => first)]
           ELSE [call[d] EXCEPT !.alone = FALSE]]
  /\ at' = [at EXCEPT ![c] = "sweep"]
  /\ UNCHANGED <<background, completed, lock, hands, taskVars, closed, given, lost>>

\* cleanup_completed_tasks takes the finished tasks out of one map ...
Sweep(c) ==
  /\ at[c] = "sweep" /\ Free(c, "background")
  /\ LET finished == background \ running
     IN  /\ background' = background \ finished
         /\ Take(c, finished)
  /\ Goto(c, "sort")
  /\ UNCHANGED <<completed, lock, taskVars, closed, given, lost>>

\* ... and puts them into the other
Sort(c) ==
  /\ at[c] = "sort" /\ Free(c, "completed")
  /\ completed' = completed \cup hands[c]
  /\ Take(c, {})
  /\ Goto(c, "swept")
  /\ UNCHANGED <<background, lock, taskVars, closed, given, lost>>

\* list_tools is done; so is a call with wrong parameters, or one that only
\* reads what there is to load
Answered(c) ==
  /\ at[c] = "swept"
  /\ Goto(c, "idle")
  /\ UNCHANGED <<background, completed, lock, hands, taskVars, closed, given, lost>>

-----------------------------------------------------------------------------
\* Delegation

HasRoomForOneMore == Cardinality(background) <= MaxTasks
HasRoom == Cardinality(background) < MaxTasks

Count(c) ==
  /\ at[c] = "swept" /\ Free(c, "background")
  /\ Goto(c, IF HasRoom THEN "build" ELSE "idle")
  /\ UNCHANGED <<background, completed, lock, hands, taskVars, closed, given, lost>>

BuildFails(c) ==
  /\ at[c] = "build"
  /\ Goto(c, "idle")
  /\ UNCHANGED <<background, completed, lock, hands, taskVars, closed, given, lost>>

Spawn(c, t) ==
  /\ at[c] = "build"
  /\ t \notin Spawned /\ \A u \in Tasks : u < t => u \in Spawned
  /\ running' = running \cup {t}
  /\ Take(c, {t})
  /\ Goto(c, "register")
  /\ UNCHANGED <<background, completed, lock, cancelled, aborted, closed, given, lost>>

Register(c) ==
  /\ at[c] \in {"register", "back"} /\ Free(c, "background")
  /\ background' = background \cup hands[c]
  /\ Take(c, {})
  /\ Goto(c, "idle")
  /\ UNCHANGED <<completed, lock, taskVars, closed, given, lost>>

\* a delegation that is not async runs inside the call
Inline(c) ==
  /\ at[c] = "swept"
  /\ Goto(c, "inline")
  /\ UNCHANGED <<background, completed, lock, hands, taskVars, closed, given, lost>>

InlineEnds(c) ==
  /\ at[c] = "inline"
  /\ Goto(c, "idle")
  /\ UNCHANGED <<background, completed, lock, hands, taskVars, closed, given, lost>>

-----------------------------------------------------------------------------
\* Loading a result

\* a lookup removes what it finds
WithoutIgnored(S, t) == S
Without(S, t) == S \ {t}

\* drop(completed) before the other lock is taken
AfterMissHeld(c) == c
AfterMiss(c) == None

\* t is the id of some sub-agent; any other id is in neither map
LookCompleted(c, t, cancel) ==
  /\ at[c] = "swept" /\ Free(c, "completed")
  /\ IF t \in completed
       THEN /\ completed' = Without(completed, t)
            /\ given' = given \cup {t}
            /\ Goto(c, "idle")
            /\ UNCHANGED lock
       ELSE /\ lock' = [lock EXCEPT !["completed"] = AfterMiss(c)]
            /\ at' = [at EXCEPT ![c] = "find"]
            /\ call' = [call EXCEPT ![c].target = t, ![c].cancel = cancel]
            /\ UNCHANGED <<completed, given>>
  /\ UNCHANGED <<background, hands, taskVars, closed, lost>>

IsRegisteredUnfinished(t) == t \in background \cap running
IsRegistered(t) == t \in background

FindRunning(c) ==
  /\ at[c] = "find" /\ Free(c, "background")
  /\ IF IsRegistered(call[c].target)
       THEN /\ background' = Without(background, call[c].target)
            /\ Take(c, {call[c].target})
            /\ cancelled' = IF call[c].cancel THEN cancelled \cup ({call[c].target} \cap running) ELSE cancelled
            /\ Goto(c, IF call[c].cancel THEN "stop" ELSE "wait")
       ELSE /\ Goto(c, "missing")
            /\ UNCHANGED <<background, hands, cancelled>>
  /\ UNCHANGED <<completed, lock, running, aborted, closed, given, lost>>

\* "Task not found"
Missing(c) ==
  /\ at[c] = "missing"
  /\ Goto(c, "idle")
  /\ UNCHANGED <<background, completed, lock, hands, taskVars, closed, given, lost>>

\* the task the call waits for, or stops, has ended
Collect(c) ==
  /\ at[c] \in {"wait", "stop"}
  /\ hands[c] \cap running = {}
  /\ given' = given \cup hands[c]
  /\ Take(c, {})
  /\ Goto(c, "idle")
  /\ UNCHANGED <<background, completed, lock, taskVars, closed, lost>>

\* five minutes are over: the task goes back where it was
WaitTimeout(c) ==
  /\ at[c] = "wait"
  /\ Goto(c, "back")
  /\ UNCHANGED <<background, completed, lock, hands, taskVars, closed, given, lost>>

\* five seconds are over: the handle is aborted and the call answers so
AbortsNone(c) == {}
Aborts(c) == hands[c] \cap running
StopTimeout(c) ==
  /\ at[c] = "stop"
  /\ aborted' = aborted \cup Aborts(c)
  /\ given' = given \cup hands[c]
  /\ Take(c, {})
  /\ Goto(c, "idle")
  /\ UNCHANGED <<background, completed, lock, running, cancelled, closed, lost>>

-----------------------------------------------------------------------------
\* get_moim holds the first lock while it takes the second

StatusRunning(c) ==
  /\ at[c] = "swept" /\ Free(c, "background")
  /\ lock' = [lock EXCEPT !["background"] = c]
  /\ Goto(c, "status")
  /\ UNCHANGED <<background, completed, hands, taskVars, closed, given, lost>>

StatusCompleted(c) ==
  /\ at[c] = "status" /\ Free(c, "completed")
  /\ lock' = [lock EXCEPT !["background"] = None]
  /\ Goto(c, "idle")
  /\ UNCHANGED <<background, completed, hands, taskVars, closed, given, lost>>

-----------------------------------------------------------------------------
\* The call goes away at an await.  Locks are given back; a dropped handle
\* detaches its task, and a dropped token cancels nothing.
Drop(c) ==
  /\ at[c] \notin {"idle", "missing"}
  /\ lost' = lost \cup hands[c]
  /\ Take(c, {})
  /\ lock' = [m \in DOMAIN lock |-> IF lock[m] = c THEN None ELSE lock[m]]
  /\ Goto(c, "idle")
  /\ UNCHANGED <<background, completed, taskVars, closed, given>>

TaskEnds(t) ==
  /\ t \in running
  /\ running' = running \ {t}
  /\ cancelled' = cancelled \ {t} /\ aborted' = aborted \ {t}
  /\ UNCHANGED <<background, completed, lock, at, call, hands, closed, given, lost>>

\* Drop of SummonClient, which open calls keep alive: the tokens of the tasks
\* in the map are cancelled
Shutdown ==
  /\ ~closed
  /\ \A c \in Callers : at[c] = "idle"
  /\ closed' = TRUE
  /\ cancelled' = cancelled \cup (background \cap running)
  /\ UNCHANGED <<background, completed, lock, at, call, hands, running, aborted, given, lost>>

-----------------------------------------------------------------------------
Proceed(c) ==
  \/ Sweep(c) \/ Sort(c) \/ Answered(c) \/ Count(c) \/ BuildFails(c) \/ (\E t \in Tasks : Spawn(c, t)) \/ Register(c)
  \/ (\E t \in Spawned, cancel \in BOOLEAN : LookCompleted(c, t, cancel)) \/ FindRunning(c) \/ Missing(c)
  \/ Collect(c) \/ WaitTimeout(c) \/ StopTimeout(c)
  \/ StatusRunning(c) \/ StatusCompleted(c)

Next ==
  \/ \E c \in Callers : Begin(c) \/ Proceed(c) \/ Inline(c) \/ InlineEnds(c) \/ Drop(c)
  \/ \E t \in Tasks : TaskEnds(t)
  \/ Shutdown

\* Locks are fair queues and every other wait of a call has a timer.  A task
\* need not end by itself.
Fairness == \A c \in Callers : SF_vars(Proceed(c))

Spec == Init /\ [][Next]_vars /\ Fairness

-----------------------------------------------------------------------------
\* Every variable holds a value of its type; a lock is held across a step
\* only by get_moim.
TypeOK ==
  /\ background \subseteq Tasks /\ completed \subseteq Tasks
  /\ lock \in [{"background", "completed"} -> Callers \cup {None}]
  /\ lock["completed"] = None
  /\ \A c \in Callers : lock["background"] = c <=> at[c] = "status"
  /\ at \in [Callers -> Points]
  /\ call \in [Callers -> [target : Tasks \cup {0}, cancel : BOOLEAN, alone : BOOLEAN]]
  /\ hands \in [Callers -> SUBSET Tasks]
  /\ running \subseteq Tasks /\ cancelled \subseteq running /\ aborted \subseteq running
  /\ closed \in BOOLEAN
  /\ given \subseteq Tasks /\ lost \subseteq Tasks

\* A task is in one place: in one of the maps, in the hands of one call, or
\* its result was handed out, or its call went away.  So a result is given
\* once, and only a dropped call loses a task, however sweeps, waits, stops
\* and time limits interleave.
OnePlace ==
  /\ background \cap completed = {}
  /\ (background \cup completed) \cap (given \cup lost) = {}
  /\ given \cap lost = {}
  /\ \A c \in Callers : hands[c] \cap (background \cup completed \cup given \cup lost) = {}
  /\ \A c, d \in Callers : c # d => hands[c] \cap hands[d] = {}

\* Nothing runs unattended: a task whose result was given runs on only if it
\* was aborted, and when the client is gone every task that runs was told to
\* stop, except those that dropped calls have lost.
NoneUnattended ==
  \A t \in running :
    /\ t \in given => t \in aborted
    /\ closed => t \in cancelled \cup aborted \cup lost

\* The count and the insertion are separate, and a task that is waited for
\* is not counted: each call but one may add a task above the limit, none
\* more than one.  With one call at a time the limit holds.
LimitBound == Cardinality(background) <= MaxTasks + Cardinality(Callers) - 1

\* A call during which no other was open says "not found" only of a task
\* that neither map holds.
NotFoundAlone ==
  \A c \in Callers : at[c] = "missing" /\ call[c].alone => call[c].target \notin background \cup completed

\* Every call but an inline delegation returns: the two locks are never
\* waited for in a circle, and a wait for a task has a limit.
CallsReturn == \A c \in Callers : at[c] \notin {"idle", "inline"} ~> at[c] \in {"idle", "inline"}
=============================================================================
