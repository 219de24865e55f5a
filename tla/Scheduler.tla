------------------------------ MODULE Scheduler ------------------------------
(***************************************************************************)
(* The recipe scheduler of crates/goose/src/scheduler.rs: the job map, the *)
(* entries of the tokio cron scheduler, the cancellation tokens of running *)
(* jobs, and the schedule file.                                            *)
(*                                                                         *)
(* Every API call and every cron firing is a task of a multi-threaded      *)
(* runtime.  A task's steps are the stretches between two releases of the  *)
(* `jobs` or `running_tasks` mutex (or between two awaited calls of the    *)
(* cron scheduler), so any two tasks interleave at those points.           *)
(*                                                                         *)
(* A caller is a request handler or a tool call: its task is dropped where *)
(* it waits when the client disconnects or the reply is dropped.  An       *)
(* execution may also panic.  Neither runs the clean-up that follows.      *)
(*                                                                         *)
(* last_run and process_start_time are left out: the first is only         *)
(* reported, the second is set and cleared together with running.          *)
(***************************************************************************)
EXTENDS Naturals, FiniteSets

CONSTANTS
  JobIds,         \* ids under which recipes are scheduled
  Callers,        \* tasks that call the scheduler's API
  Firings,        \* tasks the cron scheduler spawns when an entry is due
  Crons,          \* cron expressions that parse
  BadCrons,       \* some that do not
  Uuids,          \* handles of cron entries; bounds how many exist at once
  None,           \* no job, no entry, no token, no session
  Lost,           \* the token or session of a task that is no more
  MaxCrashes,     \* bound on process restarts
  MayAsk,         \* a recipe may call a tool that needs the user's approval
  MaxFailures     \* bound on failed file operations, dropped callers and panics

Procs == Callers \cup Firings

ASSUME SchedulerConstants ==
  /\ Callers \cap Firings = {}
  /\ Crons \cap BadCrons = {}
  /\ None \notin JobIds \cup Procs \cup Uuids \cup Crons \cup BadCrons \cup {Lost}
  /\ Lost \notin Procs
  /\ \E f \in [JobIds -> Uuids] : \A i, j \in JobIds : f[i] = f[j] => i = j
  /\ MaxCrashes \in Nat
  /\ MayAsk \in BOOLEAN
  /\ MaxFailures \in Nat

VARIABLES
  jobs,      \* the job map: id -> (uuid, job)
  tab,       \* the cron scheduler's entries: uuid -> (id, cron) captured at creation
  token,     \* running_tasks: id -> the task whose token is stored
  killed,    \* tasks whose token has been cancelled
  disk,      \* what loading the schedule file would give
  recipe,    \* ids whose copied recipe file exists
  proc,      \* program point and locals of every task
  crashes,   \* restarts so far
  failures   \* failed file operations, dropped callers and panics so far

\* What has happened, for the properties: no action's guard reads these
VARIABLES
  stranded,  \* ids whose flag or session was left by an execution that is no more
  unsaved,   \* ids with a change left unwritten, since the last write of the file
  torn,      \* ids whose cron entry a dropped call was changing
  shared     \* executions that overlapped another of their job since storing a token

history == <<stranded, unsaved, torn, shared>>

vars == <<jobs, tab, token, killed, disk, recipe, proc, crashes, failures, history>>

bounds == <<crashes, failures>>
-----------------------------------------------------------------------------
AnyCron == Crons \cup BadCrons

Stored ==
  [cron : AnyCron, paused : BOOLEAN, running : BOOLEAN, session : {None, Lost}]

Job ==
  [uuid : Uuids, cron : AnyCron, paused : BOOLEAN, running : BOOLEAN,
   session : Procs \cup {None, Lost}]

ASSUME NoneIsNoJob == None \notin Job /\ None \notin Stored

Points ==
  {"idle", "addCopy", "addTab", "addInsert", "rmTab", "rmRecipe", "updTab", "updAdd",
   "updSet", "killTok", "mark", "runPersist", "tok", "start", "build", "exec", "ask",
   "exit", "clear", "persist"}

\* Where a task waits for a lock, the cron scheduler or the execution
Awaiting == Points \ {"idle", "addCopy", "mark", "start"}

Idle == [pc |-> "idle", id |-> None, cron |-> None, uuid |-> None]

NoJobs == [i \in JobIds |-> None]

At(p, point) == proc[p].pc = point

Set(p, point, i, c, u) ==
  proc' = [proc EXCEPT ![p] = [pc |-> point, id |-> i, cron |-> c, uuid |-> u]]

Goto(p, point) == Set(p, point, proc[p].id, proc[p].cron, proc[p].uuid)

\* Go on with nothing but the job's id: the other locals are dead
GotoBare(p, point) == Set(p, point, proc[p].id, None, None)

Begin(p, point, i, c, u) == proc[p] = Idle /\ Set(p, point, i, c, u)

Return(p) == proc' = [proc EXCEPT ![p] = Idle]

Exists(i) == jobs[i] # None

On(p, i, points) == proc[p].id = i /\ proc[p].pc \in points

\* The task shows the job as running, from the flag to its clearing
Executing(p, i) ==
  On(p, i, {"runPersist", "tok", "start", "build", "exec", "ask", "exit", "clear"})

\* ... and has its token in running_tasks, unless another execution took it out
Cancellable(p, i) == On(p, i, {"start", "build", "exec", "ask", "exit"})

\* The task has changed the job (or is about to) and will write the file after it
Owes(p, i) ==
  On(p, i, {"rmTab", "rmRecipe", "updTab", "updAdd", "updSet", "runPersist", "exec",
            "ask", "exit", "clear", "persist"})

\* Between two steps that change the job's cron entry and its handle in the map
Changing(p, i) == On(p, i, {"addInsert", "rmTab", "updTab", "updAdd", "updSet"})

\* Fault: create_cron_task's parse error is ignored
ParsesAnything(c) == TRUE

\* create_cron_task accepts the expression
Parses(c) == c \notin BadCrons

\* Fault: the job stays in the map
WithoutNothing(i) == jobs

Without(i) == [jobs EXCEPT ![i] = None]

\* Fault: the old entry stays in the cron scheduler
KeepEntry(u) == tab

DropEntry(u) == [tab EXCEPT ![u] = None]

\* Fault: the token of an ended execution stays in running_tasks
KeepToken(i) == token

WithoutToken(i) == [token EXCEPT ![i] = None]

\* Faults: the flag, or the session, survives the execution
ClearedButFlag(j) == [j EXCEPT !.session = None]
ClearedButSession(j) == [j EXCEPT !.running = FALSE]

Cleared(j) == [j EXCEPT !.running = FALSE, !.session = None]

\* Uuid::new_v4 never repeats: a handle nobody holds
UuidsInUse ==
  {u \in Uuids : tab[u] # None}
    \cup {jobs[i].uuid : i \in {j \in JobIds : Exists(j)}}
    \cup {proc[p].uuid : p \in Procs}

FreshUuids == Uuids \ UuidsInUse

NewUuid == CHOOSE u \in FreshUuids : TRUE

\* What persist_jobs writes: the jobs without their entry handles.  A session in
\* the file is only ever read by a later process, to which it is one long gone.
Snapshot ==
  [i \in JobIds |->
    IF Exists(i)
    THEN [cron |-> jobs[i].cron, paused |-> jobs[i].paused,
          running |-> jobs[i].running,
          session |-> IF jobs[i].session = None THEN None ELSE Lost]
    ELSE None]

Init ==
  /\ jobs = NoJobs
  /\ tab = [u \in Uuids |-> None]
  /\ token = [i \in JobIds |-> None]
  /\ killed = {}
  /\ disk = NoJobs
  /\ recipe = {}
  /\ proc = [p \in Procs |-> Idle]
  /\ crashes = 0
  /\ failures = 0
  /\ stranded = {}
  /\ unsaved = {}
  /\ torn = {}
  /\ shared = {}
-----------------------------------------------------------------------------
(***************************************************************************)
(* add_scheduled_job, with the recipe copied under the job's id.           *)
(***************************************************************************)
\* The existence check; the lock is released before the insert
AddCheck(p, i, c) ==
  /\ ~Exists(i)
  /\ Begin(p, "addCopy", i, c, None)
  /\ UNCHANGED <<jobs, tab, token, killed, disk, recipe, bounds, history>>

\* fs::copy, then create_cron_task, whose parse error ends the call
AddCopy(p) ==
  /\ At(p, "addCopy")
  /\ recipe' = recipe \cup {proc[p].id}
  /\ IF Parses(proc[p].cron) THEN Goto(p, "addTab") ELSE Return(p)
  /\ UNCHANGED <<jobs, tab, token, killed, disk, bounds, history>>

\* tokio_scheduler.add, for a new job and for an updated one
AddEntry(p, from, to) ==
  /\ At(p, from)
  /\ FreshUuids # {}
  /\ tab' = [tab EXCEPT ![NewUuid] = [id |-> proc[p].id, cron |-> proc[p].cron]]
  /\ Set(p, to, proc[p].id, proc[p].cron, NewUuid)
  /\ UNCHANGED <<jobs, token, killed, disk, recipe, bounds, history>>

\* HashMap::insert: whatever the map holds for the id by now is replaced
AddInsert(p) ==
  /\ At(p, "addInsert")
  /\ jobs' = [jobs EXCEPT ![proc[p].id] =
       [uuid |-> proc[p].uuid, cron |-> proc[p].cron, paused |-> FALSE,
        running |-> FALSE, session |-> None]]
  /\ GotoBare(p, "persist")
  /\ stranded' = stranded \ {proc[p].id}
  /\ UNCHANGED <<tab, token, killed, disk, recipe, bounds, unsaved, torn, shared>>

(***************************************************************************)
(* remove_scheduled_job, with remove_recipe.  A running execution is not   *)
(* stopped.                                                                *)
(***************************************************************************)
RemoveJob(p, i) ==
  /\ Exists(i)
  /\ Begin(p, "rmTab", i, None, jobs[i].uuid)
  /\ jobs' = Without(i)
  /\ UNCHANGED <<tab, token, killed, disk, recipe, bounds, history>>

RemoveEntry(p) ==
  /\ At(p, "rmTab")
  /\ tab' = DropEntry(proc[p].uuid)
  /\ GotoBare(p, "rmRecipe")
  /\ UNCHANGED <<jobs, token, killed, disk, recipe, bounds, history>>

RemoveRecipe(p) ==
  /\ At(p, "rmRecipe")
  /\ recipe' = recipe \ {proc[p].id}
  /\ GotoBare(p, "persist")
  /\ UNCHANGED <<jobs, tab, token, killed, disk, bounds, history>>

\* fs::copy or fs::remove_file fails and ends the call: an addition that changed
\* nothing, or a removal that is never written
FileFails(p) ==
  /\ failures < MaxFailures
  /\ failures' = failures + 1
  /\ At(p, "addCopy") \/ At(p, "rmRecipe")
  /\ Return(p)
  /\ unsaved' = IF At(p, "rmRecipe") THEN unsaved \cup {proc[p].id} ELSE unsaved
  /\ UNCHANGED <<jobs, tab, token, killed, disk, recipe, crashes, stranded, torn, shared>>

(***************************************************************************)
(* update_schedule: refused while running, nothing to do for the same      *)
(* cron; the job's cron changes before the new expression is parsed.       *)
(***************************************************************************)
UpdateJob(p, i, c) ==
  /\ Exists(i)
  /\ ~jobs[i].running
  /\ c # jobs[i].cron
  /\ Begin(p, "updTab", i, c, jobs[i].uuid)
  /\ jobs' = [jobs EXCEPT ![i].cron = c]
  /\ UNCHANGED <<tab, token, killed, disk, recipe, bounds, history>>

UpdateDropEntry(p) ==
  /\ At(p, "updTab")
  /\ tab' = DropEntry(proc[p].uuid)
  /\ IF Parses(proc[p].cron)
     THEN Set(p, "updAdd", proc[p].id, proc[p].cron, None) /\ UNCHANGED unsaved
     ELSE Return(p) /\ unsaved' = unsaved \cup {proc[p].id}
  /\ UNCHANGED <<jobs, token, killed, disk, recipe, bounds, stranded, torn, shared>>

UpdateHandle(p) ==
  /\ At(p, "updSet")
  /\ jobs' = IF Exists(proc[p].id)
             THEN [jobs EXCEPT ![proc[p].id].uuid = proc[p].uuid]
             ELSE jobs
  /\ GotoBare(p, "persist")
  /\ UNCHANGED <<tab, token, killed, disk, recipe, bounds, history>>

(***************************************************************************)
(* pause_schedule (refused while running), unpause_schedule                *)
(***************************************************************************)
\* Fault: the change waits for the next write
SaveLater(p, i) == proc[p] = Idle /\ UNCHANGED proc

\* A call whose change is already made goes on to persist_jobs
Save(p, i) == Begin(p, "persist", i, None, None)

Pause(p, i) ==
  /\ Exists(i)
  /\ ~jobs[i].running
  /\ Save(p, i)
  /\ jobs' = [jobs EXCEPT ![i].paused = TRUE]
  /\ UNCHANGED <<tab, token, killed, disk, recipe, bounds, history>>

Unpause(p, i) ==
  /\ Exists(i)
  /\ Save(p, i)
  /\ jobs' = [jobs EXCEPT ![i].paused = FALSE]
  /\ UNCHANGED <<tab, token, killed, disk, recipe, bounds, history>>

(***************************************************************************)
(* kill_running_job: the flag is read under one lock, the token cancelled  *)
(* under another; no token is not an error.                                *)
(***************************************************************************)
KillCheck(p, i) ==
  /\ Exists(i)
  /\ jobs[i].running
  /\ Begin(p, "killTok", i, None, None)
  /\ UNCHANGED <<jobs, tab, token, killed, disk, recipe, bounds, history>>

KillToken(p) ==
  /\ At(p, "killTok")
  /\ killed' = killed \cup ({token[proc[p].id]} \ {None, Lost})
  /\ Return(p)
  /\ UNCHANGED <<jobs, tab, token, disk, recipe, bounds, history>>
-----------------------------------------------------------------------------
(***************************************************************************)
(* run_now: test-and-set of the running flag; a paused job runs too.       *)
(***************************************************************************)
RunNow(p, i) ==
  /\ Exists(i)
  /\ ~jobs[i].running
  /\ Begin(p, "runPersist", i, None, None)
  /\ jobs' = [jobs EXCEPT ![i].running = TRUE]
  /\ UNCHANGED <<tab, token, killed, disk, recipe, bounds, history>>

(***************************************************************************)
(* The closure of create_cron_task.  The first lock only asks whether the  *)
(* job exists and is not paused; the flag is set under a second one, and   *)
(* the execution goes on even when the job is gone by then.                *)
(***************************************************************************)
Fire(p, u) ==
  /\ tab[u] # None
  /\ Exists(tab[u].id)
  /\ ~jobs[tab[u].id].paused
  /\ Begin(p, "mark", tab[u].id, None, None)
  /\ UNCHANGED <<jobs, tab, token, killed, disk, recipe, bounds, history>>

MarkRunning(p) ==
  /\ At(p, "mark")
  /\ jobs' = IF Exists(proc[p].id)
             THEN [jobs EXCEPT ![proc[p].id].running = TRUE]
             ELSE jobs
  /\ Goto(p, "runPersist")
  /\ UNCHANGED <<tab, token, killed, disk, recipe, bounds, history>>

(***************************************************************************)
(* persist_jobs holds the jobs lock while it writes, so the file gets the  *)
(* map of the moment.  A failed write (fs::write truncates first) may      *)
(* leave a file that does not parse, which loads as no jobs.  run_now      *)
(* returns the error and leaves the flag set; a cron firing logs it.       *)
(***************************************************************************)
AfterPersist(p) ==
  IF At(p, "runPersist") THEN Goto(p, "tok") ELSE Return(p)

Persist(p) ==
  /\ At(p, "runPersist") \/ At(p, "persist")
  /\ disk' = Snapshot
  /\ AfterPersist(p)
  /\ unsaved' = {}
  /\ UNCHANGED <<jobs, tab, token, killed, recipe, bounds, stranded, torn, shared>>

PersistFails(p) ==
  /\ failures < MaxFailures
  /\ failures' = failures + 1
  /\ At(p, "runPersist") \/ At(p, "persist")
  /\ \/ disk' = disk /\ unsaved' = unsaved \cup {proc[p].id}
     \/ disk' = NoJobs /\ unsaved' = JobIds
  /\ IF At(p, "runPersist") /\ p \in Firings THEN Goto(p, "tok") ELSE Return(p)
  /\ stranded' = IF At(p, "runPersist") /\ p \in Callers
                 THEN stranded \cup {proc[p].id} ELSE stranded
  /\ UNCHANGED <<jobs, tab, token, killed, recipe, crashes, torn, shared>>

Rivals(p) == {q \in Procs \ {p} : Cancellable(q, proc[p].id)}

\* A fresh token replaces the one of an execution still in progress
StoreToken(p) ==
  /\ At(p, "tok")
  /\ token' = [token EXCEPT ![proc[p].id] = p]
  /\ Goto(p, "start")
  /\ shared' = IF Rivals(p) = {} THEN shared ELSE shared \cup Rivals(p) \cup {p}
  /\ UNCHANGED <<jobs, tab, killed, disk, recipe, bounds, stranded, unsaved, torn>>

(***************************************************************************)
(* execute_job.  It needs the recipe file; an agent of its own is built    *)
(* and its session recorded in the job, then the agent's reply is drained. *)
(* Any error on the way, and the end of the stream, lead to "exit".        *)
(***************************************************************************)
ExecuteRead(p) ==
  /\ At(p, "start")
  /\ proc[p].id \in recipe
  /\ Goto(p, "build")
  /\ UNCHANGED <<jobs, tab, token, killed, disk, recipe, bounds, history>>

ExecuteStart(p) ==
  /\ At(p, "build")
  /\ jobs' = IF Exists(proc[p].id)
             THEN [jobs EXCEPT ![proc[p].id].session = p]
             ELSE jobs
  /\ Goto(p, "exec")
  /\ UNCHANGED <<tab, token, killed, disk, recipe, bounds, history>>

ExecuteError(p) ==
  /\ At(p, "start") \/ At(p, "build")
  /\ Goto(p, "exit")
  /\ UNCHANGED <<jobs, tab, token, killed, disk, recipe, bounds, history>>

ExecuteEnd(p) ==
  /\ At(p, "exec")
  /\ Goto(p, "exit")
  /\ UNCHANGED <<jobs, tab, token, killed, disk, recipe, bounds, history>>

\* Fault: the token is never looked at
NeverStops(p) == FALSE

\* The reply loop looks at the token between two stream items
Stops(p) == p \in killed

ExecuteCancelled(p) ==
  /\ At(p, "exec")
  /\ Stops(p)
  /\ Goto(p, "exit")
  /\ UNCHANGED <<jobs, tab, token, killed, disk, recipe, bounds, history>>

\* A tool needs approval: handle_approval_tool_requests waits on the agent's
\* confirmation channel without looking at the token, and the agent of
\* execute_job is known to nobody who could answer
ExecuteAsk(p) ==
  /\ MayAsk
  /\ At(p, "exec")
  /\ Goto(p, "ask")
  /\ UNCHANGED <<jobs, tab, token, killed, disk, recipe, bounds, history>>

\* running_tasks.remove takes out whatever token the id has now
DropToken(p) ==
  /\ At(p, "exit")
  /\ token' = WithoutToken(proc[p].id)
  /\ Goto(p, "clear")
  /\ shared' = shared \ {p}
  /\ UNCHANGED <<jobs, tab, killed, disk, recipe, bounds, stranded, unsaved, torn>>

\* The execution is over: nobody can ask about its token again
ClearRunning(p) ==
  /\ At(p, "clear")
  /\ jobs' = IF Exists(proc[p].id)
             THEN [jobs EXCEPT ![proc[p].id] = Cleared(@)]
             ELSE jobs
  /\ killed' = killed \ {p}
  /\ GotoBare(p, "persist")
  /\ stranded' = stranded \ {proc[p].id}
  /\ UNCHANGED <<tab, token, disk, recipe, bounds, unsaved, torn, shared>>
-----------------------------------------------------------------------------
(***************************************************************************)
(* A task ends where it is, and what it has stored stays: its token in     *)
(* running_tasks, the flag and session of its job, an entry without a job  *)
(* or a job without an entry, a change of the map without its write.       *)
(* Nobody ever acts for it again; its token and session are told apart     *)
(* from those of live tasks by Lost.                                       *)
(***************************************************************************)
Vanish(p) ==
  LET i == proc[p].id IN
  /\ failures < MaxFailures
  /\ failures' = failures + 1
  /\ Return(p)
  /\ token' = [j \in JobIds |-> IF token[j] = p THEN Lost ELSE token[j]]
  /\ jobs' = IF Exists(i) /\ jobs[i].session = p
             THEN [jobs EXCEPT ![i].session = Lost]
             ELSE jobs
  /\ killed' = killed \ {p}
  /\ stranded' = stranded \cup {j \in JobIds : Executing(p, j)}
  /\ unsaved' = unsaved \cup {j \in JobIds : Owes(p, j)}
  /\ torn' = torn \cup {j \in JobIds : Changing(p, j)}
  /\ shared' = shared \ {p}
  /\ UNCHANGED <<tab, disk, recipe, crashes>>

\* The handler's or the tool call's future is dropped at an await
Drop(p) == p \in Callers /\ proc[p].pc \in Awaiting /\ Vanish(p)

\* recipe.prompt.or(recipe.instructions).unwrap(): a recipe may have neither
ExecutePanic(p) == At(p, "exec") /\ Vanish(p)
-----------------------------------------------------------------------------
(***************************************************************************)
(* A crash and Scheduler::new: load_jobs_from_storage skips jobs without a *)
(* recipe file or with a cron that does not parse, and takes every other   *)
(* field as stored, the running flag included.  A crash while the file is  *)
(* written may leave one that does not parse.                              *)
(***************************************************************************)
BootUuid ==
  CHOOSE f \in [JobIds -> Uuids] : \A i, j \in JobIds : f[i] = f[j] => i = j

\* Fault: paused jobs are not loaded
LoadableUnlessPaused(d, i) == d[i] # None /\ i \in recipe /\ Parses(d[i].cron) /\ ~d[i].paused

Loadable(d, i) == d[i] # None /\ i \in recipe /\ Parses(d[i].cron)

Writing(p) == At(p, "runPersist") \/ At(p, "persist")

\* Fault: the pause state is not loaded
LoadJobsUnpaused(d) ==
  [i \in JobIds |->
    IF Loadable(d, i)
    THEN [uuid |-> BootUuid[i], cron |-> d[i].cron, paused |-> FALSE,
          running |-> d[i].running, session |-> d[i].session]
    ELSE None]

LoadJobs(d) ==
  [i \in JobIds |->
    IF Loadable(d, i)
    THEN [uuid |-> BootUuid[i], cron |-> d[i].cron, paused |-> d[i].paused,
          running |-> d[i].running, session |-> d[i].session]
    ELSE None]

LoadEntries(d) ==
  [u \in Uuids |->
    IF \E i \in JobIds : BootUuid[i] = u /\ Loadable(d, i)
    THEN LET i == CHOOSE j \in JobIds : BootUuid[j] = u /\ Loadable(d, j)
         IN [id |-> i, cron |-> d[i].cron]
    ELSE None]

Restart ==
  /\ crashes < MaxCrashes
  /\ crashes' = crashes + 1
  /\ \/ disk' = disk
     \/ (\E p \in Procs : Writing(p)) /\ disk' = NoJobs
  /\ jobs' = LoadJobs(disk')
  /\ tab' = LoadEntries(disk')
  /\ token' = [i \in JobIds |-> None]
  /\ killed' = {}
  /\ proc' = [p \in Procs |-> Idle]
  /\ stranded' = {i \in JobIds : Loadable(disk', i) /\ (disk'[i].running \/ disk'[i].session # None)}
  /\ unsaved' = {i \in JobIds : disk'[i] # None /\ ~Loadable(disk', i)}
  /\ torn' = {}
  /\ shared' = {}
  /\ UNCHANGED <<recipe, failures>>
-----------------------------------------------------------------------------
Call(p) ==
  \E i \in JobIds :
    \/ \E c \in AnyCron : AddCheck(p, i, c) \/ UpdateJob(p, i, c)
    \/ RemoveJob(p, i)
    \/ Pause(p, i)
    \/ Unpause(p, i)
    \/ KillCheck(p, i)
    \/ RunNow(p, i)

\* The steps a task takes by itself once it has begun
Step(p) ==
  \/ AddCopy(p)
  \/ AddEntry(p, "addTab", "addInsert")
  \/ AddInsert(p)
  \/ RemoveEntry(p)
  \/ RemoveRecipe(p)
  \/ UpdateDropEntry(p)
  \/ AddEntry(p, "updAdd", "updSet")
  \/ UpdateHandle(p)
  \/ KillToken(p)
  \/ MarkRunning(p)
  \/ Persist(p)
  \/ StoreToken(p)
  \/ ExecuteRead(p)
  \/ ExecuteStart(p)
  \/ ExecuteError(p)
  \/ ExecuteCancelled(p)
  \/ DropToken(p)
  \/ ClearRunning(p)

Next ==
  \/ \E p \in Callers : Call(p)
  \/ \E p \in Firings, u \in Uuids : Fire(p, u)
  \/ \E p \in Procs :
       \/ Step(p)
       \/ PersistFails(p)
       \/ FileFails(p)
       \/ ExecuteEnd(p)
       \/ ExecuteAsk(p)
       \/ Drop(p)
       \/ ExecutePanic(p)
  \/ Restart

Spec == Init /\ [][Next]_vars

\* The runtime runs every ready task; when an execution ends by itself, when a
\* user calls, when an entry is due and when a crash comes is left open
FairSpec == Spec /\ \A p \in Procs : WF_vars(Step(p))
-----------------------------------------------------------------------------
ProcState ==
  [pc : Points, id : JobIds \cup {None}, cron : AnyCron \cup {None},
   uuid : Uuids \cup {None}]

\* The types of all variables
TypeOK ==
  /\ jobs \in [JobIds -> Job \cup {None}]
  /\ tab \in [Uuids -> [id : JobIds, cron : Crons] \cup {None}]
  /\ token \in [JobIds -> Procs \cup {None, Lost}]
  /\ killed \in SUBSET Procs
  /\ disk \in [JobIds -> Stored \cup {None}]
  /\ recipe \in SUBSET JobIds
  /\ proc \in [Procs -> ProcState]
  /\ crashes \in 0 .. MaxCrashes
  /\ failures \in 0 .. MaxFailures
  /\ stranded \in SUBSET JobIds
  /\ unsaved \in SUBSET JobIds
  /\ torn \in SUBSET JobIds
  /\ shared \in SUBSET Procs

\* running_tasks never keeps the token of an execution that came to its end, and
\* has the token of every execution in progress but those that overlapped another
\* of their job, whose entry the other replaced or removed.  Only an execution
\* that was dropped or panicked leaves its token behind (scheduler.rs, running_tasks)
TokenLive ==
  /\ \A i \in JobIds : token[i] \notin {None, Lost} => Cancellable(token[i], i)
  /\ \A p \in Procs, i \in JobIds :
       Cancellable(p, i) /\ p \notin shared => token[i] = p

\* currently_running is only shown for a job that some task is executing, or whose
\* execution was dropped, panicked, could not write the file (run_now) or was cut
\* short by a restart, with none ended and no new job stored under the id since
FlagBacked ==
  \A i \in JobIds :
    Exists(i) /\ jobs[i].running => (i \in stranded) \/ (\E p \in Procs : Executing(p, i))

\* The session get_running_job_info reports is that of an execution of this job
\* still in progress, even after runs overlapped or the job was replaced, or was
\* left by an execution that is no more
SessionLive ==
  \A i \in JobIds :
    Exists(i) /\ jobs[i].session # None =>
      \/ i \in stranded
      \/ \E p \in Procs : jobs[i].session = p /\ On(p, i, {"exec", "ask", "exit", "clear"})

\* A job is in the file exactly as in the map, or absent from both, unless a task
\* is on its way to write it, in whatever order tasks change the map and write, or
\* a task has left its change unwritten since the last write: it was dropped,
\* panicked, failed to write or to remove the recipe, or met a bad cron expression
DiskAgrees ==
  \A i \in JobIds : disk[i] = Snapshot[i] \/ (i \in unsaved) \/ (\E p \in Procs : Owes(p, i))

CallersIdle == \A p \in Callers : proc[p] = Idle

\* With one caller at a time: whenever no call is in progress, a job with a valid
\* cron has exactly one cron entry, the one its handle names, with its own cron;
\* no other entry exists that would fire for a removed or replaced schedule.  A
\* dropped call can break this only for the schedule it was changing.
OneEntryPerJob ==
  CallersIdle =>
    /\ \A i \in JobIds \ torn :
         Exists(i) /\ Parses(jobs[i].cron) =>
           tab[jobs[i].uuid] = [id |-> i, cron |-> jobs[i].cron]
    /\ \A u \in Uuids :
         tab[u] # None /\ tab[u].id \notin torn =>
           Exists(tab[u].id) /\ jobs[tab[u].id].uuid = u

\* With one caller at a time: a job in the map has its recipe file
RecipeKept == CallersIdle => \A i \in JobIds : Exists(i) => i \in recipe

\* With one caller at a time: a restart while no call is in progress and nothing is
\* being written brings back exactly the jobs with a valid cron, with the same cron
\* and pause state, whatever firings were executing and whatever calls were dropped
\* before, except where a change was left unwritten
RestartKeepsJobs ==
  [][crashes' # crashes /\ CallersIdle /\ ~(\E p \in Procs : Writing(p))
       => \A i \in JobIds \ unsaved :
            /\ ~Exists(i) => jobs'[i] = None
            /\ Exists(i) /\ Parses(jobs[i].cron) =>
                 /\ jobs'[i] # None
                 /\ jobs'[i].cron = jobs[i].cron
                 /\ jobs'[i].paused = jobs[i].paused]_vars

\* An execution whose token is cancelled ends, unless it waits for an approval:
\* "Terminate a currently running goose scheduled job" (agents/platform_tools.rs)
KillTerminates == \A p \in Procs : p \in killed ~> p \notin killed \/ At(p, "ask")
=============================================================================
