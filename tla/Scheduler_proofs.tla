-------------------------- MODULE Scheduler_proofs --------------------------
(***************************************************************************)
(* Type correctness of the scheduler and its safety invariants that hold   *)
(* for any number of jobs, callers and firings; then, from Serial on, what *)
(* holds when one caller at a time uses it.                                *)
(***************************************************************************)
EXTENDS Scheduler, TLAPS

\* What each program point knows about its locals
LocalsOK ==
  \A p \in Procs :
    /\ proc[p].pc # "idle" => proc[p].id \in JobIds
    /\ proc[p].pc \in {"addCopy", "updTab"} => proc[p].cron \in AnyCron
    /\ proc[p].pc \in {"addTab", "addInsert", "updAdd"} => proc[p].cron \in Crons
    /\ proc[p].pc \in {"addInsert", "rmTab", "updTab", "updSet"} => proc[p].uuid \in Uuids

TypeInv == TypeOK /\ LocalsOK

LEMMA NewUuidType == FreshUuids # {} => NewUuid \in Uuids
  BY DEF FreshUuids, NewUuid

LEMMA BootUuidType ==
  /\ BootUuid \in [JobIds -> Uuids]
  /\ \A i, j \in JobIds : BootUuid[i] = BootUuid[j] => i = j
  BY SchedulerConstants DEF BootUuid

LEMMA LoadJobsType ==
  ASSUME NEW d \in [JobIds -> Stored \cup {None}]
  PROVE  LoadJobs(d) \in [JobIds -> Job \cup {None}]
<1> SUFFICES ASSUME NEW i \in JobIds, Loadable(d, i)
             PROVE  [uuid |-> BootUuid[i], cron |-> d[i].cron, paused |-> d[i].paused,
                     running |-> d[i].running, session |-> d[i].session] \in Job
  BY DEF LoadJobs
<1>1. d[i] \in Stored
  BY DEF Loadable
<1> QED
  BY <1>1, BootUuidType DEF Stored, Job

\* A job that is in the map after a restart is as the file has it
LEMMA LoadedFlags ==
  ASSUME NEW d, NEW i \in JobIds, LoadJobs(d)[i] # None
  PROVE  /\ Loadable(d, i)
         /\ LoadJobs(d)[i].running = d[i].running
         /\ LoadJobs(d)[i].session = d[i].session
<1>1. Loadable(d, i)
  BY DEF LoadJobs
<1>2. LoadJobs(d)[i] = [uuid |-> BootUuid[i], cron |-> d[i].cron, paused |-> d[i].paused,
                        running |-> d[i].running, session |-> d[i].session]
  BY <1>1 DEF LoadJobs
<1> QED
  BY <1>1, <1>2

LEMMA LoadEntriesType ==
  ASSUME NEW d \in [JobIds -> Stored \cup {None}]
  PROVE  LoadEntries(d) \in [Uuids -> [id : JobIds, cron : Crons] \cup {None}]
<1> SUFFICES ASSUME NEW u \in Uuids, NEW j \in JobIds, BootUuid[j] = u, Loadable(d, j),
                    NEW i, i = CHOOSE k \in JobIds : BootUuid[k] = u /\ Loadable(d, k)
             PROVE  [id |-> i, cron |-> d[i].cron] \in [id : JobIds, cron : Crons]
  BY DEF LoadEntries
<1>1. i \in JobIds /\ Loadable(d, i)
  OBVIOUS
<1>2. d[i] \in Stored /\ d[i].cron \notin BadCrons
  BY <1>1 DEF Loadable, Parses
<1> QED
  BY <1>1, <1>2 DEF Stored, AnyCron

THEOREM TypeCorrect == Spec => []TypeInv
<1> USE SchedulerConstants
<1>1. Init => TypeInv
  BY DEF Init, TypeInv, TypeOK, LocalsOK, NoJobs, Idle, ProcState, Points
<1>2. TypeInv /\ [Next]_vars => TypeInv'
  <2> SUFFICES ASSUME TypeInv, [Next]_vars PROVE TypeInv'
    OBVIOUS
  <2> USE DEF TypeInv, TypeOK, LocalsOK, ProcState, Points, Idle, At, Exists, Set, bounds, history
  <2>1. ASSUME NEW p \in Callers, NEW i \in JobIds, NEW c \in AnyCron, AddCheck(p, i, c)
        PROVE  TypeInv'
    BY <2>1 DEF AddCheck, Begin, Procs
  <2>2. ASSUME NEW p \in Callers, NEW i \in JobIds, NEW c \in AnyCron, UpdateJob(p, i, c)
        PROVE  TypeInv'
    BY <2>2 DEF UpdateJob, Begin, Procs, Job
  <2>3. ASSUME NEW p \in Callers, NEW i \in JobIds, RemoveJob(p, i)
        PROVE  TypeInv'
    BY <2>3 DEF RemoveJob, Begin, Procs, Without, Job
  <2>4. ASSUME NEW p \in Callers, NEW i \in JobIds, Pause(p, i)
        PROVE  TypeInv'
    <3>1. \A j \in Job : [j EXCEPT !.paused = TRUE] \in Job
      BY DEF Job, AnyCron, Procs
    <3>2. jobs' \in [JobIds -> Job \cup {None}]
      BY <2>4, <3>1 DEF Pause
    <3> QED
      BY <2>4, <3>2 DEF Pause, Begin, Procs, Save
  <2>5. ASSUME NEW p \in Callers, NEW i \in JobIds, Unpause(p, i)
        PROVE  TypeInv'
    <3>1. \A j \in Job : [j EXCEPT !.paused = FALSE] \in Job
      BY DEF Job, AnyCron, Procs
    <3>2. jobs' \in [JobIds -> Job \cup {None}]
      BY <2>5, <3>1 DEF Unpause
    <3> QED
      BY <2>5, <3>2 DEF Unpause, Begin, Procs, Save
  <2>6. ASSUME NEW p \in Callers, NEW i \in JobIds, KillCheck(p, i)
        PROVE  TypeInv'
    BY <2>6 DEF KillCheck, Begin, Procs
  <2>7. ASSUME NEW p \in Callers, NEW i \in JobIds, RunNow(p, i)
        PROVE  TypeInv'
    <3>1. \A j \in Job : [j EXCEPT !.running = TRUE] \in Job
      BY DEF Job, AnyCron, Procs
    <3>2. jobs' \in [JobIds -> Job \cup {None}]
      BY <2>7, <3>1 DEF RunNow
    <3> QED
      BY <2>7, <3>2 DEF RunNow, Begin, Procs
  <2>8. ASSUME NEW p \in Firings, NEW u \in Uuids, Fire(p, u)
        PROVE  TypeInv'
    BY <2>8 DEF Fire, Begin, Procs
  <2>9. ASSUME NEW p \in Procs, AddCopy(p)
        PROVE  TypeInv'
    <3>0. proc[p].id \in JobIds /\ recipe' \in SUBSET JobIds
      BY <2>9 DEF AddCopy
    <3>1. CASE Parses(proc[p].cron)
      BY <2>9, <3>0, <3>1 DEF AddCopy, Parses, AnyCron, Goto
    <3>2. CASE ~Parses(proc[p].cron)
      <4>1. Return(p)
        BY <2>9, <3>2 DEF AddCopy
      <4>2. proc' \in [Procs -> ProcState] /\ LocalsOK'
        BY <4>1 DEF Return
      <4> QED
        BY <2>9, <3>0, <4>2 DEF AddCopy
    <3> QED
      BY <3>1, <3>2
  <2>10. ASSUME NEW p \in Procs, AddEntry(p, "addTab", "addInsert")
        PROVE  TypeInv'
    <3>1. NewUuid \in Uuids
      BY <2>10, NewUuidType DEF AddEntry
    <3>2. tab' \in [Uuids -> [id : JobIds, cron : Crons] \cup {None}]
      BY <2>10, <3>1 DEF AddEntry
    <3>3. proc' \in [Procs -> ProcState]
      BY <2>10, <3>1 DEF AddEntry
    <3> QED
      BY <2>10, <3>1, <3>2, <3>3 DEF AddEntry
  <2>11. ASSUME NEW p \in Procs, AddInsert(p)
        PROVE  TypeInv'
    BY <2>11 DEF AddInsert, GotoBare, Job, AnyCron, Procs
  <2>12. ASSUME NEW p \in Procs, RemoveEntry(p)
        PROVE  TypeInv'
    BY <2>12 DEF RemoveEntry, DropEntry, GotoBare
  <2>13. ASSUME NEW p \in Procs, RemoveRecipe(p)
        PROVE  TypeInv'
    BY <2>13 DEF RemoveRecipe, GotoBare
  <2>14. ASSUME NEW p \in Procs, UpdateDropEntry(p)
        PROVE  TypeInv'
    BY <2>14 DEF UpdateDropEntry, DropEntry, Parses, Return, AnyCron
  <2>15. ASSUME NEW p \in Procs, AddEntry(p, "updAdd", "updSet")
        PROVE  TypeInv'
    <3>1. NewUuid \in Uuids
      BY <2>15, NewUuidType DEF AddEntry
    <3>2. tab' \in [Uuids -> [id : JobIds, cron : Crons] \cup {None}]
      BY <2>15, <3>1 DEF AddEntry
    <3>3. proc' \in [Procs -> ProcState]
      BY <2>15, <3>1 DEF AddEntry
    <3> QED
      BY <2>15, <3>1, <3>2, <3>3 DEF AddEntry
  <2>16. ASSUME NEW p \in Procs, UpdateHandle(p)
        PROVE  TypeInv'
    <3>1. \A j \in Job : \A u \in Uuids : [j EXCEPT !.uuid = u] \in Job
      BY DEF Job, AnyCron, Procs
    <3>2. jobs' \in [JobIds -> Job \cup {None}]
      BY <2>16, <3>1 DEF UpdateHandle
    <3> QED
      BY <2>16, <3>2 DEF UpdateHandle, GotoBare
  <2>17. ASSUME NEW p \in Procs, KillToken(p)
        PROVE  TypeInv'
    BY <2>17 DEF KillToken, Return
  <2>18. ASSUME NEW p \in Procs, MarkRunning(p)
        PROVE  TypeInv'
    <3>1. \A j \in Job : [j EXCEPT !.running = TRUE] \in Job
      BY DEF Job, AnyCron, Procs
    <3>2. jobs' \in [JobIds -> Job \cup {None}]
      BY <2>18, <3>1 DEF MarkRunning
    <3> QED
      BY <2>18, <3>2 DEF MarkRunning, Goto
  <2>19. ASSUME NEW p \in Procs, Persist(p)
        PROVE  TypeInv'
    <3>1. Snapshot \in [JobIds -> Stored \cup {None}]
      BY DEF Snapshot, Job, Stored
    <3>2. proc' \in [Procs -> ProcState] /\ LocalsOK'
      BY <2>19 DEF Persist, AfterPersist, Goto, Return
    <3> QED
      BY <2>19, <3>1, <3>2 DEF Persist
  <2>20. ASSUME NEW p \in Procs, StoreToken(p)
        PROVE  TypeInv'
    <3>1. shared' \in SUBSET Procs
      BY <2>20 DEF StoreToken, Rivals
    <3>2. token' \in [JobIds -> Procs \cup {None, Lost}]
      BY <2>20 DEF StoreToken
    <3>3. proc' \in [Procs -> ProcState] /\ LocalsOK'
      BY <2>20 DEF StoreToken, Goto
    <3> QED
      BY <2>20, <3>1, <3>2, <3>3 DEF StoreToken
  <2>21. ASSUME NEW p \in Procs, ExecuteStart(p)
        PROVE  TypeInv'
    <3>1. \A j \in Job : [j EXCEPT !.session = p] \in Job
      BY DEF Job, AnyCron, Procs
    <3>2. jobs' \in [JobIds -> Job \cup {None}]
      BY <2>21, <3>1 DEF ExecuteStart
    <3> QED
      BY <2>21, <3>2 DEF ExecuteStart, Goto
  <2>22. ASSUME NEW p \in Procs, ExecuteError(p)
        PROVE  TypeInv'
    BY <2>22 DEF ExecuteError, Goto
  <2>23. ASSUME NEW p \in Procs, ExecuteCancelled(p)
        PROVE  TypeInv'
    BY <2>23 DEF ExecuteCancelled, Goto
  <2>24. ASSUME NEW p \in Procs, DropToken(p)
        PROVE  TypeInv'
    BY <2>24 DEF DropToken, WithoutToken, Goto
  <2>25. ASSUME NEW p \in Procs, ClearRunning(p)
        PROVE  TypeInv'
    <3>1. \A j \in Job : Cleared(j) \in Job
      BY DEF Job, AnyCron, Procs, Cleared
    <3>2. jobs' \in [JobIds -> Job \cup {None}]
      BY <2>25, <3>1 DEF ClearRunning
    <3> QED
      BY <2>25, <3>2 DEF ClearRunning, GotoBare
  <2>26. ASSUME NEW p \in Procs, PersistFails(p)
        PROVE  TypeInv'
    <3>1. disk' \in [JobIds -> Stored \cup {None}]
      BY <2>26 DEF PersistFails, NoJobs
    <3>2. CASE At(p, "runPersist") /\ p \in Firings
      <4>1. Goto(p, "tok") /\ proc[p].id \in JobIds
        BY <2>26, <3>2 DEF PersistFails
      <4>2. proc' \in [Procs -> ProcState] /\ LocalsOK'
        BY <4>1 DEF Goto
      <4> QED
        BY <2>26, <3>1, <4>2 DEF PersistFails
    <3>3. CASE ~(At(p, "runPersist") /\ p \in Firings)
      <4>1. Return(p)
        BY <2>26, <3>3 DEF PersistFails
      <4>2. proc' \in [Procs -> ProcState] /\ LocalsOK'
        BY <4>1 DEF Return
      <4> QED
        BY <2>26, <3>1, <4>2 DEF PersistFails
    <3> QED
      BY <3>2, <3>3
  <2>27. ASSUME NEW p \in Procs, ExecuteEnd(p)
        PROVE  TypeInv'
    BY <2>27 DEF ExecuteEnd, Goto
  <2>28. ASSUME NEW p \in Procs, ExecuteAsk(p)
        PROVE  TypeInv'
    BY <2>28 DEF ExecuteAsk, Goto
  <2>29. CASE Restart
    <3>1. disk' \in [JobIds -> Stored \cup {None}]
      BY <2>29 DEF Restart, NoJobs
    <3>2. jobs' \in [JobIds -> Job \cup {None}]
      BY <2>29, <3>1, LoadJobsType DEF Restart
    <3>3. tab' \in [Uuids -> [id : JobIds, cron : Crons] \cup {None}]
      BY <2>29, <3>1, LoadEntriesType DEF Restart
    <3> QED
      BY <2>29, <3>1, <3>2, <3>3 DEF Restart
  <2>30. CASE UNCHANGED vars
    BY <2>30 DEF vars, history
  <2>31. ASSUME NEW p \in Procs, FileFails(p)
        PROVE  TypeInv'
    BY <2>31 DEF FileFails, Return
  <2>32. ASSUME NEW p \in Procs, ExecuteRead(p)
        PROVE  TypeInv'
    BY <2>32 DEF ExecuteRead, Goto
  <2>33. ASSUME NEW p \in Procs, Vanish(p)
        PROVE  TypeInv'
    <3>1. \A j \in Job : [j EXCEPT !.session = Lost] \in Job
      BY DEF Job, AnyCron, Procs
    <3>2. jobs' \in [JobIds -> Job \cup {None}]
      BY <2>33, <3>1 DEF Vanish
    <3>3. proc' \in [Procs -> ProcState] /\ LocalsOK'
      BY <2>33 DEF Vanish, Return
    <3>4. /\ token' \in [JobIds -> Procs \cup {None, Lost}]
          /\ failures' \in 0 .. MaxFailures
      BY <2>33 DEF Vanish
    <3>5. UNCHANGED <<tab, disk, recipe, crashes>>
      BY <2>33 DEF Vanish
    <3>6. /\ killed' \in SUBSET Procs /\ shared' \in SUBSET Procs
          /\ stranded' \in SUBSET JobIds /\ unsaved' \in SUBSET JobIds /\ torn' \in SUBSET JobIds
      BY <2>33 DEF Vanish
    <3> QED
      BY <3>2, <3>3, <3>4, <3>5, <3>6
  <2> QED
    BY <2>1, <2>2, <2>3, <2>4, <2>5, <2>6, <2>7, <2>8, <2>9, <2>10, <2>11, <2>12, <2>13, <2>14, <2>15, <2>16, <2>17, <2>18, <2>19, <2>20, <2>21, <2>22, <2>23, <2>24, <2>25, <2>26, <2>27, <2>28, <2>29, <2>30, <2>31, <2>32, <2>33 DEF Next, Call, Step, Drop, ExecutePanic
<1> QED
  BY <1>1, <1>2, PTL DEF Spec

\* Every variable keeps its type
THEOREM TypeSafe == Spec => []TypeOK
<1>1. TypeInv => TypeOK
  BY DEF TypeInv
<1> QED
  BY <1>1, TypeCorrect, PTL

(***************************************************************************)
(* running_tasks holds the tokens of executions in progress: a task leaves *)
(* its execution by removing whatever token its job has, and it can only   *)
(* hold that job's.  A token is only replaced, or removed by another task, *)
(* when two executions of the job overlap, which both remember.            *)
(***************************************************************************)
Overlap ==
  \A p, q \in Procs, i \in JobIds :
    p # q /\ Cancellable(p, i) /\ Cancellable(q, i) => p \in shared /\ q \in shared

TokenInv == TokenLive /\ Overlap

\* A step of a task that neither enters nor leaves an execution
LEMMA TokenPasses ==
  ASSUME TokenInv, NEW p \in Procs,
         \A q \in Procs : q # p => proc'[q] = proc[q],
         \A i \in JobIds : Cancellable(p, i)' <=> Cancellable(p, i),
         token' = token, shared' = shared, token \in [JobIds -> Procs \cup {None, Lost}]
  PROVE  TokenInv'
<1>1. \A q \in Procs, i \in JobIds : Cancellable(q, i)' <=> Cancellable(q, i)
  BY DEF Cancellable, On
<1> QED
  BY <1>1 DEF TokenInv, TokenLive, Overlap

THEOREM TokensLive == Spec => []TokenLive
<1> USE SchedulerConstants
<1>1. Init => TokenInv
  BY DEF Init, TokenInv, TokenLive, Overlap, Cancellable, On, Idle
<1>2. TypeInv /\ TokenInv /\ [Next]_vars => TokenInv'
  <2> SUFFICES ASSUME TypeInv, TokenInv, [Next]_vars PROVE TokenInv'
    OBVIOUS
  <2> USE DEF TypeInv, TypeOK, LocalsOK, ProcState, Idle, At, Exists, Set, Begin, bounds, history, On, Executing, Cancellable, TokenInv, TokenLive, Overlap
  <2>1. ASSUME NEW p \in Procs, NEW i \in JobIds, NEW c \in AnyCron, AddCheck(p, i, c)
        PROVE  TokenInv'
    BY <2>1 DEF AddCheck
  <2>2. ASSUME NEW p \in Procs, NEW i \in JobIds, NEW c \in AnyCron, UpdateJob(p, i, c)
        PROVE  TokenInv'
    BY <2>2 DEF UpdateJob
  <2>3. ASSUME NEW p \in Procs, NEW i \in JobIds, RemoveJob(p, i)
        PROVE  TokenInv'
    BY <2>3 DEF RemoveJob
  <2>4. ASSUME NEW p \in Procs, NEW i \in JobIds, Pause(p, i)
        PROVE  TokenInv'
    BY <2>4 DEF Pause, Save
  <2>5. ASSUME NEW p \in Procs, NEW i \in JobIds, Unpause(p, i)
        PROVE  TokenInv'
    BY <2>5 DEF Unpause, Save
  <2>6. ASSUME NEW p \in Procs, NEW i \in JobIds, KillCheck(p, i)
        PROVE  TokenInv'
    BY <2>6 DEF KillCheck
  <2>7. ASSUME NEW p \in Procs, NEW i \in JobIds, RunNow(p, i)
        PROVE  TokenInv'
    BY <2>7 DEF RunNow
  <2>8. ASSUME NEW p \in Procs, NEW u \in Uuids, Fire(p, u)
        PROVE  TokenInv'
    BY <2>8 DEF Fire
  <2>9. ASSUME NEW p \in Procs, AddCopy(p)
        PROVE  TokenInv'
    <3>1. \A q \in Procs : q # p => proc'[q] = proc[q]
      BY <2>9 DEF AddCopy, Goto, Return
    <3>2. \A i \in JobIds : Cancellable(p, i)' <=> Cancellable(p, i)
      BY <2>9 DEF AddCopy, Goto, Return
    <3>3. token' = token /\ shared' = shared
      BY <2>9 DEF AddCopy
    <3> QED
      BY <3>1, <3>2, <3>3, TokenPasses
  <2>10. ASSUME NEW p \in Procs, AddEntry(p, "addTab", "addInsert")
        PROVE  TokenInv'
    BY <2>10 DEF AddEntry
  <2>11. ASSUME NEW p \in Procs, AddInsert(p)
        PROVE  TokenInv'
    BY <2>11 DEF AddInsert, GotoBare
  <2>12. ASSUME NEW p \in Procs, RemoveEntry(p)
        PROVE  TokenInv'
    BY <2>12 DEF RemoveEntry, GotoBare
  <2>13. ASSUME NEW p \in Procs, RemoveRecipe(p)
        PROVE  TokenInv'
    BY <2>13 DEF RemoveRecipe, GotoBare
  <2>14. ASSUME NEW p \in Procs, UpdateDropEntry(p)
        PROVE  TokenInv'
    <3>1. \A q \in Procs : q # p => proc'[q] = proc[q]
      BY <2>14 DEF UpdateDropEntry, Return
    <3>2. \A i \in JobIds : Cancellable(p, i)' <=> Cancellable(p, i)
      BY <2>14 DEF UpdateDropEntry, Return
    <3>3. token' = token /\ shared' = shared
      BY <2>14 DEF UpdateDropEntry
    <3> QED
      BY <3>1, <3>2, <3>3, TokenPasses
  <2>15. ASSUME NEW p \in Procs, AddEntry(p, "updAdd", "updSet")
        PROVE  TokenInv'
    BY <2>15 DEF AddEntry
  <2>16. ASSUME NEW p \in Procs, UpdateHandle(p)
        PROVE  TokenInv'
    BY <2>16 DEF UpdateHandle, GotoBare
  <2>17. ASSUME NEW p \in Procs, KillToken(p)
        PROVE  TokenInv'
    BY <2>17 DEF KillToken, Return
  <2>18. ASSUME NEW p \in Procs, MarkRunning(p)
        PROVE  TokenInv'
    BY <2>18 DEF MarkRunning, Goto
  <2>19. ASSUME NEW p \in Procs, Persist(p)
        PROVE  TokenInv'
    <3>1. \A q \in Procs : q # p => proc'[q] = proc[q]
      BY <2>19 DEF Persist, AfterPersist, Goto, Return
    <3>2. \A i \in JobIds : Cancellable(p, i)' <=> Cancellable(p, i)
      BY <2>19 DEF Persist, AfterPersist, Goto, Return
    <3>3. token' = token /\ shared' = shared
      BY <2>19 DEF Persist
    <3> QED
      BY <3>1, <3>2, <3>3, TokenPasses
  <2>20. ASSUME NEW p \in Procs, StoreToken(p)
        PROVE  TokenInv'
    <3> DEFINE i == proc[p].id
    <3>1. /\ i \in JobIds /\ token' = [token EXCEPT ![i] = p]
          /\ \A q \in Procs : q # p => proc'[q] = proc[q]
          /\ proc[p].pc = "tok" /\ proc'[p].pc = "start" /\ proc'[p].id = i
      BY <2>20 DEF StoreToken, Goto
    <3>2. /\ \A q \in Procs : q \in shared => q \in shared'
          /\ \A q \in Procs \ {p} : Cancellable(q, i) => p \in shared' /\ q \in shared'
      BY <2>20 DEF StoreToken, Rivals
    <3>3. \A j \in JobIds : (Cancellable(p, j)' <=> j = i) /\ ~Cancellable(p, j)
      BY <3>1
    <3>4. \A q \in Procs \ {p}, j \in JobIds : Cancellable(q, j)' <=> Cancellable(q, j)
      BY <3>1
    <3>5. \A j \in JobIds : token'[j] = IF j = i THEN p ELSE token[j]
      BY <3>1
    <3> HIDE DEF i, TypeInv, TypeOK, LocalsOK, ProcState, Idle, At, Exists, Set, Begin, Cancellable
    <3>6. ASSUME NEW j \in JobIds, token'[j] \notin {None, Lost} PROVE Cancellable(token[j], j)'
      <4>1. CASE j = i
        BY <3>3, <3>5, <4>1
      <4>2. CASE j # i
        <5>1. token'[j] = token[j] /\ Cancellable(token[j], j)
          BY <3>5, <3>6, <4>2
        <5>2. token[j] \in Procs /\ token[j] # p
          <6>1. token[j] \in Procs \cup {None, Lost}
            BY DEF TypeInv, TypeOK
          <6> QED
            BY <3>3, <3>5, <3>6, <4>2, <5>1, <6>1
        <5> QED
          BY <3>4, <5>1, <5>2
      <4> QED
        BY <4>1, <4>2
    <3>7. ASSUME NEW q \in Procs, NEW j \in JobIds, Cancellable(q, j)', q \notin shared' PROVE token'[j] = q
      BY <3>2, <3>3, <3>4, <3>5, <3>7
    <3>8. Overlap'
      <4> SUFFICES ASSUME NEW q \in Procs, NEW r \in Procs, NEW j \in JobIds, q # r,
                          Cancellable(q, j)', Cancellable(r, j)'
                   PROVE  q \in shared' /\ r \in shared'
        OBVIOUS
      <4> QED
        BY <3>2, <3>3, <3>4
    <3> QED
      BY <3>6, <3>7, <3>8
  <2>21. ASSUME NEW p \in Procs, ExecuteStart(p)
        PROVE  TokenInv'
    BY <2>21 DEF ExecuteStart, Goto
  <2>22. ASSUME NEW p \in Procs, ExecuteError(p)
        PROVE  TokenInv'
    BY <2>22 DEF ExecuteError, Goto
  <2>23. ASSUME NEW p \in Procs, ExecuteCancelled(p)
        PROVE  TokenInv'
    BY <2>23 DEF ExecuteCancelled, Goto
  <2>24. ASSUME NEW p \in Procs, DropToken(p)
        PROVE  TokenInv'
    BY <2>24 DEF DropToken, WithoutToken, Goto
  <2>25. ASSUME NEW p \in Procs, ClearRunning(p)
        PROVE  TokenInv'
    BY <2>25 DEF ClearRunning, GotoBare
  <2>26. ASSUME NEW p \in Procs, PersistFails(p)
        PROVE  TokenInv'
    <3>1. \A q \in Procs : q # p => proc'[q] = proc[q]
      BY <2>26 DEF PersistFails, Goto, Return
    <3>2. \A i \in JobIds : Cancellable(p, i)' <=> Cancellable(p, i)
      BY <2>26 DEF PersistFails, Goto, Return
    <3>3. token' = token /\ shared' = shared
      BY <2>26 DEF PersistFails
    <3> QED
      BY <3>1, <3>2, <3>3, TokenPasses
  <2>27. ASSUME NEW p \in Procs, ExecuteEnd(p)
        PROVE  TokenInv'
    BY <2>27 DEF ExecuteEnd, Goto
  <2>28. ASSUME NEW p \in Procs, ExecuteAsk(p)
        PROVE  TokenInv'
    BY <2>28 DEF ExecuteAsk, Goto
  <2>29. CASE Restart
    BY <2>29 DEF Restart
  <2>30. CASE UNCHANGED vars
    BY <2>30 DEF vars, bounds, history
  <2>31. ASSUME NEW p \in Procs, FileFails(p)
        PROVE  TokenInv'
    BY <2>31 DEF FileFails, Return
  <2>32. ASSUME NEW p \in Procs, ExecuteRead(p)
        PROVE  TokenInv'
    BY <2>32 DEF ExecuteRead, Goto
  <2>33. ASSUME NEW p \in Procs, Vanish(p)
        PROVE  TokenInv'
    BY <2>33 DEF Vanish, Return
  <2> QED
    BY <2>1, <2>2, <2>3, <2>4, <2>5, <2>6, <2>7, <2>8, <2>9, <2>10, <2>11, <2>12, <2>13, <2>14, <2>15, <2>16, <2>17, <2>18, <2>19, <2>20, <2>21, <2>22, <2>23, <2>24, <2>25, <2>26, <2>27, <2>28, <2>29, <2>30, <2>31, <2>32, <2>33 DEF Next, Call, Step, Drop, ExecutePanic, Procs
<1>3. TokenInv => TokenLive
  BY DEF TokenInv
<1> QED
  BY <1>1, <1>2, <1>3, TypeCorrect, PTL DEF Spec

(***************************************************************************)
(* The session shown for a job is that of an execution of the job in       *)
(* progress, or was left by one that is no more.                           *)
(***************************************************************************)
\* A step of a task that has no session and gives none
LEMMA SessionPasses ==
  ASSUME SessionLive, NEW p \in Procs,
         \A q \in Procs : q # p => proc'[q] = proc[q],
         proc[p].pc \notin {"exec", "ask", "exit", "clear"},
         \A i \in JobIds : Exists(i)' => Exists(i) /\ jobs'[i].session = jobs[i].session,
         \A i \in stranded : i \in stranded'
  PROVE  SessionLive'
  BY DEF SessionLive, On

THEOREM SessionsLive == Spec => []SessionLive
<1> USE SchedulerConstants
<1>1. Init => SessionLive
  BY DEF Init, SessionLive, NoJobs, Exists
<1>2. TypeInv /\ SessionLive /\ [Next]_vars => SessionLive'
  <2> SUFFICES ASSUME TypeInv, SessionLive, [Next]_vars PROVE SessionLive'
    OBVIOUS
  <2> USE DEF TypeInv, TypeOK, LocalsOK, ProcState, Idle, At, Exists, Set, Begin, bounds, history, On, Executing, Cancellable, SessionLive
  <2>1. ASSUME NEW p \in Procs, NEW i \in JobIds, NEW c \in AnyCron, AddCheck(p, i, c)
        PROVE  SessionLive'
    BY <2>1 DEF AddCheck
  <2>2. ASSUME NEW p \in Procs, NEW i \in JobIds, NEW c \in AnyCron, UpdateJob(p, i, c)
        PROVE  SessionLive'
    BY <2>2 DEF UpdateJob
  <2>3. ASSUME NEW p \in Procs, NEW i \in JobIds, RemoveJob(p, i)
        PROVE  SessionLive'
    BY <2>3 DEF RemoveJob, Without
  <2>4. ASSUME NEW p \in Procs, NEW i \in JobIds, Pause(p, i)
        PROVE  SessionLive'
    BY <2>4 DEF Pause, Save
  <2>5. ASSUME NEW p \in Procs, NEW i \in JobIds, Unpause(p, i)
        PROVE  SessionLive'
    BY <2>5 DEF Unpause, Save
  <2>6. ASSUME NEW p \in Procs, NEW i \in JobIds, KillCheck(p, i)
        PROVE  SessionLive'
    BY <2>6 DEF KillCheck
  <2>7. ASSUME NEW p \in Procs, NEW i \in JobIds, RunNow(p, i)
        PROVE  SessionLive'
    BY <2>7 DEF RunNow
  <2>8. ASSUME NEW p \in Procs, NEW u \in Uuids, Fire(p, u)
        PROVE  SessionLive'
    BY <2>8 DEF Fire
  <2>9. ASSUME NEW p \in Procs, AddCopy(p)
        PROVE  SessionLive'
    <3>1. /\ stranded' = stranded /\ jobs' = jobs
          /\ \A q \in Procs : q # p => proc'[q] = proc[q]
      BY <2>9 DEF AddCopy, Goto, Return
    <3>2. proc[p].pc = "addCopy"
      BY <2>9 DEF AddCopy
    <3> QED
      BY <3>1, <3>2, SessionPasses
  <2>10. ASSUME NEW p \in Procs, AddEntry(p, "addTab", "addInsert")
        PROVE  SessionLive'
    BY <2>10 DEF AddEntry
  <2>11. ASSUME NEW p \in Procs, AddInsert(p)
        PROVE  SessionLive'
    BY <2>11 DEF AddInsert, GotoBare
  <2>12. ASSUME NEW p \in Procs, RemoveEntry(p)
        PROVE  SessionLive'
    BY <2>12 DEF RemoveEntry, GotoBare
  <2>13. ASSUME NEW p \in Procs, RemoveRecipe(p)
        PROVE  SessionLive'
    BY <2>13 DEF RemoveRecipe, GotoBare
  <2>14. ASSUME NEW p \in Procs, UpdateDropEntry(p)
        PROVE  SessionLive'
    <3>1. /\ stranded' = stranded /\ jobs' = jobs
          /\ \A q \in Procs : q # p => proc'[q] = proc[q]
      BY <2>14 DEF UpdateDropEntry, Return
    <3>2. proc[p].pc = "updTab"
      BY <2>14 DEF UpdateDropEntry
    <3> QED
      BY <3>1, <3>2, SessionPasses
  <2>15. ASSUME NEW p \in Procs, AddEntry(p, "updAdd", "updSet")
        PROVE  SessionLive'
    BY <2>15 DEF AddEntry
  <2>16. ASSUME NEW p \in Procs, UpdateHandle(p)
        PROVE  SessionLive'
    <3>1. /\ stranded' = stranded
          /\ \A i \in JobIds : Exists(i)' => Exists(i) /\ jobs'[i].session = jobs[i].session
      BY <2>16 DEF UpdateHandle, Job
    <3>2. \A q \in Procs : q # p => proc'[q] = proc[q]
      BY <2>16 DEF UpdateHandle, GotoBare
    <3>3. proc[p].pc = "updSet"
      BY <2>16 DEF UpdateHandle
    <3> QED
      BY <3>1, <3>2, <3>3, SessionPasses
  <2>17. ASSUME NEW p \in Procs, KillToken(p)
        PROVE  SessionLive'
    BY <2>17 DEF KillToken, Return
  <2>18. ASSUME NEW p \in Procs, MarkRunning(p)
        PROVE  SessionLive'
    <3>1. /\ stranded' = stranded
          /\ \A i \in JobIds : Exists(i)' => Exists(i) /\ jobs'[i].session = jobs[i].session
      BY <2>18 DEF MarkRunning, Job
    <3>2. \A q \in Procs : q # p => proc'[q] = proc[q]
      BY <2>18 DEF MarkRunning, Goto
    <3>3. proc[p].pc = "mark"
      BY <2>18 DEF MarkRunning
    <3> QED
      BY <3>1, <3>2, <3>3, SessionPasses
  <2>19. ASSUME NEW p \in Procs, Persist(p)
        PROVE  SessionLive'
    <3>1. stranded' = stranded /\ jobs' = jobs
      BY <2>19 DEF Persist
    <3>2. \A q \in Procs : q # p => proc'[q] = proc[q]
      BY <2>19 DEF Persist, AfterPersist, Goto, Return
    <3>3. proc[p].pc \in {"runPersist", "persist"}
      BY <2>19 DEF Persist
    <3> QED
      BY <3>1, <3>2, <3>3, SessionPasses
  <2>20. ASSUME NEW p \in Procs, StoreToken(p)
        PROVE  SessionLive'
    BY <2>20 DEF StoreToken, Goto
  <2>21. ASSUME NEW p \in Procs, ExecuteStart(p)
        PROVE  SessionLive'
    BY <2>21 DEF ExecuteStart, Goto
  <2>22. ASSUME NEW p \in Procs, ExecuteError(p)
        PROVE  SessionLive'
    BY <2>22 DEF ExecuteError, Goto
  <2>23. ASSUME NEW p \in Procs, ExecuteCancelled(p)
        PROVE  SessionLive'
    BY <2>23 DEF ExecuteCancelled, Goto
  <2>24. ASSUME NEW p \in Procs, DropToken(p)
        PROVE  SessionLive'
    BY <2>24 DEF DropToken, WithoutToken, Goto
  <2>25. ASSUME NEW p \in Procs, ClearRunning(p)
        PROVE  SessionLive'
    BY <2>25 DEF ClearRunning, GotoBare, Cleared
  <2>26. ASSUME NEW p \in Procs, PersistFails(p)
        PROVE  SessionLive'
    <3>1. jobs' = jobs /\ \A i \in stranded : i \in stranded'
      BY <2>26 DEF PersistFails
    <3>2. \A q \in Procs : q # p => proc'[q] = proc[q]
      BY <2>26 DEF PersistFails, Goto, Return
    <3>3. proc[p].pc \in {"runPersist", "persist"}
      BY <2>26 DEF PersistFails
    <3> QED
      BY <3>1, <3>2, <3>3, SessionPasses
  <2>27. ASSUME NEW p \in Procs, ExecuteEnd(p)
        PROVE  SessionLive'
    BY <2>27 DEF ExecuteEnd, Goto
  <2>28. ASSUME NEW p \in Procs, ExecuteAsk(p)
        PROVE  SessionLive'
    BY <2>28 DEF ExecuteAsk, Goto
  <2>29. CASE Restart
    <3>1. jobs' = LoadJobs(disk')
          /\ stranded' = {i \in JobIds : Loadable(disk', i) /\ (disk'[i].running \/ disk'[i].session # None)}
      BY <2>29 DEF Restart
    <3>2. ASSUME NEW i \in JobIds, jobs'[i] # None, jobs'[i].session # None PROVE i \in stranded'
      BY <3>1, <3>2, LoadedFlags
    <3> QED
      BY <3>2
  <2>30. CASE UNCHANGED vars
    BY <2>30 DEF vars, bounds, history
  <2>31. ASSUME NEW p \in Procs, FileFails(p)
        PROVE  SessionLive'
    BY <2>31 DEF FileFails, Return
  <2>32. ASSUME NEW p \in Procs, ExecuteRead(p)
        PROVE  SessionLive'
    BY <2>32 DEF ExecuteRead, Goto
  <2>33. ASSUME NEW p \in Procs, Vanish(p)
        PROVE  SessionLive'
    BY <2>33 DEF Vanish, Return
  <2> QED
    BY <2>1, <2>2, <2>3, <2>4, <2>5, <2>6, <2>7, <2>8, <2>9, <2>10, <2>11, <2>12, <2>13, <2>14, <2>15, <2>16, <2>17, <2>18, <2>19, <2>20, <2>21, <2>22, <2>23, <2>24, <2>25, <2>26, <2>27, <2>28, <2>29, <2>30, <2>31, <2>32, <2>33 DEF Next, Call, Step, Drop, ExecutePanic, Procs
<1> QED
  BY <1>1, <1>2, TypeCorrect, PTL DEF Spec

(***************************************************************************)
(* A job shown as running is being executed by some task, or was left so   *)
(* by one that is no more.                                                 *)
(***************************************************************************)
\* A step that leaves the flags, and no execution without a trace
LEMMA FlagPasses ==
  ASSUME FlagBacked, NEW p \in Procs,
         \A q \in Procs : q # p => proc'[q] = proc[q],
         \A i \in JobIds : Executing(p, i) => Executing(p, i)' \/ i \in stranded',
         jobs' = jobs, \A i \in stranded : i \in stranded'
  PROVE  FlagBacked'
<1>1. \A q \in Procs, i \in JobIds : q # p => (Executing(q, i) => Executing(q, i)')
  BY DEF Executing, On
<1> QED
  BY <1>1 DEF FlagBacked, Exists

THEOREM FlagsBacked == Spec => []FlagBacked
<1> USE SchedulerConstants
<1>1. Init => FlagBacked
  BY DEF Init, FlagBacked, NoJobs, Exists
<1>2. TypeInv /\ FlagBacked /\ [Next]_vars => FlagBacked'
  <2> SUFFICES ASSUME TypeInv, FlagBacked, [Next]_vars PROVE FlagBacked'
    OBVIOUS
  <2> USE DEF TypeInv, TypeOK, LocalsOK, ProcState, Idle, At, Exists, Set, Begin, bounds, history, On, Executing, Cancellable, FlagBacked
  <2>1. ASSUME NEW p \in Procs, NEW i \in JobIds, NEW c \in AnyCron, AddCheck(p, i, c)
        PROVE  FlagBacked'
    BY <2>1 DEF AddCheck
  <2>2. ASSUME NEW p \in Procs, NEW i \in JobIds, NEW c \in AnyCron, UpdateJob(p, i, c)
        PROVE  FlagBacked'
    BY <2>2 DEF UpdateJob
  <2>3. ASSUME NEW p \in Procs, NEW i \in JobIds, RemoveJob(p, i)
        PROVE  FlagBacked'
    BY <2>3 DEF RemoveJob, Without
  <2>4. ASSUME NEW p \in Procs, NEW i \in JobIds, Pause(p, i)
        PROVE  FlagBacked'
    BY <2>4 DEF Pause, Save
  <2>5. ASSUME NEW p \in Procs, NEW i \in JobIds, Unpause(p, i)
        PROVE  FlagBacked'
    BY <2>5 DEF Unpause, Save
  <2>6. ASSUME NEW p \in Procs, NEW i \in JobIds, KillCheck(p, i)
        PROVE  FlagBacked'
    BY <2>6 DEF KillCheck
  <2>7. ASSUME NEW p \in Procs, NEW i \in JobIds, RunNow(p, i)
        PROVE  FlagBacked'
    BY <2>7 DEF RunNow
  <2>8. ASSUME NEW p \in Procs, NEW u \in Uuids, Fire(p, u)
        PROVE  FlagBacked'
    BY <2>8 DEF Fire
  <2>9. ASSUME NEW p \in Procs, AddCopy(p)
        PROVE  FlagBacked'
    BY <2>9 DEF AddCopy, Goto, Return
  <2>10. ASSUME NEW p \in Procs, AddEntry(p, "addTab", "addInsert")
        PROVE  FlagBacked'
    BY <2>10 DEF AddEntry
  <2>11. ASSUME NEW p \in Procs, AddInsert(p)
        PROVE  FlagBacked'
    BY <2>11 DEF AddInsert, GotoBare
  <2>12. ASSUME NEW p \in Procs, RemoveEntry(p)
        PROVE  FlagBacked'
    BY <2>12 DEF RemoveEntry, GotoBare
  <2>13. ASSUME NEW p \in Procs, RemoveRecipe(p)
        PROVE  FlagBacked'
    BY <2>13 DEF RemoveRecipe, GotoBare
  <2>14. ASSUME NEW p \in Procs, UpdateDropEntry(p)
        PROVE  FlagBacked'
    BY <2>14 DEF UpdateDropEntry, Return
  <2>15. ASSUME NEW p \in Procs, AddEntry(p, "updAdd", "updSet")
        PROVE  FlagBacked'
    BY <2>15 DEF AddEntry
  <2>16. ASSUME NEW p \in Procs, UpdateHandle(p)
        PROVE  FlagBacked'
    BY <2>16 DEF UpdateHandle, GotoBare
  <2>17. ASSUME NEW p \in Procs, KillToken(p)
        PROVE  FlagBacked'
    BY <2>17 DEF KillToken, Return
  <2>18. ASSUME NEW p \in Procs, MarkRunning(p)
        PROVE  FlagBacked'
    BY <2>18 DEF MarkRunning, Goto
  <2>19. ASSUME NEW p \in Procs, Persist(p)
        PROVE  FlagBacked'
    BY <2>19 DEF Persist, AfterPersist, Goto, Return
  <2>20. ASSUME NEW p \in Procs, StoreToken(p)
        PROVE  FlagBacked'
    BY <2>20 DEF StoreToken, Goto
  <2>21. ASSUME NEW p \in Procs, ExecuteStart(p)
        PROVE  FlagBacked'
    BY <2>21 DEF ExecuteStart, Goto
  <2>22. ASSUME NEW p \in Procs, ExecuteError(p)
        PROVE  FlagBacked'
    BY <2>22 DEF ExecuteError, Goto
  <2>23. ASSUME NEW p \in Procs, ExecuteCancelled(p)
        PROVE  FlagBacked'
    BY <2>23 DEF ExecuteCancelled, Goto
  <2>24. ASSUME NEW p \in Procs, DropToken(p)
        PROVE  FlagBacked'
    BY <2>24 DEF DropToken, WithoutToken, Goto
  <2>25. ASSUME NEW p \in Procs, ClearRunning(p)
        PROVE  FlagBacked'
    BY <2>25 DEF ClearRunning, GotoBare, Cleared
  <2>26. ASSUME NEW p \in Procs, PersistFails(p)
        PROVE  FlagBacked'
    <3>1. jobs' = jobs /\ \A i \in stranded : i \in stranded'
      BY <2>26 DEF PersistFails
    <3>2. \A q \in Procs : q # p => proc'[q] = proc[q]
      BY <2>26 DEF PersistFails, Goto, Return
    <3>3. \A i \in JobIds : Executing(p, i) => Executing(p, i)' \/ i \in stranded'
      <4> SUFFICES ASSUME NEW i \in JobIds, Executing(p, i) PROVE Executing(p, i)' \/ i \in stranded'
        OBVIOUS
      <4>1. proc[p].pc = "runPersist" /\ proc[p].id = i
        BY <2>26 DEF PersistFails
      <4>2. CASE p \in Callers
        BY <2>26, <4>1, <4>2 DEF PersistFails
      <4>3. CASE p \in Firings
        <5>1. Goto(p, "tok")
          BY <2>26, <4>1, <4>3 DEF PersistFails
        <5> QED
          BY <4>1, <5>1 DEF Goto
      <4> QED
        BY <4>2, <4>3 DEF Procs
    <3> QED
      BY <3>1, <3>2, <3>3, FlagPasses
  <2>27. ASSUME NEW p \in Procs, ExecuteEnd(p)
        PROVE  FlagBacked'
    BY <2>27 DEF ExecuteEnd, Goto
  <2>28. ASSUME NEW p \in Procs, ExecuteAsk(p)
        PROVE  FlagBacked'
    BY <2>28 DEF ExecuteAsk, Goto
  <2>29. CASE Restart
    <3>1. jobs' = LoadJobs(disk')
          /\ stranded' = {i \in JobIds : Loadable(disk', i) /\ (disk'[i].running \/ disk'[i].session # None)}
      BY <2>29 DEF Restart
    <3>2. ASSUME NEW i \in JobIds, jobs'[i] # None, jobs'[i].running PROVE i \in stranded'
      BY <3>1, <3>2, LoadedFlags
    <3> QED
      BY <3>2
  <2>30. CASE UNCHANGED vars
    BY <2>30 DEF vars, bounds, history
  <2>31. ASSUME NEW p \in Procs, FileFails(p)
        PROVE  FlagBacked'
    <3>1. jobs' = jobs /\ stranded' = stranded
      BY <2>31 DEF FileFails
    <3>2. \A q \in Procs : q # p => proc'[q] = proc[q]
      BY <2>31 DEF FileFails, Return
    <3>3. \A i \in JobIds : ~Executing(p, i)
      BY <2>31 DEF FileFails
    <3> QED
      BY <3>1, <3>2, <3>3, FlagPasses
  <2>32. ASSUME NEW p \in Procs, ExecuteRead(p)
        PROVE  FlagBacked'
    BY <2>32 DEF ExecuteRead, Goto
  <2>33. ASSUME NEW p \in Procs, Vanish(p)
        PROVE  FlagBacked'
    BY <2>33 DEF Vanish, Return
  <2> QED
    BY <2>1, <2>2, <2>3, <2>4, <2>5, <2>6, <2>7, <2>8, <2>9, <2>10, <2>11, <2>12, <2>13, <2>14, <2>15, <2>16, <2>17, <2>18, <2>19, <2>20, <2>21, <2>22, <2>23, <2>24, <2>25, <2>26, <2>27, <2>28, <2>29, <2>30, <2>31, <2>32, <2>33 DEF Next, Call, Step, Drop, ExecutePanic, Procs
<1> QED
  BY <1>1, <1>2, TypeCorrect, PTL DEF Spec

(***************************************************************************)
(* A step of p that changes no job but i, and after which p owes i a write *)
(* of the file, cannot leave the file wrong about any job.                 *)
(***************************************************************************)
LEMMA OwingStep ==
  ASSUME TypeInv, DiskAgrees, NEW p \in Procs, NEW i \in JobIds,
         At(p, "idle") \/ proc[p].id = i,
         Owes(p, i)',
         \A q \in Procs : q # p => proc'[q] = proc[q],
         \A j \in JobIds : j # i => jobs'[j] = jobs[j],
         disk' = disk, unsaved' = unsaved
  PROVE  DiskAgrees'
<1> SUFFICES ASSUME NEW j \in JobIds, j # i
             PROVE  \/ disk'[j] = Snapshot'[j]
                    \/ j \in unsaved'
                    \/ \E q \in Procs : Owes(q, j)'
  BY DEF DiskAgrees
<1>1. jobs'[j] = jobs[j] /\ Snapshot'[j] = Snapshot[j] /\ disk'[j] = disk[j]
  BY DEF Snapshot, Exists
<1>2. ~Owes(p, j)
  BY DEF Owes, On, At
<1>3. \A q \in Procs : Owes(q, j) => Owes(q, j)'
  BY <1>2 DEF Owes, On
<1> QED
  BY <1>1, <1>3 DEF DiskAgrees

(***************************************************************************)
(* Nor can a step of p that changes no job and forgets nothing p owes.     *)
(***************************************************************************)
LEMMA PassingStep ==
  ASSUME TypeInv, DiskAgrees, NEW p \in Procs,
         \A i \in JobIds : Owes(p, i) => Owes(p, i)' \/ i \in unsaved',
         \A q \in Procs : q # p => proc'[q] = proc[q],
         jobs' = jobs \/ Snapshot' = Snapshot, disk' = disk,
         \A i \in unsaved : i \in unsaved'
  PROVE  DiskAgrees'
<1>1. \A q \in Procs, j \in JobIds : Owes(q, j) => Owes(q, j)' \/ j \in unsaved'
  BY DEF Owes, On
<1>2. Snapshot' = Snapshot
  BY DEF Snapshot, Exists
<1> QED
  BY <1>1, <1>2 DEF DiskAgrees

\* The file does not tell a session of an execution that is no more from another's
LEMMA LostSession ==
  ASSUME TypeInv, NEW p \in Procs, Vanish(p)
  PROVE  Snapshot' = Snapshot
<1> DEFINE i == proc[p].id
<1>1. CASE i \in JobIds /\ Exists(i) /\ jobs[i].session = p
  <2>1. PICK job : job = jobs[i]
    OBVIOUS
  <2>2. i \in JobIds /\ job \in Job
    BY <1>1, <2>1 DEF TypeInv, TypeOK, Exists
  <2>3. jobs' = [jobs EXCEPT ![i] = [job EXCEPT !.session = Lost]]
    BY <1>1, <2>1 DEF Vanish
  <2>4. /\ [job EXCEPT !.session = Lost] \in Job
        /\ [job EXCEPT !.session = Lost].cron = job.cron
        /\ [job EXCEPT !.session = Lost].paused = job.paused
        /\ [job EXCEPT !.session = Lost].running = job.running
        /\ [job EXCEPT !.session = Lost].session = Lost
    BY <2>2 DEF Job
  <2>5. PICK lost : lost = [job EXCEPT !.session = Lost]
    OBVIOUS
  <2>6. /\ jobs' = [jobs EXCEPT ![i] = lost] /\ lost # None /\ job # None
        /\ lost.cron = job.cron /\ lost.paused = job.paused /\ lost.running = job.running
        /\ lost.session # None /\ job.session # None
    BY <1>1, <2>1, <2>2, <2>3, <2>4, <2>5, NoneIsNoJob, SchedulerConstants
  <2> HIDE DEF i
  <2>7. jobs \in [JobIds -> Job \cup {None}]
    BY DEF TypeInv, TypeOK
  <2> QED
    BY <2>1, <2>2, <2>6, <2>7 DEF Snapshot, Exists
<1>2. CASE ~(Exists(i) /\ jobs[i].session = p)
  BY <1>2 DEF Vanish, Snapshot, Exists
<1>3. CASE i \notin JobIds
  <2>1. jobs' = jobs
    BY <1>3 DEF Vanish, TypeInv, TypeOK
  <2> QED
    BY <2>1 DEF Snapshot, Exists
<1> QED
  BY <1>1, <1>2, <1>3

(***************************************************************************)
(* Every difference between the map and the schedule file has a task that  *)
(* is about to write the file, or has had one that went without writing.   *)
(***************************************************************************)
THEOREM FileAgrees == Spec => []DiskAgrees
<1> USE SchedulerConstants
<1>1. Init => DiskAgrees
  BY DEF Init, DiskAgrees, Snapshot, NoJobs, Exists
<1>2. TypeInv /\ DiskAgrees /\ [Next]_vars => DiskAgrees'
  <2> SUFFICES ASSUME TypeInv, DiskAgrees, [Next]_vars PROVE DiskAgrees'
    OBVIOUS
  <2> USE DEF TypeInv, TypeOK, LocalsOK, ProcState, Idle, At, Exists, Set, bounds, history, On
  <2>1. ASSUME NEW p \in Procs, NEW i \in JobIds, NEW c \in AnyCron, AddCheck(p, i, c)
        PROVE  DiskAgrees'
    <3>1. \A j \in JobIds : Owes(p, j) => Owes(p, j)'
      BY <2>1 DEF AddCheck, Begin, Owes
    <3>2. \A q \in Procs : q # p => proc'[q] = proc[q]
      BY <2>1 DEF AddCheck, Begin
    <3>3. jobs' = jobs /\ disk' = disk /\ unsaved' = unsaved
      BY <2>1 DEF AddCheck
    <3> QED
      BY <3>1, <3>2, <3>3, PassingStep
  <2>2. ASSUME NEW p \in Procs, NEW i \in JobIds, NEW c \in AnyCron, UpdateJob(p, i, c)
        PROVE  DiskAgrees'
    <3>1. Owes(p, i)'
      BY <2>2 DEF UpdateJob, Begin, Owes
    <3>2. \A q \in Procs : q # p => proc'[q] = proc[q]
      BY <2>2 DEF UpdateJob, Begin
    <3>3. \A j \in JobIds : j # i => jobs'[j] = jobs[j]
      BY <2>2 DEF UpdateJob
    <3>4. disk' = disk /\ unsaved' = unsaved /\ (At(p, "idle") \/ proc[p].id = i)
      BY <2>2 DEF UpdateJob, Begin
    <3> QED
      BY <3>1, <3>2, <3>3, <3>4, OwingStep
  <2>3. ASSUME NEW p \in Procs, NEW i \in JobIds, RemoveJob(p, i)
        PROVE  DiskAgrees'
    <3>1. Owes(p, i)'
      BY <2>3 DEF RemoveJob, Begin, Without, Owes
    <3>2. \A q \in Procs : q # p => proc'[q] = proc[q]
      BY <2>3 DEF RemoveJob, Begin, Without
    <3>3. \A j \in JobIds : j # i => jobs'[j] = jobs[j]
      BY <2>3 DEF RemoveJob, Without
    <3>4. disk' = disk /\ unsaved' = unsaved /\ (At(p, "idle") \/ proc[p].id = i)
      BY <2>3 DEF RemoveJob, Begin, Without
    <3> QED
      BY <3>1, <3>2, <3>3, <3>4, OwingStep
  <2>4. ASSUME NEW p \in Procs, NEW i \in JobIds, Pause(p, i)
        PROVE  DiskAgrees'
    <3>1. Owes(p, i)'
      BY <2>4 DEF Pause, Save, Begin, Owes
    <3>2. \A q \in Procs : q # p => proc'[q] = proc[q]
      BY <2>4 DEF Pause, Save, Begin
    <3>3. \A j \in JobIds : j # i => jobs'[j] = jobs[j]
      BY <2>4 DEF Pause
    <3>4. disk' = disk /\ unsaved' = unsaved /\ (At(p, "idle") \/ proc[p].id = i)
      BY <2>4 DEF Pause, Save, Begin
    <3> QED
      BY <3>1, <3>2, <3>3, <3>4, OwingStep
  <2>5. ASSUME NEW p \in Procs, NEW i \in JobIds, Unpause(p, i)
        PROVE  DiskAgrees'
    <3>1. Owes(p, i)'
      BY <2>5 DEF Unpause, Save, Begin, Owes
    <3>2. \A q \in Procs : q # p => proc'[q] = proc[q]
      BY <2>5 DEF Unpause, Save, Begin
    <3>3. \A j \in JobIds : j # i => jobs'[j] = jobs[j]
      BY <2>5 DEF Unpause
    <3>4. disk' = disk /\ unsaved' = unsaved /\ (At(p, "idle") \/ proc[p].id = i)
      BY <2>5 DEF Unpause, Save, Begin
    <3> QED
      BY <3>1, <3>2, <3>3, <3>4, OwingStep
  <2>6. ASSUME NEW p \in Procs, NEW i \in JobIds, KillCheck(p, i)
        PROVE  DiskAgrees'
    <3>1. \A j \in JobIds : Owes(p, j) => Owes(p, j)'
      BY <2>6 DEF KillCheck, Begin, Owes
    <3>2. \A q \in Procs : q # p => proc'[q] = proc[q]
      BY <2>6 DEF KillCheck, Begin
    <3>3. jobs' = jobs /\ disk' = disk /\ unsaved' = unsaved
      BY <2>6 DEF KillCheck
    <3> QED
      BY <3>1, <3>2, <3>3, PassingStep
  <2>7. ASSUME NEW p \in Procs, NEW i \in JobIds, RunNow(p, i)
        PROVE  DiskAgrees'
    <3>1. Owes(p, i)'
      BY <2>7 DEF RunNow, Begin, Owes
    <3>2. \A q \in Procs : q # p => proc'[q] = proc[q]
      BY <2>7 DEF RunNow, Begin
    <3>3. \A j \in JobIds : j # i => jobs'[j] = jobs[j]
      BY <2>7 DEF RunNow
    <3>4. disk' = disk /\ unsaved' = unsaved /\ (At(p, "idle") \/ proc[p].id = i)
      BY <2>7 DEF RunNow, Begin
    <3> QED
      BY <3>1, <3>2, <3>3, <3>4, OwingStep
  <2>8. ASSUME NEW p \in Procs, NEW u \in Uuids, Fire(p, u)
        PROVE  DiskAgrees'
    <3>1. \A j \in JobIds : Owes(p, j) => Owes(p, j)'
      BY <2>8 DEF Fire, Begin, Owes
    <3>2. \A q \in Procs : q # p => proc'[q] = proc[q]
      BY <2>8 DEF Fire, Begin
    <3>3. jobs' = jobs /\ disk' = disk /\ unsaved' = unsaved
      BY <2>8 DEF Fire
    <3> QED
      BY <3>1, <3>2, <3>3, PassingStep
  <2>9. ASSUME NEW p \in Procs, AddCopy(p)
        PROVE  DiskAgrees'
    <3>1. \A j \in JobIds : Owes(p, j) => Owes(p, j)'
      BY <2>9 DEF AddCopy, Goto, Return, Owes
    <3>2. \A q \in Procs : q # p => proc'[q] = proc[q]
      BY <2>9 DEF AddCopy, Goto, Return
    <3>3. jobs' = jobs /\ disk' = disk /\ unsaved' = unsaved
      BY <2>9 DEF AddCopy
    <3> QED
      BY <3>1, <3>2, <3>3, PassingStep
  <2>10. ASSUME NEW p \in Procs, AddEntry(p, "addTab", "addInsert")
        PROVE  DiskAgrees'
    <3>1. \A j \in JobIds : Owes(p, j) => Owes(p, j)'
      BY <2>10 DEF AddEntry, Owes
    <3>2. \A q \in Procs : q # p => proc'[q] = proc[q]
      BY <2>10 DEF AddEntry
    <3>3. jobs' = jobs /\ disk' = disk /\ unsaved' = unsaved
      BY <2>10 DEF AddEntry
    <3> QED
      BY <3>1, <3>2, <3>3, PassingStep
  <2>11. ASSUME NEW p \in Procs, AddInsert(p)
        PROVE  DiskAgrees'
    <3>0. PICK i \in JobIds : proc[p].id = i
      BY <2>11 DEF AddInsert
    <3>1. Owes(p, i)'
      BY <2>11, <3>0 DEF AddInsert, GotoBare, Owes
    <3>2. \A q \in Procs : q # p => proc'[q] = proc[q]
      BY <2>11, <3>0 DEF AddInsert, GotoBare
    <3>3. \A j \in JobIds : j # i => jobs'[j] = jobs[j]
      BY <2>11, <3>0 DEF AddInsert
    <3>4. disk' = disk /\ unsaved' = unsaved /\ (At(p, "idle") \/ proc[p].id = i)
      BY <2>11, <3>0 DEF AddInsert, GotoBare
    <3> QED
      BY <3>1, <3>2, <3>3, <3>4, OwingStep
  <2>12. ASSUME NEW p \in Procs, RemoveEntry(p)
        PROVE  DiskAgrees'
    <3>1. \A j \in JobIds : Owes(p, j) => Owes(p, j)'
      BY <2>12 DEF RemoveEntry, GotoBare, Owes
    <3>2. \A q \in Procs : q # p => proc'[q] = proc[q]
      BY <2>12 DEF RemoveEntry, GotoBare
    <3>3. jobs' = jobs /\ disk' = disk /\ unsaved' = unsaved
      BY <2>12 DEF RemoveEntry
    <3> QED
      BY <3>1, <3>2, <3>3, PassingStep
  <2>13. ASSUME NEW p \in Procs, RemoveRecipe(p)
        PROVE  DiskAgrees'
    <3>1. \A j \in JobIds : Owes(p, j) => Owes(p, j)'
      BY <2>13 DEF RemoveRecipe, GotoBare, Owes
    <3>2. \A q \in Procs : q # p => proc'[q] = proc[q]
      BY <2>13 DEF RemoveRecipe, GotoBare
    <3>3. jobs' = jobs /\ disk' = disk /\ unsaved' = unsaved
      BY <2>13 DEF RemoveRecipe
    <3> QED
      BY <3>1, <3>2, <3>3, PassingStep
  <2>14. ASSUME NEW p \in Procs, UpdateDropEntry(p)
        PROVE  DiskAgrees'
    <3>1. \A j \in JobIds : Owes(p, j) => Owes(p, j)' \/ j \in unsaved'
      BY <2>14 DEF UpdateDropEntry, Return, Owes
    <3>2. \A q \in Procs : q # p => proc'[q] = proc[q]
      BY <2>14 DEF UpdateDropEntry, Return
    <3>3. jobs' = jobs /\ disk' = disk /\ \A j \in unsaved : j \in unsaved'
      BY <2>14 DEF UpdateDropEntry
    <3> QED
      BY <3>1, <3>2, <3>3, PassingStep
  <2>15. ASSUME NEW p \in Procs, AddEntry(p, "updAdd", "updSet")
        PROVE  DiskAgrees'
    <3>1. \A j \in JobIds : Owes(p, j) => Owes(p, j)'
      BY <2>15 DEF AddEntry, Owes
    <3>2. \A q \in Procs : q # p => proc'[q] = proc[q]
      BY <2>15 DEF AddEntry
    <3>3. jobs' = jobs /\ disk' = disk /\ unsaved' = unsaved
      BY <2>15 DEF AddEntry
    <3> QED
      BY <3>1, <3>2, <3>3, PassingStep
  <2>16. ASSUME NEW p \in Procs, UpdateHandle(p)
        PROVE  DiskAgrees'
    <3>0. PICK i \in JobIds : proc[p].id = i
      BY <2>16 DEF UpdateHandle
    <3>1. Owes(p, i)'
      BY <2>16, <3>0 DEF UpdateHandle, GotoBare, Owes
    <3>2. \A q \in Procs : q # p => proc'[q] = proc[q]
      BY <2>16, <3>0 DEF UpdateHandle, GotoBare
    <3>3. \A j \in JobIds : j # i => jobs'[j] = jobs[j]
      BY <2>16, <3>0 DEF UpdateHandle
    <3>4. disk' = disk /\ unsaved' = unsaved /\ (At(p, "idle") \/ proc[p].id = i)
      BY <2>16, <3>0 DEF UpdateHandle, GotoBare
    <3> QED
      BY <3>1, <3>2, <3>3, <3>4, OwingStep
  <2>17. ASSUME NEW p \in Procs, KillToken(p)
        PROVE  DiskAgrees'
    <3>1. \A j \in JobIds : Owes(p, j) => Owes(p, j)'
      BY <2>17 DEF KillToken, Return, Owes
    <3>2. \A q \in Procs : q # p => proc'[q] = proc[q]
      BY <2>17 DEF KillToken, Return
    <3>3. jobs' = jobs /\ disk' = disk /\ unsaved' = unsaved
      BY <2>17 DEF KillToken
    <3> QED
      BY <3>1, <3>2, <3>3, PassingStep
  <2>18. ASSUME NEW p \in Procs, MarkRunning(p)
        PROVE  DiskAgrees'
    <3>0. PICK i \in JobIds : proc[p].id = i
      BY <2>18 DEF MarkRunning
    <3>1. Owes(p, i)'
      BY <2>18, <3>0 DEF MarkRunning, Goto, Owes
    <3>2. \A q \in Procs : q # p => proc'[q] = proc[q]
      BY <2>18, <3>0 DEF MarkRunning, Goto
    <3>3. \A j \in JobIds : j # i => jobs'[j] = jobs[j]
      BY <2>18, <3>0 DEF MarkRunning
    <3>4. disk' = disk /\ unsaved' = unsaved /\ (At(p, "idle") \/ proc[p].id = i)
      BY <2>18, <3>0 DEF MarkRunning, Goto
    <3> QED
      BY <3>1, <3>2, <3>3, <3>4, OwingStep
  <2>19. ASSUME NEW p \in Procs, Persist(p)
        PROVE  DiskAgrees'
    <3>1. \A i \in JobIds : disk'[i] = Snapshot'[i]
      BY <2>19 DEF Persist, Snapshot
    <3> QED
      BY <3>1 DEF DiskAgrees
  <2>20. ASSUME NEW p \in Procs, StoreToken(p)
        PROVE  DiskAgrees'
    <3>1. \A j \in JobIds : Owes(p, j) => Owes(p, j)'
      BY <2>20 DEF StoreToken, Goto, Owes
    <3>2. \A q \in Procs : q # p => proc'[q] = proc[q]
      BY <2>20 DEF StoreToken, Goto
    <3>3. jobs' = jobs /\ disk' = disk /\ unsaved' = unsaved
      BY <2>20 DEF StoreToken
    <3> QED
      BY <3>1, <3>2, <3>3, PassingStep
  <2>21. ASSUME NEW p \in Procs, ExecuteStart(p)
        PROVE  DiskAgrees'
    <3>0. PICK i \in JobIds : proc[p].id = i
      BY <2>21 DEF ExecuteStart
    <3>1. Owes(p, i)'
      BY <2>21, <3>0 DEF ExecuteStart, Goto, Owes
    <3>2. \A q \in Procs : q # p => proc'[q] = proc[q]
      BY <2>21, <3>0 DEF ExecuteStart, Goto
    <3>3. \A j \in JobIds : j # i => jobs'[j] = jobs[j]
      BY <2>21, <3>0 DEF ExecuteStart
    <3>4. disk' = disk /\ unsaved' = unsaved /\ (At(p, "idle") \/ proc[p].id = i)
      BY <2>21, <3>0 DEF ExecuteStart, Goto
    <3> QED
      BY <3>1, <3>2, <3>3, <3>4, OwingStep
  <2>22. ASSUME NEW p \in Procs, ExecuteError(p)
        PROVE  DiskAgrees'
    <3>1. \A j \in JobIds : Owes(p, j) => Owes(p, j)'
      BY <2>22 DEF ExecuteError, Goto, Owes
    <3>2. \A q \in Procs : q # p => proc'[q] = proc[q]
      BY <2>22 DEF ExecuteError, Goto
    <3>3. jobs' = jobs /\ disk' = disk /\ unsaved' = unsaved
      BY <2>22 DEF ExecuteError
    <3> QED
      BY <3>1, <3>2, <3>3, PassingStep
  <2>23. ASSUME NEW p \in Procs, ExecuteCancelled(p)
        PROVE  DiskAgrees'
    <3>1. \A j \in JobIds : Owes(p, j) => Owes(p, j)'
      BY <2>23 DEF ExecuteCancelled, Goto, Owes
    <3>2. \A q \in Procs : q # p => proc'[q] = proc[q]
      BY <2>23 DEF ExecuteCancelled, Goto
    <3>3. jobs' = jobs /\ disk' = disk /\ unsaved' = unsaved
      BY <2>23 DEF ExecuteCancelled
    <3> QED
      BY <3>1, <3>2, <3>3, PassingStep
  <2>24. ASSUME NEW p \in Procs, DropToken(p)
        PROVE  DiskAgrees'
    <3>1. \A j \in JobIds : Owes(p, j) => Owes(p, j)'
      BY <2>24 DEF DropToken, Goto, Owes
    <3>2. \A q \in Procs : q # p => proc'[q] = proc[q]
      BY <2>24 DEF DropToken, Goto
    <3>3. jobs' = jobs /\ disk' = disk /\ unsaved' = unsaved
      BY <2>24 DEF DropToken
    <3> QED
      BY <3>1, <3>2, <3>3, PassingStep
  <2>25. ASSUME NEW p \in Procs, ClearRunning(p)
        PROVE  DiskAgrees'
    <3>0. PICK i \in JobIds : proc[p].id = i
      BY <2>25 DEF ClearRunning
    <3>1. Owes(p, i)'
      BY <2>25, <3>0 DEF ClearRunning, GotoBare, Owes
    <3>2. \A q \in Procs : q # p => proc'[q] = proc[q]
      BY <2>25, <3>0 DEF ClearRunning, GotoBare
    <3>3. \A j \in JobIds : j # i => jobs'[j] = jobs[j]
      BY <2>25, <3>0 DEF ClearRunning
    <3>4. disk' = disk /\ unsaved' = unsaved /\ (At(p, "idle") \/ proc[p].id = i)
      BY <2>25, <3>0 DEF ClearRunning, GotoBare
    <3> QED
      BY <3>1, <3>2, <3>3, <3>4, OwingStep
  <2>26. ASSUME NEW p \in Procs, PersistFails(p)
        PROVE  DiskAgrees'
    <3>1. CASE disk' = disk /\ unsaved' = unsaved \cup {proc[p].id}
      <4>1. \A j \in JobIds : Owes(p, j) => j \in unsaved'
        BY <3>1 DEF Owes
      <4>2. \A q \in Procs : q # p => proc'[q] = proc[q]
        BY <2>26 DEF PersistFails, Goto, Return
      <4>3. jobs' = jobs
        BY <2>26 DEF PersistFails
      <4> QED
        BY <3>1, <4>1, <4>2, <4>3, PassingStep
    <3>2. CASE unsaved' = JobIds
      BY <3>2 DEF DiskAgrees
    <3> QED
      BY <2>26, <3>1, <3>2 DEF PersistFails
  <2>27. ASSUME NEW p \in Procs, ExecuteEnd(p)
        PROVE  DiskAgrees'
    <3>1. \A j \in JobIds : Owes(p, j) => Owes(p, j)'
      BY <2>27 DEF ExecuteEnd, Goto, Owes
    <3>2. \A q \in Procs : q # p => proc'[q] = proc[q]
      BY <2>27 DEF ExecuteEnd, Goto
    <3>3. jobs' = jobs /\ disk' = disk /\ unsaved' = unsaved
      BY <2>27 DEF ExecuteEnd
    <3> QED
      BY <3>1, <3>2, <3>3, PassingStep
  <2>28. ASSUME NEW p \in Procs, ExecuteAsk(p)
        PROVE  DiskAgrees'
    <3>1. \A j \in JobIds : Owes(p, j) => Owes(p, j)'
      BY <2>28 DEF ExecuteAsk, Goto, Owes
    <3>2. \A q \in Procs : q # p => proc'[q] = proc[q]
      BY <2>28 DEF ExecuteAsk, Goto
    <3>3. jobs' = jobs /\ disk' = disk /\ unsaved' = unsaved
      BY <2>28 DEF ExecuteAsk
    <3> QED
      BY <3>1, <3>2, <3>3, PassingStep
  <2>29. CASE Restart
    <3>1. /\ jobs' = LoadJobs(disk')
          /\ unsaved' = {i \in JobIds : disk'[i] # None /\ ~Loadable(disk', i)}
      BY <2>29 DEF Restart
    <3>2. disk' \in [JobIds -> Stored \cup {None}] /\ jobs' \in [JobIds -> Job \cup {None}]
      <4>1. disk' \in [JobIds -> Stored \cup {None}]
        BY <2>29 DEF Restart, NoJobs
      <4> QED
        BY <3>1, <4>1, LoadJobsType
    <3>3. ASSUME NEW i \in JobIds, i \notin unsaved' PROVE disk'[i] = Snapshot'[i]
      <4>1. CASE ~Loadable(disk', i)
        BY <3>1, <3>3, <4>1 DEF LoadJobs, Snapshot
      <4>2. CASE Loadable(disk', i)
        <5>1. jobs'[i] = [uuid |-> BootUuid[i], cron |-> disk'[i].cron, paused |-> disk'[i].paused,
                          running |-> disk'[i].running, session |-> disk'[i].session]
          BY <3>1, <4>2 DEF LoadJobs
        <5>2. disk'[i] \in Stored
          BY <3>2, <4>2 DEF Loadable
        <5>3. jobs'[i] # None
          <6>1. jobs'[i] \in Job
            BY <5>1, <5>2, BootUuidType DEF Stored, Job
          <6> QED
            BY <6>1, NoneIsNoJob
        <5>4. Snapshot'[i] = [cron |-> disk'[i].cron, paused |-> disk'[i].paused,
                              running |-> disk'[i].running, session |-> disk'[i].session]
          BY <5>1, <5>2, <5>3 DEF Snapshot, Stored
        <5> QED
          BY <5>2, <5>4 DEF Stored
      <4> QED
        BY <4>1, <4>2
    <3> QED
      BY <3>3 DEF DiskAgrees
  <2>30. CASE UNCHANGED vars
    BY <2>30 DEF vars, DiskAgrees, Snapshot, Owes
  <2>31. ASSUME NEW p \in Procs, FileFails(p)
        PROVE  DiskAgrees'
    <3>1. \A j \in JobIds : Owes(p, j) => j \in unsaved'
      BY <2>31 DEF FileFails, Owes
    <3>2. \A q \in Procs : q # p => proc'[q] = proc[q]
      BY <2>31 DEF FileFails, Return
    <3>3. jobs' = jobs /\ disk' = disk /\ \A j \in unsaved : j \in unsaved'
      BY <2>31 DEF FileFails
    <3> QED
      BY <3>1, <3>2, <3>3, PassingStep
  <2>32. ASSUME NEW p \in Procs, ExecuteRead(p)
        PROVE  DiskAgrees'
    <3>1. \A j \in JobIds : Owes(p, j) => Owes(p, j)'
      BY <2>32 DEF ExecuteRead, Goto, Owes
    <3>2. \A q \in Procs : q # p => proc'[q] = proc[q]
      BY <2>32 DEF ExecuteRead, Goto
    <3>3. jobs' = jobs /\ disk' = disk /\ unsaved' = unsaved
      BY <2>32 DEF ExecuteRead
    <3> QED
      BY <3>1, <3>2, <3>3, PassingStep
  <2>33. ASSUME NEW p \in Procs, Vanish(p)
        PROVE  DiskAgrees'
    <3>1. \A j \in JobIds : Owes(p, j) => j \in unsaved'
      BY <2>33 DEF Vanish
    <3>2. \A q \in Procs : q # p => proc'[q] = proc[q]
      BY <2>33 DEF Vanish, Return
    <3>3. disk' = disk /\ \A j \in unsaved : j \in unsaved'
      BY <2>33 DEF Vanish
    <3>4. Snapshot' = Snapshot
      BY <2>33, LostSession
    <3> QED
      BY <3>1, <3>2, <3>3, <3>4, PassingStep
  <2> QED
    BY <2>1, <2>2, <2>3, <2>4, <2>5, <2>6, <2>7, <2>8, <2>9, <2>10, <2>11, <2>12, <2>13, <2>14, <2>15, <2>16, <2>17, <2>18, <2>19, <2>20, <2>21, <2>22, <2>23, <2>24, <2>25, <2>26, <2>27, <2>28, <2>29, <2>30, <2>31, <2>32, <2>33 DEF Next, Call, Step, Drop, ExecutePanic, Procs
<1> QED
  BY <1>1, <1>2, TypeCorrect, PTL DEF Spec

-----------------------------------------------------------------------------
(***************************************************************************)
(* What the scheduler keeps when one caller at a time uses it, for any     *)
(* number of jobs, firings and restarts: one cron entry per job, a recipe  *)
(* file per job, and the jobs themselves across a restart.                 *)
(*                                                                         *)
(* Firings never add, remove or change an entry, so of all tasks only one  *)
(* is ever between two steps of such a change; Hold says what it knows of  *)
(* its job there, and every job and entry but its own is in order.         *)
(***************************************************************************)
\* At most one task calls the API
Serial == \A p, q \in Callers : p = q

\* Where an addition, a removal or an update is not finished
OwnPoints == {"addCopy", "addTab", "addInsert", "rmTab", "rmRecipe", "updTab", "updAdd", "updSet"}

Roles == \A p \in Firings : proc[p].pc \notin OwnPoints

Served(i) == tab[jobs[i].uuid] = [id |-> i, cron |-> jobs[i].cron]

JobsServed ==
  \A i \in JobIds :
    Exists(i) /\ Parses(jobs[i].cron) =>
      Served(i) \/ (i \in torn) \/ \E p \in Procs : On(p, i, {"updTab", "updAdd", "updSet"})

EntriesKnown ==
  \A u \in Uuids :
    tab[u] # None =>
      \/ Exists(tab[u].id) /\ jobs[tab[u].id].uuid = u
      \/ tab[u].id \in torn
      \/ \E p \in Procs : On(p, tab[u].id, {"addInsert", "rmTab", "updSet"}) /\ proc[p].uuid = u

\* No job's handle is that of another's entry
OwnEntry == \A i \in JobIds : Exists(i) => tab[jobs[i].uuid] = None \/ tab[jobs[i].uuid].id = i

Copied == \A i \in JobIds : Exists(i) => i \in recipe

\* What a task knows of its job at each of its points
Hold(p) ==
  LET i == proc[p].id
      u == proc[p].uuid
      point == proc[p].pc
  IN  /\ point \in {"addCopy", "addTab", "addInsert", "rmTab", "rmRecipe"} => ~Exists(i)
      /\ point \in {"addTab", "addInsert"} => i \in recipe
      /\ point \in {"updTab", "updAdd", "updSet"} => Exists(i) /\ jobs[i].cron = proc[p].cron
      /\ point \in {"addInsert", "updSet"} => tab[u] = [id |-> i, cron |-> proc[p].cron]
      /\ point = "updTab" => jobs[i].uuid = u
      /\ point \in {"rmTab", "updTab"} => tab[u] = None \/ tab[u].id = i
      /\ point \in {"updAdd", "updSet"} => tab[jobs[i].uuid] = None

InOrder == JobsServed /\ EntriesKnown /\ OwnEntry /\ Copied /\ \A p \in Procs : Hold(p)

SInv == Roles /\ InOrder

-----------------------------------------------------------------------------
\* Nobody but p is at a point of its own
Aside(p) == \A q \in Procs \ {p} : proc[q].pc \notin OwnPoints

\* InOrder, when p is the only one that may be
OrderedBut(p) ==
  /\ \A i \in JobIds :
       Exists(i) /\ Parses(jobs[i].cron) =>
         Served(i) \/ (i \in torn) \/ On(p, i, {"updTab", "updAdd", "updSet"})
  /\ \A u \in Uuids :
       tab[u] # None =>
         \/ Exists(tab[u].id) /\ jobs[tab[u].id].uuid = u
         \/ tab[u].id \in torn
         \/ On(p, tab[u].id, {"addInsert", "rmTab", "updSet"}) /\ proc[p].uuid = u
  /\ OwnEntry
  /\ Copied
  /\ Hold(p)

LEMMA OneOwner ==
  ASSUME Serial, Roles, NEW p \in Procs, p \in Callers \/ proc[p].pc \in OwnPoints
  PROVE  p \in Callers /\ Aside(p)
  BY DEF Serial, Roles, Aside, Procs

OneMatters == \A p \in Procs : Aside(p) => (InOrder <=> OrderedBut(p))

LEMMA Alone == OneMatters
PROOF
  <1> SUFFICES ASSUME NEW p \in Procs, Aside(p) PROVE InOrder <=> OrderedBut(p)
    BY DEF OneMatters
  <1>1. \A q \in Procs \ {p} : Hold(q) BY DEF Aside, OwnPoints, Hold
  <1>2. \A q \in Procs \ {p}, i \in JobIds :
          /\ ~On(q, i, {"updTab", "updAdd", "updSet"})
          /\ ~On(q, i, {"addInsert", "rmTab", "updSet"})
    BY DEF Aside, OwnPoints, On
  <1>3. \A u \in Uuids, q \in Procs \ {p} : ~On(q, tab[u].id, {"addInsert", "rmTab", "updSet"})
    BY DEF Aside, OwnPoints, On
  <1> QED BY <1>1, <1>2, <1>3 DEF InOrder, OrderedBut, JobsServed, EntriesKnown

\* A step of p, the only task that may be at a point of its own
LEMMA OwnerStep ==
  ASSUME Serial, SInv, NEW p \in Procs, p \in Callers,
         \A q \in Procs : q # p => proc'[q] = proc[q],
         OrderedBut(p) => OrderedBut(p)'
  PROVE  SInv'
PROOF
  <1>1. Aside(p) BY OneOwner DEF SInv
  <1>2. OrderedBut(p) BY <1>1, Alone DEF SInv, OneMatters
  <1>3. Aside(p)' BY <1>1 DEF Aside
  <1>4. OneMatters' BY Alone, PTL
  <1>5. InOrder' BY <1>2, <1>3, <1>4 DEF OneMatters
  <1>6. Roles'
    <2>1. \A q \in Firings : q \in Procs /\ q # p BY SchedulerConstants DEF Procs
    <2> QED BY <2>1 DEF SInv, Roles
  <1> QED BY <1>5, <1>6 DEF SInv

\* A step that changes no entry, no recipe and no job's handle or cron
LEMMA SideStep ==
  ASSUME TypeInv, SInv, NEW p \in Procs,
         \A q \in Procs : q # p => proc'[q] = proc[q],
         proc[p].pc \notin OwnPoints, proc'[p].pc \notin OwnPoints,
         tab' = tab, recipe' = recipe, torn' = torn,
         \A i \in JobIds : /\ jobs'[i] = None <=> jobs[i] = None
                           /\ jobs[i] # None => jobs'[i].cron = jobs[i].cron /\ jobs'[i].uuid = jobs[i].uuid
  PROVE  SInv'
PROOF
  <1>1. Roles' BY DEF SInv, Roles, Procs
  <1>2. Copied' /\ OwnEntry' BY DEF SInv, InOrder, Copied, OwnEntry, Exists
  <1>3. \A q \in Procs, i \in JobIds :
          /\ On(q, i, {"updTab", "updAdd", "updSet"}) => On(q, i, {"updTab", "updAdd", "updSet"})'
          /\ On(q, i, {"addInsert", "rmTab", "updSet"})
               => On(q, i, {"addInsert", "rmTab", "updSet"})' /\ proc'[q].uuid = proc[q].uuid
    BY DEF OwnPoints, On
  <1>4. JobsServed' BY <1>3 DEF SInv, InOrder, JobsServed, Served, Exists, Parses
  <1>5. EntriesKnown'
    <2> SUFFICES ASSUME NEW u \in Uuids, tab'[u] # None
                 PROVE  \/ Exists(tab[u].id)' /\ jobs'[tab[u].id].uuid = u
                        \/ tab[u].id \in torn
                        \/ \E q \in Procs : On(q, tab[u].id, {"addInsert", "rmTab", "updSet"})' /\ proc'[q].uuid = u
      BY DEF EntriesKnown
    <2>1. tab[u] # None /\ tab[u].id \in JobIds BY DEF TypeInv, TypeOK
    <2> QED BY <1>3, <2>1 DEF SInv, InOrder, EntriesKnown, Exists
  <1>6. ASSUME NEW q \in Procs PROVE Hold(q)'
    <2>1. CASE q = p BY <2>1 DEF Hold, OwnPoints
    <2>2. CASE q # p
      <3>1. proc'[q] = proc[q] /\ Hold(q) BY <2>2 DEF SInv, InOrder
      <3>2. proc[q].pc # "idle" => proc[q].id \in JobIds BY DEF TypeInv, LocalsOK
      <3> QED BY <3>1, <3>2 DEF Hold, Exists
    <2> QED BY <2>1, <2>2
  <1> QED BY <1>1, <1>2, <1>4, <1>5, <1>6 DEF SInv, InOrder

-----------------------------------------------------------------------------
LEMMA SInit == Init => SInv
PROOF
  <1> SUFFICES ASSUME Init PROVE SInv OBVIOUS
  <1>1. \A p \in Procs : proc[p].pc = "idle" BY DEF Init, Idle
  <1>2. Roles BY <1>1 DEF Roles, Procs, OwnPoints
  <1>3. \A p \in Procs : Hold(p) BY <1>1 DEF Hold
  <1>4. JobsServed /\ EntriesKnown /\ OwnEntry /\ Copied
    BY DEF Init, NoJobs, Exists, JobsServed, EntriesKnown, OwnEntry, Copied
  <1> QED BY <1>2, <1>3, <1>4 DEF SInv, InOrder

\* The handle of a new entry is nobody's
LEMMA NewUuidFresh ==
  ASSUME FreshUuids # {}
  PROVE  /\ NewUuid \in Uuids /\ tab[NewUuid] = None
         /\ \A i \in JobIds : Exists(i) => jobs[i].uuid # NewUuid
         /\ \A p \in Procs : proc[p].uuid # NewUuid
PROOF
  <1>1. NewUuid \in FreshUuids BY DEF NewUuid
  <1> QED BY <1>1 DEF FreshUuids, UuidsInUse

LEMMA AdditionSteps ==
  ASSUME Serial, TypeInv, TypeInv', SInv, NEW p \in Procs,
         \/ \E i \in JobIds, c \in AnyCron : p \in Callers /\ AddCheck(p, i, c)
         \/ AddCopy(p) \/ AddEntry(p, "addTab", "addInsert") \/ AddInsert(p)
  PROVE  SInv'
PROOF
  <1> USE DEF TypeInv, TypeOK, LocalsOK, ProcState, Idle, At, Exists, Set, history
  <1>1. \A q \in Procs : q # p => proc'[q] = proc[q]
    BY DEF AddCheck, AddCopy, AddEntry, AddInsert, Begin, Goto, GotoBare, Return
  <1>2. p \in Callers
    BY OneOwner DEF SInv, OwnPoints, AddCheck, AddCopy, AddEntry, AddInsert
  <1>3. SUFFICES ASSUME OrderedBut(p) PROVE OrderedBut(p)'
    BY <1>1, <1>2, OwnerStep
  <1>4. ASSUME NEW i \in JobIds, NEW c \in AnyCron, AddCheck(p, i, c) PROVE OrderedBut(p)'
    BY <1>3, <1>4 DEF AddCheck, Begin, OrderedBut, Hold, OwnEntry, Copied, Served, On
  <1>5. CASE AddCopy(p)
    BY <1>3, <1>5 DEF AddCopy, Goto, Return, OrderedBut, Hold, OwnEntry, Copied, Served, On
  <1>6. CASE AddEntry(p, "addTab", "addInsert")
    BY <1>3, <1>6, NewUuidFresh DEF AddEntry, OrderedBut, Hold, OwnEntry, Copied, Served, On
  <1>7. CASE AddInsert(p)
    <2> DEFINE i == proc[p].id
               u == proc[p].uuid
    <2>1. /\ i \in JobIds /\ u \in Uuids /\ ~Exists(i) /\ i \in recipe
          /\ tab[u] = [id |-> i, cron |-> proc[p].cron]
      BY <1>3, <1>7 DEF AddInsert, OrderedBut, Hold
    <2>2. /\ jobs'[i].uuid = u /\ jobs'[i].cron = proc[p].cron /\ jobs'[i] # None
          /\ \A j \in JobIds \ {i} : jobs'[j] = jobs[j]
          /\ tab' = tab /\ recipe' = recipe /\ torn' = torn
      <3>1. jobs'[i] = [uuid |-> u, cron |-> proc[p].cron, paused |-> FALSE, running |-> FALSE, session |-> None]
        BY <1>7, <2>1 DEF AddInsert
      <3>2. proc[p].cron \in AnyCron BY <1>7 DEF AddInsert, AnyCron
      <3>3. jobs'[i] \in Job BY <2>1, <3>1, <3>2 DEF Job
      <3> QED BY <1>7, <3>1, <3>3, NoneIsNoJob DEF AddInsert
    <2>9. \A v \in Uuids : tab[v] # None => tab[v].id \in JobIds OBVIOUS
    <2>3. proc'[p].pc = "persist" /\ proc'[p].id = i BY <1>7 DEF AddInsert, GotoBare
    <2> HIDE DEF i, u, TypeInv, TypeOK, LocalsOK, ProcState, Idle, At, Set
    <2>4. ASSUME NEW j \in JobIds, Exists(j)', Parses(jobs'[j].cron) PROVE Served(j)' \/ j \in torn
      <3>1. CASE j = i BY <2>1, <2>2, <3>1 DEF Served
      <3>2. CASE j # i
        <4>1. Served(j) \/ j \in torn BY <1>3, <2>2, <2>4, <3>2 DEF OrderedBut, On, i
        <4> QED BY <2>2, <3>2, <4>1 DEF Served
      <3> QED BY <3>1, <3>2
    <2>5. ASSUME NEW v \in Uuids, tab'[v] # None
          PROVE  (Exists(tab[v].id)' /\ jobs'[tab'[v].id].uuid = v) \/ tab[v].id \in torn
      <3>1. CASE On(p, tab[v].id, {"addInsert", "rmTab", "updSet"}) /\ proc[p].uuid = v
        BY <2>1, <2>2, <3>1 DEF On, i, u
      <3>2. CASE Exists(tab[v].id) /\ jobs[tab[v].id].uuid = v
        BY <2>1, <2>2, <2>5, <2>9, <3>2
      <3> QED BY <1>3, <2>2, <2>5, <3>1, <3>2 DEF OrderedBut
    <2>6. OwnEntry' BY <1>3, <2>1, <2>2 DEF OrderedBut, OwnEntry
    <2>7. Copied' BY <1>3, <2>1, <2>2 DEF OrderedBut, Copied
    <2>8. Hold(p)' BY <2>3 DEF Hold
    <2> QED BY <2>2, <2>4, <2>5, <2>6, <2>7, <2>8 DEF OrderedBut
  <1> QED BY <1>4, <1>5, <1>6, <1>7

LEMMA RemovalSteps ==
  ASSUME Serial, TypeInv, TypeInv', SInv, NEW p \in Procs,
         \/ \E i \in JobIds : p \in Callers /\ RemoveJob(p, i)
         \/ RemoveEntry(p) \/ RemoveRecipe(p) \/ FileFails(p)
  PROVE  SInv'
PROOF
  <1> USE DEF TypeInv, TypeOK, LocalsOK, ProcState, Idle, At, Exists, Set, history
  <1>1. \A q \in Procs : q # p => proc'[q] = proc[q]
    BY DEF RemoveJob, RemoveEntry, RemoveRecipe, FileFails, Begin, GotoBare, Return
  <1>2. p \in Callers
    BY OneOwner DEF SInv, OwnPoints, RemoveJob, RemoveEntry, RemoveRecipe, FileFails
  <1>3. SUFFICES ASSUME OrderedBut(p) PROVE OrderedBut(p)'
    BY <1>1, <1>2, OwnerStep
  <1>4. ASSUME NEW i \in JobIds, RemoveJob(p, i) PROVE OrderedBut(p)'
    BY <1>3, <1>4 DEF RemoveJob, Without, Begin, OrderedBut, Hold, OwnEntry, Copied, Served, On
  <1>5. CASE RemoveEntry(p)
    BY <1>3, <1>5 DEF RemoveEntry, DropEntry, GotoBare, OrderedBut, Hold, OwnEntry, Copied, Served, On
  <1>6. CASE RemoveRecipe(p)
    BY <1>3, <1>6 DEF RemoveRecipe, GotoBare, OrderedBut, Hold, OwnEntry, Copied, Served, On
  <1>7. CASE FileFails(p)
    BY <1>3, <1>7 DEF FileFails, Return, OrderedBut, Hold, OwnEntry, Copied, Served, On
  <1> QED BY <1>4, <1>5, <1>6, <1>7

LEMMA UpdateSteps ==
  ASSUME Serial, TypeInv, TypeInv', SInv, NEW p \in Procs,
         \/ \E i \in JobIds, c \in AnyCron : p \in Callers /\ UpdateJob(p, i, c)
         \/ UpdateDropEntry(p) \/ AddEntry(p, "updAdd", "updSet") \/ UpdateHandle(p)
  PROVE  SInv'
PROOF
  <1> USE DEF TypeInv, TypeOK, LocalsOK, ProcState, Idle, At, Exists, Set, history
  <1>1. \A q \in Procs : q # p => proc'[q] = proc[q]
    BY DEF UpdateJob, UpdateDropEntry, AddEntry, UpdateHandle, Begin, GotoBare, Return
  <1>2. p \in Callers
    BY OneOwner DEF SInv, OwnPoints, UpdateJob, UpdateDropEntry, AddEntry, UpdateHandle
  <1>3. SUFFICES ASSUME OrderedBut(p) PROVE OrderedBut(p)'
    BY <1>1, <1>2, OwnerStep
  <1>4. ASSUME NEW i \in JobIds, NEW c \in AnyCron, UpdateJob(p, i, c) PROVE OrderedBut(p)'
    <2>1. /\ jobs'[i].uuid = jobs[i].uuid /\ jobs'[i].cron = c /\ jobs'[i] # None /\ jobs[i] # None
          /\ \A j \in JobIds \ {i} : jobs'[j] = jobs[j]
          /\ tab' = tab /\ recipe' = recipe /\ torn' = torn
      <3>1. jobs[i] \in Job /\ jobs' = [jobs EXCEPT ![i].cron = c] BY <1>4 DEF UpdateJob
      <3>2. jobs'[i] \in Job BY <3>1 DEF Job
      <3> QED BY <1>4, <3>1, <3>2, NoneIsNoJob DEF UpdateJob, Job
    <2>2. /\ proc[p].pc = "idle" /\ proc'[p].pc = "updTab" /\ proc'[p].id = i
          /\ proc'[p].cron = c /\ proc'[p].uuid = jobs[i].uuid
      BY <1>4 DEF UpdateJob, Begin
    <2>0. \A v \in Uuids : tab[v] # None => tab[v].id \in JobIds OBVIOUS
    <2> HIDE DEF TypeInv, TypeOK, LocalsOK, ProcState, Idle, At, Set
    <2>3. OwnEntry' /\ Copied' BY <1>3, <2>1 DEF OrderedBut, OwnEntry, Copied
    <2>4. Hold(p)' BY <1>3, <2>1, <2>2 DEF OrderedBut, OwnEntry, Hold
    <2>5. ASSUME NEW j \in JobIds, Exists(j)', Parses(jobs'[j].cron)
          PROVE  Served(j)' \/ (j \in torn) \/ On(p, j, {"updTab", "updAdd", "updSet"})'
      BY <1>3, <2>1, <2>2, <2>5 DEF OrderedBut, Served, On
    <2>6. ASSUME NEW v \in Uuids, tab'[v] # None
          PROVE  (Exists(tab[v].id)' /\ jobs'[tab'[v].id].uuid = v) \/ tab[v].id \in torn
      BY <1>3, <2>0, <2>1, <2>2, <2>6 DEF OrderedBut, On
    <2> QED BY <2>1, <2>3, <2>4, <2>5, <2>6 DEF OrderedBut
  <1>5. CASE UpdateDropEntry(p)
    BY <1>3, <1>5 DEF UpdateDropEntry, DropEntry, Return, OrderedBut, Hold, OwnEntry, Copied, Served, On
  <1>6. CASE AddEntry(p, "updAdd", "updSet")
    BY <1>3, <1>6, NewUuidFresh DEF AddEntry, OrderedBut, Hold, OwnEntry, Copied, Served, On
  <1>7. CASE UpdateHandle(p)
    <2> DEFINE i == proc[p].id
               u == proc[p].uuid
    <2>1. /\ i \in JobIds /\ u \in Uuids /\ Exists(i) /\ jobs[i].cron = proc[p].cron
          /\ tab[u] = [id |-> i, cron |-> proc[p].cron] /\ tab[jobs[i].uuid] = None
      BY <1>3, <1>7 DEF UpdateHandle, OrderedBut, Hold
    <2>2. /\ jobs'[i].uuid = u /\ jobs'[i].cron = jobs[i].cron /\ jobs'[i] # None
          /\ \A j \in JobIds \ {i} : jobs'[j] = jobs[j]
          /\ tab' = tab /\ recipe' = recipe /\ torn' = torn
      <3>1. jobs[i] \in Job /\ jobs' = [jobs EXCEPT ![i].uuid = u] BY <1>7, <2>1 DEF UpdateHandle
      <3>2. jobs'[i] \in Job BY <2>1, <3>1 DEF Job
      <3> QED BY <1>7, <2>1, <3>1, <3>2, NoneIsNoJob DEF UpdateHandle, Job
    <2>9. \A v \in Uuids : tab[v] # None => tab[v].id \in JobIds OBVIOUS
    <2>3. proc'[p].pc = "persist" /\ proc'[p].id = i BY <1>7 DEF UpdateHandle, GotoBare
    <2> HIDE DEF i, u, TypeInv, TypeOK, LocalsOK, ProcState, Idle, At, Set
    <2>4. ASSUME NEW j \in JobIds, Exists(j)', Parses(jobs'[j].cron) PROVE Served(j)' \/ j \in torn
      <3>1. CASE j = i BY <2>1, <2>2, <3>1 DEF Served
      <3>2. CASE j # i
        <4>1. Served(j) \/ j \in torn BY <1>3, <2>2, <2>4, <3>2 DEF OrderedBut, On, i
        <4> QED BY <2>2, <3>2, <4>1 DEF Served
      <3> QED BY <3>1, <3>2
    <2>5. ASSUME NEW v \in Uuids, tab'[v] # None
          PROVE  (Exists(tab[v].id)' /\ jobs'[tab'[v].id].uuid = v) \/ tab[v].id \in torn
      <3>1. CASE On(p, tab[v].id, {"addInsert", "rmTab", "updSet"}) /\ proc[p].uuid = v
        BY <2>1, <2>2, <3>1 DEF On, i, u
      <3>2. CASE Exists(tab[v].id) /\ jobs[tab[v].id].uuid = v
        <4>1. tab[v].id # i BY <2>1, <2>2, <2>5, <3>2
        <4> QED BY <2>2, <2>5, <2>9, <3>2, <4>1
      <3> QED BY <1>3, <2>2, <2>5, <3>1, <3>2 DEF OrderedBut
    <2>6. OwnEntry' BY <1>3, <2>1, <2>2 DEF OrderedBut, OwnEntry
    <2>7. Copied' BY <1>3, <2>1, <2>2 DEF OrderedBut, Copied
    <2>8. Hold(p)' BY <2>3 DEF Hold
    <2> QED BY <2>2, <2>4, <2>5, <2>6, <2>7, <2>8 DEF OrderedBut
  <1> QED BY <1>4, <1>5, <1>6, <1>7

\* Changes of a job's flag, session or pause state
SameSchedules ==
  \A i \in JobIds : /\ jobs'[i] = None <=> jobs[i] = None
                    /\ jobs[i] # None => jobs'[i].cron = jobs[i].cron /\ jobs'[i].uuid = jobs[i].uuid

LEMMA OneJobChanges ==
  ASSUME TypeInv, NEW i \in JobIds, jobs[i] # None, NEW job \in Job,
         job.cron = jobs[i].cron, job.uuid = jobs[i].uuid, jobs' = [jobs EXCEPT ![i] = job]
  PROVE  SameSchedules
  BY NoneIsNoJob DEF TypeInv, TypeOK, SameSchedules

LEMMA FlagsChange ==
  ASSUME TypeInv, NEW i \in JobIds, jobs[i] # None, NEW value \in BOOLEAN,
         NEW s \in Procs \cup {None, Lost},
         \/ jobs' = [jobs EXCEPT ![i].running = value]
         \/ jobs' = [jobs EXCEPT ![i].paused = value]
         \/ jobs' = [jobs EXCEPT ![i].session = s]
         \/ jobs' = [jobs EXCEPT ![i] = Cleared(@)]
  PROVE  SameSchedules
PROOF
  <1>1. PICK job : job = jobs[i] OBVIOUS
  <1>2. job \in Job BY <1>1 DEF TypeInv, TypeOK
  <1>3. CASE jobs' = [jobs EXCEPT ![i].running = value]
    <2>1. [job EXCEPT !.running = value] \in Job BY <1>2 DEF Job
    <2>2. [job EXCEPT !.running = value].cron = job.cron /\ [job EXCEPT !.running = value].uuid = job.uuid
      BY <1>2 DEF Job
    <2> QED BY <1>1, <1>3, <2>1, <2>2, OneJobChanges
  <1>4. CASE jobs' = [jobs EXCEPT ![i].paused = value]
    <2>1. [job EXCEPT !.paused = value] \in Job BY <1>2 DEF Job
    <2>2. [job EXCEPT !.paused = value].cron = job.cron /\ [job EXCEPT !.paused = value].uuid = job.uuid
      BY <1>2 DEF Job
    <2> QED BY <1>1, <1>4, <2>1, <2>2, OneJobChanges
  <1>5. CASE jobs' = [jobs EXCEPT ![i].session = s]
    <2>1. [job EXCEPT !.session = s] \in Job BY <1>2 DEF Job
    <2>2. [job EXCEPT !.session = s].cron = job.cron /\ [job EXCEPT !.session = s].uuid = job.uuid
      BY <1>2 DEF Job
    <2> QED BY <1>1, <1>5, <2>1, <2>2, OneJobChanges
  <1>6. CASE jobs' = [jobs EXCEPT ![i] = Cleared(@)]
    <2>1. Cleared(job) \in Job BY <1>2 DEF Job, Cleared
    <2>2. Cleared(job).cron = job.cron /\ Cleared(job).uuid = job.uuid BY <1>2 DEF Job, Cleared
    <2> QED BY <1>1, <1>6, <2>1, <2>2, OneJobChanges
  <1> QED BY <1>3, <1>4, <1>5, <1>6

\* What neither adds, removes nor updates a job
SideSteps(p) ==
  \/ \E i \in JobIds : Pause(p, i) \/ Unpause(p, i) \/ KillCheck(p, i) \/ RunNow(p, i)
  \/ \E u \in Uuids : Fire(p, u)
  \/ KillToken(p) \/ MarkRunning(p) \/ Persist(p) \/ PersistFails(p) \/ StoreToken(p)
  \/ ExecuteRead(p) \/ ExecuteStart(p) \/ ExecuteError(p) \/ ExecuteCancelled(p) \/ ExecuteEnd(p)
  \/ ExecuteAsk(p) \/ DropToken(p) \/ ClearRunning(p)

LEMMA SideStepsKeep ==
  ASSUME TypeInv, NEW p \in Procs, SideSteps(p)
  PROVE  /\ \A q \in Procs : q # p => proc'[q] = proc[q]
         /\ proc[p].pc \notin OwnPoints /\ proc'[p].pc \notin OwnPoints
         /\ tab' = tab /\ recipe' = recipe /\ torn' = torn
         /\ SameSchedules
PROOF
  <1> USE DEF history
  <1>0. ASSUME jobs' = jobs PROVE SameSchedules BY <1>0 DEF SameSchedules
  <1>1. proc \in [Procs -> ProcState] /\ (proc[p].pc # "idle" => proc[p].id \in JobIds)
    BY DEF TypeInv, TypeOK, LocalsOK
  <1> DEFINE Goal == /\ \A q \in Procs : q # p => proc'[q] = proc[q]
                     /\ proc[p].pc \notin OwnPoints /\ proc'[p].pc \notin OwnPoints
                     /\ tab' = tab /\ recipe' = recipe /\ torn' = torn
  <1>2. ASSUME NEW i \in JobIds, Pause(p, i) \/ Unpause(p, i) PROVE Goal /\ SameSchedules
    <2>1. Goal BY <1>1, <1>2 DEF Pause, Unpause, Save, Begin, Set, Idle, OwnPoints
    <2>2. SameSchedules BY <1>2, FlagsChange DEF Pause, Unpause, Exists
    <2> QED BY <2>1, <2>2
  <1>3. ASSUME NEW i \in JobIds, KillCheck(p, i) PROVE Goal /\ SameSchedules
    BY <1>0, <1>1, <1>3 DEF KillCheck, Begin, Set, Idle, OwnPoints
  <1>4. ASSUME NEW i \in JobIds, RunNow(p, i) PROVE Goal /\ SameSchedules
    <2>1. Goal BY <1>1, <1>4 DEF RunNow, Begin, Set, Idle, OwnPoints
    <2>2. SameSchedules BY <1>4, FlagsChange DEF RunNow, Exists
    <2> QED BY <2>1, <2>2
  <1>5. ASSUME NEW u \in Uuids, Fire(p, u) PROVE Goal /\ SameSchedules
    BY <1>0, <1>1, <1>5 DEF Fire, Begin, Set, Idle, OwnPoints
  <1>6. CASE KillToken(p)
    BY <1>0, <1>1, <1>6 DEF KillToken, At, Return, Idle, OwnPoints
  <1>7. CASE MarkRunning(p)
    <2>1. Goal BY <1>1, <1>7 DEF MarkRunning, At, Goto, Set, OwnPoints
    <2>2. SameSchedules BY <1>0, <1>1, <1>7, FlagsChange DEF MarkRunning, At, Exists
    <2> QED BY <2>1, <2>2
  <1>8. CASE Persist(p)
    BY <1>0, <1>1, <1>8 DEF Persist, AfterPersist, At, Goto, Return, Set, Idle, OwnPoints
  <1>9. CASE PersistFails(p)
    BY <1>0, <1>1, <1>9 DEF PersistFails, At, Goto, Return, Set, Idle, OwnPoints
  <1>10. CASE StoreToken(p) BY <1>0, <1>1, <1>10 DEF StoreToken, At, Goto, Set, OwnPoints
  <1>11. CASE ExecuteStart(p)
    <2>1. Goal BY <1>1, <1>11 DEF ExecuteStart, At, Goto, Set, OwnPoints
    <2>2. SameSchedules BY <1>0, <1>1, <1>11, FlagsChange DEF ExecuteStart, At, Exists
    <2> QED BY <2>1, <2>2
  <1>12. CASE ExecuteRead(p) \/ ExecuteError(p) \/ ExecuteCancelled(p) \/ ExecuteEnd(p) \/ ExecuteAsk(p)
    BY <1>0, <1>1, <1>12 DEF ExecuteRead, ExecuteError, ExecuteCancelled, ExecuteEnd, ExecuteAsk, At, Goto, Set, OwnPoints
  <1>13. CASE DropToken(p) BY <1>0, <1>1, <1>13 DEF DropToken, At, Goto, Set, OwnPoints
  <1>14. CASE ClearRunning(p)
    <2>1. Goal BY <1>1, <1>14 DEF ClearRunning, At, GotoBare, Set, OwnPoints
    <2>2. SameSchedules BY <1>0, <1>1, <1>14, FlagsChange DEF ClearRunning, At, Exists
    <2> QED BY <2>1, <2>2
  <1> QED
    BY <1>2, <1>3, <1>4, <1>5, <1>6, <1>7, <1>8, <1>9, <1>10, <1>11, <1>12, <1>13, <1>14 DEF SideSteps

\* Of a task that is no more, only the schedule whose entry it was changing is out
\* of order
LEMMA VanishOrders ==
  ASSUME TypeInv, SInv, NEW p \in Procs, Vanish(p)
  PROVE  SInv'
PROOF
  <1>1. /\ tab' = tab /\ recipe' = recipe /\ torn' = torn \cup {j \in JobIds : Changing(p, j)}
        /\ proc'[p].pc = "idle" /\ \A q \in Procs : q # p => proc'[q] = proc[q]
    BY DEF Vanish, Return, Idle, TypeInv, TypeOK
  <1>2. SameSchedules
    <2>1. CASE jobs' = jobs BY <2>1 DEF SameSchedules
    <2>2. CASE jobs' # jobs
      <3>1. /\ proc[p].id \in JobIds /\ jobs[proc[p].id] # None
            /\ jobs' = [jobs EXCEPT ![proc[p].id].session = Lost]
        BY <2>2 DEF Vanish, Exists, TypeInv, TypeOK
      <3> QED BY <3>1, FlagsChange
    <2> QED BY <2>1, <2>2
  <1>3. Roles' BY <1>1 DEF SInv, Roles, Procs, OwnPoints
  <1>4. Copied' /\ OwnEntry' BY <1>1, <1>2 DEF SInv, InOrder, Copied, OwnEntry, Exists, SameSchedules
  <1>5. \A q \in Procs, i \in JobIds :
          /\ On(q, i, {"updTab", "updAdd", "updSet"})
               => (i \in torn') \/ On(q, i, {"updTab", "updAdd", "updSet"})'
          /\ On(q, i, {"addInsert", "rmTab", "updSet"})
               => \/ i \in torn'
                  \/ On(q, i, {"addInsert", "rmTab", "updSet"})' /\ proc'[q].uuid = proc[q].uuid
    BY <1>1 DEF Changing, On
  <1>6. \A i \in torn : i \in torn' BY <1>1
  <1>7. JobsServed'
    BY <1>1, <1>2, <1>5, <1>6 DEF SInv, InOrder, JobsServed, Served, Exists, Parses, SameSchedules
  <1>8. EntriesKnown'
    <2> SUFFICES ASSUME NEW u \in Uuids, tab'[u] # None
                 PROVE  \/ Exists(tab[u].id)' /\ jobs'[tab[u].id].uuid = u
                        \/ tab[u].id \in torn'
                        \/ \E q \in Procs : On(q, tab[u].id, {"addInsert", "rmTab", "updSet"})' /\ proc'[q].uuid = u
      BY <1>1 DEF EntriesKnown
    <2>1. tab[u] # None /\ tab[u].id \in JobIds BY <1>1 DEF TypeInv, TypeOK
    <2>2. \/ Exists(tab[u].id) /\ jobs[tab[u].id].uuid = u
          \/ tab[u].id \in torn
          \/ \E q \in Procs : On(q, tab[u].id, {"addInsert", "rmTab", "updSet"}) /\ proc[q].uuid = u
      BY <2>1 DEF SInv, InOrder, EntriesKnown
    <2>3. CASE Exists(tab[u].id) /\ jobs[tab[u].id].uuid = u
      BY <1>1, <1>2, <2>1, <2>3 DEF SameSchedules, Exists
    <2>4. ASSUME NEW q \in Procs, On(q, tab[u].id, {"addInsert", "rmTab", "updSet"}), proc[q].uuid = u
          PROVE  \/ tab[u].id \in torn'
                 \/ On(q, tab[u].id, {"addInsert", "rmTab", "updSet"})' /\ proc'[q].uuid = u
      <3>1. PICK i \in JobIds : i = tab[u].id BY <2>1
      <3>2. tab' = tab BY <1>1
      <3> QED BY <1>5, <2>4, <3>1, <3>2
    <2> QED BY <1>6, <2>2, <2>3, <2>4
  <1>9. ASSUME NEW q \in Procs PROVE Hold(q)'
    <2>1. CASE q = p BY <1>1, <2>1 DEF Hold
    <2>2. CASE q # p
      <3>1. proc'[q] = proc[q] /\ Hold(q) BY <1>1, <2>2 DEF SInv, InOrder
      <3>2. proc[q].pc # "idle" => proc[q].id \in JobIds BY DEF TypeInv, LocalsOK
      <3> QED BY <1>1, <1>2, <3>1, <3>2 DEF Hold, Exists, SameSchedules
    <2> QED BY <2>1, <2>2
  <1> QED BY <1>3, <1>4, <1>7, <1>8, <1>9 DEF SInv, InOrder

\* A restart makes the jobs it loads and their entries at once
LEMMA LoadedEntry ==
  ASSUME NEW d, NEW i \in JobIds, Loadable(d, i)
  PROVE  LoadEntries(d)[BootUuid[i]] = [id |-> i, cron |-> d[i].cron]
PROOF
  <1>1. BootUuid[i] \in Uuids BY BootUuidType
  <1>2. \A j \in JobIds : BootUuid[j] = BootUuid[i] /\ Loadable(d, j) <=> j = i BY BootUuidType
  <1>3. (CHOOSE j \in JobIds : BootUuid[j] = BootUuid[i] /\ Loadable(d, j)) = i BY <1>2
  <1> QED BY <1>1, <1>2, <1>3 DEF LoadEntries

LEMMA RestartOrders ==
  ASSUME TypeInv, TypeInv', Restart
  PROVE  SInv'
PROOF
  <1>1. /\ jobs' = LoadJobs(disk') /\ tab' = LoadEntries(disk') /\ recipe' = recipe
        /\ \A p \in Procs : proc'[p].pc = "idle"
    BY DEF Restart, Idle
  <1>2. \A i \in JobIds :
          /\ Loadable(disk', i) => jobs'[i] # None /\ jobs'[i].uuid = BootUuid[i] /\ jobs'[i].cron = disk'[i].cron
          /\ ~Loadable(disk', i) => jobs'[i] = None
    <2> SUFFICES ASSUME NEW i \in JobIds, Loadable(disk', i)
                 PROVE  jobs'[i] # None /\ jobs'[i].uuid = BootUuid[i] /\ jobs'[i].cron = disk'[i].cron
      BY <1>1 DEF LoadJobs
    <2>1. jobs'[i] = [uuid |-> BootUuid[i], cron |-> disk'[i].cron, paused |-> disk'[i].paused,
                      running |-> disk'[i].running, session |-> disk'[i].session]
      BY <1>1 DEF LoadJobs
    <2>2. disk'[i] \in Stored BY DEF TypeInv, TypeOK, Loadable
    <2>3. jobs'[i] \in Job BY <2>1, <2>2, BootUuidType DEF Job, Stored
    <2> QED BY <2>1, <2>3, NoneIsNoJob
  <1>3. \A i \in JobIds : Loadable(disk', i) => tab'[BootUuid[i]] = [id |-> i, cron |-> disk'[i].cron]
    BY <1>1, LoadedEntry
  <1>11. ASSUME NEW i \in JobIds, Loadable(disk', i) PROVE tab'[BootUuid[i]].id = i
    <2>1. tab'[BootUuid[i]] = [id |-> i, cron |-> disk'[i].cron] BY <1>3, <1>11
    <2> QED BY <2>1
  <1>4. ASSUME NEW u \in Uuids, tab'[u] # None
        PROVE  \E i \in JobIds : BootUuid[i] = u /\ Loadable(disk', i) /\ tab'[u].id = i
    <2>1. \E i \in JobIds : BootUuid[i] = u /\ Loadable(disk', i) BY <1>1, <1>4 DEF LoadEntries
    <2> QED BY <1>11, <2>1
  <1>5. Roles' BY <1>1 DEF Roles, Procs, OwnPoints
  <1>6. JobsServed' BY <1>2, <1>3 DEF JobsServed, Served, Exists
  <1>7. EntriesKnown'
    <2> SUFFICES ASSUME NEW u \in Uuids, tab'[u] # None
                 PROVE  Exists(tab[u].id)' /\ jobs'[tab'[u].id].uuid = u
      BY DEF EntriesKnown
    <2> QED BY <1>2, <1>4 DEF Exists
  <1>8. OwnEntry' BY <1>2, <1>11 DEF OwnEntry, Exists
  <1>9. Copied' BY <1>1, <1>2 DEF Copied, Exists, Loadable
  <1>10. \A p \in Procs : Hold(p)' BY <1>1 DEF Hold
  <1> QED BY <1>5, <1>6, <1>7, <1>8, <1>9, <1>10 DEF SInv, InOrder

LEMMA SStep ==
  ASSUME Serial, TypeInv, TypeInv', SInv, [Next]_vars
  PROVE  SInv'
PROOF
  <1>1. CASE UNCHANGED vars
    <2>1. UNCHANGED <<jobs, tab, recipe, proc, torn>> BY <1>1 DEF vars, history
    <2> QED BY <2>1 DEF SInv, Roles, InOrder, JobsServed, Served, EntriesKnown, OwnEntry, Copied, Hold, On, Exists
  <1>2. ASSUME NEW p \in Procs, SideSteps(p) PROVE SInv'
    BY <1>2, SideStepsKeep, SideStep DEF SameSchedules
  <1>3. CASE Restart BY <1>3, RestartOrders
  <1>4. ASSUME NEW p \in Callers, Call(p) PROVE SInv'
    <2>1. p \in Procs BY DEF Procs
    <2> QED BY <1>2, <1>4, <2>1, AdditionSteps, RemovalSteps, UpdateSteps DEF Call, SideSteps
  <1>5. ASSUME NEW p \in Firings, NEW u \in Uuids, Fire(p, u) PROVE SInv'
    BY <1>2, <1>5 DEF Procs, SideSteps
  <1>6. ASSUME NEW p \in Procs, Step(p) \/ PersistFails(p) \/ FileFails(p) \/ ExecuteEnd(p) \/ ExecuteAsk(p)
        PROVE  SInv'
    BY <1>2, <1>6, AdditionSteps, RemovalSteps, UpdateSteps DEF Step, SideSteps
  <1>7. ASSUME NEW p \in Procs, Drop(p) \/ ExecutePanic(p) PROVE SInv'
    BY <1>7, VanishOrders DEF Drop, ExecutePanic
  <1> QED BY <1>1, <1>3, <1>4, <1>5, <1>6, <1>7 DEF Next

\* With one caller, whenever it is between two calls, every job that can fire has
\* its one cron entry and no other entry is left, but for the schedules whose entry
\* a dropped call was changing
THEOREM EntryPerJob == ASSUME Serial PROVE Spec => []OneEntryPerJob
PROOF
  <1>1. TypeInv /\ TypeInv' /\ SInv /\ [Next]_vars => SInv' BY SStep
  <1>2. TypeInv /\ SInv => OneEntryPerJob
    <2> SUFFICES ASSUME TypeInv, SInv, CallersIdle PROVE OneEntryPerJob BY DEF OneEntryPerJob
    <2>1. \A p \in Procs : proc[p].pc \notin OwnPoints
      BY DEF CallersIdle, SInv, Roles, Procs, Idle, OwnPoints
    <2>2. \A p \in Procs, i \in JobIds :
            /\ ~On(p, i, {"updTab", "updAdd", "updSet"})
            /\ ~On(p, i, {"addInsert", "rmTab", "updSet"})
      BY <2>1 DEF On, OwnPoints
    <2>3. \A u \in Uuids : tab[u] # None => tab[u].id \in JobIds BY DEF TypeInv, TypeOK
    <2> QED BY <2>2, <2>3 DEF SInv, InOrder, JobsServed, Served, EntriesKnown, OneEntryPerJob
  <1> QED BY SInit, TypeCorrect, <1>1, <1>2, PTL DEF Spec

\* With one caller, a job in the map has its recipe file
THEOREM RecipesKept == ASSUME Serial PROVE Spec => []RecipeKept
PROOF
  <1>1. TypeInv /\ TypeInv' /\ SInv /\ [Next]_vars => SInv' BY SStep
  <1>2. SInv => RecipeKept BY DEF SInv, InOrder, Copied, RecipeKept
  <1> QED BY SInit, TypeCorrect, <1>1, <1>2, PTL DEF Spec

-----------------------------------------------------------------------------
\* The file holds the same plan for i as the map
Kept(i) ==
  IF Exists(i) THEN disk[i] # None /\ disk[i].cron = jobs[i].cron /\ disk[i].paused = jobs[i].paused
  ELSE disk[i] = None

\* p changed the plan for i and has not written it: Owes, without the executions,
\* which change only the running flag and the session
Planned(p, i) == On(p, i, {"rmTab", "rmRecipe", "updTab", "updAdd", "updSet", "persist"})

PlanKept == \A i \in JobIds : Kept(i) \/ (i \in unsaved) \/ \E p \in Procs : Planned(p, i)

\* A step that changes no plan, and writes or remembers what was planned
LEMMA PlanPasses ==
  ASSUME PlanKept, NEW p \in Procs,
         \A q \in Procs : q # p => proc'[q] = proc[q],
         \A i \in JobIds : Planned(p, i) => Planned(p, i)' \/ i \in unsaved',
         \A i \in JobIds : /\ jobs'[i] = None <=> jobs[i] = None
                           /\ jobs[i] # None => jobs'[i].cron = jobs[i].cron /\ jobs'[i].paused = jobs[i].paused,
         disk' = disk, \A i \in unsaved : i \in unsaved'
  PROVE  PlanKept'
PROOF
  <1>1. \A q \in Procs, i \in JobIds : Planned(q, i) => Planned(q, i)' \/ i \in unsaved' BY DEF Planned, On
  <1>2. \A i \in JobIds : Kept(i) => Kept(i)' BY DEF Kept, Exists
  <1> QED BY <1>1, <1>2 DEF PlanKept

\* A step of p that changes the plan for i only, and is followed by a write
LEMMA PlanOwed ==
  ASSUME PlanKept, NEW p \in Procs, NEW i \in JobIds,
         At(p, "idle") \/ proc[p].id = i,
         Planned(p, i)',
         \A q \in Procs : q # p => proc'[q] = proc[q],
         \A j \in JobIds : j # i => jobs'[j] = jobs[j],
         disk' = disk, unsaved' = unsaved
  PROVE  PlanKept'
PROOF
  <1> SUFFICES ASSUME NEW j \in JobIds, j # i
               PROVE  Kept(j)' \/ (j \in unsaved) \/ \E q \in Procs : Planned(q, j)'
    BY DEF PlanKept
  <1>1. Kept(j) => Kept(j)' BY DEF Kept, Exists
  <1>2. ~Planned(p, j) BY DEF Planned, On, At
  <1>3. \A q \in Procs : Planned(q, j) => Planned(q, j)' BY <1>2 DEF Planned, On
  <1> QED BY <1>1, <1>3 DEF PlanKept

\* A job changed in neither its cron nor its pause state
LEMMA PlanStays ==
  ASSUME TypeInv, NEW i \in JobIds, jobs[i] # None, NEW job \in Job,
         job.cron = jobs[i].cron, job.paused = jobs[i].paused, jobs' = [jobs EXCEPT ![i] = job]
  PROVE  \A j \in JobIds : /\ jobs'[j] = None <=> jobs[j] = None
                           /\ jobs[j] # None => jobs'[j].cron = jobs[j].cron /\ jobs'[j].paused = jobs[j].paused
  BY NoneIsNoJob DEF TypeInv, TypeOK

LEMMA ExecutionKeepsPlan ==
  ASSUME TypeInv, NEW i \in JobIds, jobs[i] # None, NEW u \in Uuids, NEW s \in Procs \cup {None, Lost},
         \/ jobs' = [jobs EXCEPT ![i].running = TRUE]
         \/ jobs' = [jobs EXCEPT ![i].uuid = u]
         \/ jobs' = [jobs EXCEPT ![i].session = s]
         \/ jobs' = [jobs EXCEPT ![i] = Cleared(@)]
  PROVE  \A j \in JobIds : /\ jobs'[j] = None <=> jobs[j] = None
                           /\ jobs[j] # None => jobs'[j].cron = jobs[j].cron /\ jobs'[j].paused = jobs[j].paused
PROOF
  <1>1. PICK job : job = jobs[i] OBVIOUS
  <1>2. job \in Job BY <1>1 DEF TypeInv, TypeOK
  <1>3. CASE jobs' = [jobs EXCEPT ![i].running = TRUE]
    <2>1. [job EXCEPT !.running = TRUE] \in Job BY <1>2 DEF Job
    <2>2. [job EXCEPT !.running = TRUE].cron = job.cron /\ [job EXCEPT !.running = TRUE].paused = job.paused
      BY <1>2 DEF Job
    <2> QED BY <1>1, <1>3, <2>1, <2>2, PlanStays
  <1>4. CASE jobs' = [jobs EXCEPT ![i].uuid = u]
    <2>1. [job EXCEPT !.uuid = u] \in Job BY <1>2 DEF Job
    <2>2. [job EXCEPT !.uuid = u].cron = job.cron /\ [job EXCEPT !.uuid = u].paused = job.paused
      BY <1>2 DEF Job
    <2> QED BY <1>1, <1>4, <2>1, <2>2, PlanStays
  <1>5. CASE jobs' = [jobs EXCEPT ![i].session = s]
    <2>1. [job EXCEPT !.session = s] \in Job BY <1>2 DEF Job
    <2>2. [job EXCEPT !.session = s].cron = job.cron /\ [job EXCEPT !.session = s].paused = job.paused
      BY <1>2 DEF Job
    <2> QED BY <1>1, <1>5, <2>1, <2>2, PlanStays
  <1>6. CASE jobs' = [jobs EXCEPT ![i] = Cleared(@)]
    <2>1. Cleared(job) \in Job BY <1>2 DEF Job, Cleared
    <2>2. Cleared(job).cron = job.cron /\ Cleared(job).paused = job.paused BY <1>2 DEF Job, Cleared
    <2> QED BY <1>1, <1>6, <2>1, <2>2, PlanStays
  <1> QED BY <1>3, <1>4, <1>5, <1>6

\* A call that changes the plan of a job
LEMMA PlanChanges ==
  ASSUME TypeInv, PlanKept, NEW p \in Procs, NEW i \in JobIds,
         \/ RemoveJob(p, i) \/ Pause(p, i) \/ Unpause(p, i)
         \/ \E c \in AnyCron : UpdateJob(p, i, c)
         \/ AddInsert(p) /\ i = proc[p].id
  PROVE  PlanKept'
PROOF
  <1> USE DEF Set, Idle, Exists, At, history
  <1>1. proc \in [Procs -> ProcState] /\ jobs \in [JobIds -> Job \cup {None}] BY DEF TypeInv, TypeOK
  <1>2. CASE RemoveJob(p, i)
    <2>1. /\ Planned(p, i)' /\ At(p, "idle") /\ disk' = disk /\ unsaved' = unsaved
          /\ \A q \in Procs : q # p => proc'[q] = proc[q]
          /\ \A j \in JobIds : j # i => jobs'[j] = jobs[j]
      BY <1>1, <1>2 DEF RemoveJob, Begin, Without, Planned, On
    <2> QED BY <2>1, PlanOwed
  <1>3. CASE Pause(p, i) \/ Unpause(p, i)
    <2>1. /\ Planned(p, i)' /\ At(p, "idle") /\ disk' = disk /\ unsaved' = unsaved
          /\ \A q \in Procs : q # p => proc'[q] = proc[q]
          /\ \A j \in JobIds : j # i => jobs'[j] = jobs[j]
      BY <1>1, <1>3 DEF Pause, Unpause, Save, Begin, Planned, On
    <2> QED BY <2>1, PlanOwed
  <1>4. ASSUME NEW c \in AnyCron, UpdateJob(p, i, c) PROVE PlanKept'
    <2>1. /\ Planned(p, i)' /\ At(p, "idle") /\ disk' = disk /\ unsaved' = unsaved
          /\ \A q \in Procs : q # p => proc'[q] = proc[q]
          /\ \A j \in JobIds : j # i => jobs'[j] = jobs[j]
      BY <1>1, <1>4 DEF UpdateJob, Begin, Planned, On
    <2> QED BY <2>1, PlanOwed
  <1>5. CASE AddInsert(p) /\ i = proc[p].id
    <2>1. /\ Planned(p, i)' /\ proc[p].id = i /\ disk' = disk /\ unsaved' = unsaved
          /\ \A q \in Procs : q # p => proc'[q] = proc[q]
          /\ \A j \in JobIds : j # i => jobs'[j] = jobs[j]
      BY <1>1, <1>5 DEF AddInsert, GotoBare, Planned, On
    <2> QED BY <2>1, PlanOwed
  <1> QED BY <1>2, <1>3, <1>4, <1>5

\* A step of a call between its change and its write
LEMMA PlanContinues ==
  ASSUME TypeInv, PlanKept, NEW p \in Procs,
         \/ \E i \in JobIds, c \in AnyCron : AddCheck(p, i, c)
         \/ AddCopy(p) \/ AddEntry(p, "addTab", "addInsert") \/ AddEntry(p, "updAdd", "updSet")
         \/ RemoveEntry(p) \/ RemoveRecipe(p) \/ UpdateDropEntry(p) \/ UpdateHandle(p)
  PROVE  PlanKept'
PROOF
  <1> USE DEF Set, Idle, At, history
  <1>1. proc \in [Procs -> ProcState] /\ LocalsOK BY DEF TypeInv, TypeOK
  <1>2. CASE \E i \in JobIds, c \in AnyCron : AddCheck(p, i, c)
    <2>1. /\ jobs' = jobs /\ disk' = disk /\ unsaved' = unsaved
          /\ \A q \in Procs : q # p => proc'[q] = proc[q]
          /\ \A j \in JobIds : Planned(p, j) => Planned(p, j)'
      BY <1>1, <1>2 DEF AddCheck, Begin, Planned, On
    <2> QED BY <2>1, PlanPasses
  <1>3. CASE AddCopy(p)
    <2>1. /\ jobs' = jobs /\ disk' = disk /\ unsaved' = unsaved
          /\ \A q \in Procs : q # p => proc'[q] = proc[q]
          /\ \A j \in JobIds : Planned(p, j) => Planned(p, j)'
      BY <1>1, <1>3 DEF AddCopy, Goto, Return, Planned, On
    <2> QED BY <2>1, PlanPasses
  <1>4. CASE AddEntry(p, "addTab", "addInsert") \/ AddEntry(p, "updAdd", "updSet")
    <2>1. /\ jobs' = jobs /\ disk' = disk /\ unsaved' = unsaved
          /\ \A q \in Procs : q # p => proc'[q] = proc[q]
          /\ \A j \in JobIds : Planned(p, j) => Planned(p, j)'
      BY <1>1, <1>4 DEF AddEntry, Planned, On
    <2> QED BY <2>1, PlanPasses
  <1>5. CASE RemoveEntry(p) \/ RemoveRecipe(p)
    <2>1. /\ jobs' = jobs /\ disk' = disk /\ unsaved' = unsaved
          /\ \A q \in Procs : q # p => proc'[q] = proc[q]
          /\ \A j \in JobIds : Planned(p, j) => Planned(p, j)'
      BY <1>1, <1>5 DEF RemoveEntry, RemoveRecipe, GotoBare, Planned, On
    <2> QED BY <2>1, PlanPasses
  <1>6. CASE UpdateDropEntry(p)
    <2>1. /\ jobs' = jobs /\ disk' = disk /\ \A j \in unsaved : j \in unsaved'
          /\ \A q \in Procs : q # p => proc'[q] = proc[q]
          /\ \A j \in JobIds : Planned(p, j) => Planned(p, j)' \/ j \in unsaved'
      BY <1>1, <1>6 DEF UpdateDropEntry, Return, Planned, On
    <2> QED BY <2>1, PlanPasses
  <1>7. CASE UpdateHandle(p)
    <2>1. /\ disk' = disk /\ unsaved' = unsaved
          /\ \A q \in Procs : q # p => proc'[q] = proc[q]
          /\ \A j \in JobIds : Planned(p, j) => Planned(p, j)'
      BY <1>1, <1>7 DEF UpdateHandle, GotoBare, Planned, On
    <2>2. proc[p].id \in JobIds /\ proc[p].uuid \in Uuids BY <1>1, <1>7 DEF UpdateHandle, LocalsOK
    <2>3. CASE Exists(proc[p].id)
      <3>1. jobs' = [jobs EXCEPT ![proc[p].id].uuid = proc[p].uuid] BY <1>7, <2>3 DEF UpdateHandle
      <3> QED BY <2>1, <2>2, <2>3, <3>1, ExecutionKeepsPlan, PlanPasses DEF Exists
    <2>4. CASE ~Exists(proc[p].id)
      <3>1. jobs' = jobs BY <1>7, <2>4 DEF UpdateHandle
      <3> QED BY <2>1, <3>1, PlanPasses
    <2> QED BY <2>3, <2>4
  <1> QED BY <1>2, <1>3, <1>4, <1>5, <1>6, <1>7

\* A step of an execution, or of a call that changes no plan
LEMMA PlanBeside ==
  ASSUME TypeInv, PlanKept, NEW p \in Procs,
         \/ \E i \in JobIds : KillCheck(p, i) \/ RunNow(p, i)
         \/ \E u \in Uuids : Fire(p, u)
         \/ KillToken(p) \/ MarkRunning(p) \/ StoreToken(p)
         \/ ExecuteRead(p) \/ ExecuteStart(p) \/ ExecuteError(p) \/ ExecuteCancelled(p) \/ ExecuteEnd(p) \/ ExecuteAsk(p)
         \/ DropToken(p) \/ ClearRunning(p)
  PROVE  PlanKept'
PROOF
  <1>1. /\ \A q \in Procs : q # p => proc'[q] = proc[q]
        /\ proc[p].pc \notin OwnPoints
    BY SideStepsKeep DEF SideSteps
  <1>2. proc[p].pc # "persist" /\ disk' = disk /\ unsaved' = unsaved
    BY DEF KillCheck, RunNow, Fire, KillToken, MarkRunning, StoreToken, ExecuteRead, ExecuteStart,
           ExecuteError, ExecuteCancelled, ExecuteEnd, ExecuteAsk, DropToken, ClearRunning, Begin, Idle, At,
           Exists, history
  <1>3. \A i \in JobIds : ~Planned(p, i) BY <1>1, <1>2 DEF Planned, On, OwnPoints
  <1>4. proc[p].pc # "idle" => proc[p].id \in JobIds BY DEF TypeInv, LocalsOK
  <1>5. \/ jobs' = jobs
        \/ \E i \in JobIds, s \in Procs \cup {None, Lost} :
             /\ jobs[i] # None
             /\ \/ jobs' = [jobs EXCEPT ![i].running = TRUE]
                \/ jobs' = [jobs EXCEPT ![i].session = s]
                \/ jobs' = [jobs EXCEPT ![i] = Cleared(@)]
    <2>1. CASE \E i \in JobIds : RunNow(p, i) BY <2>1 DEF RunNow, Exists
    <2>2. CASE MarkRunning(p) BY <1>4, <2>2 DEF MarkRunning, At, Exists
    <2>3. CASE ExecuteStart(p) BY <1>4, <2>3 DEF ExecuteStart, At, Exists
    <2>4. CASE ClearRunning(p) BY <1>4, <2>4 DEF ClearRunning, At, Exists
    <2>5. CASE \/ \E i \in JobIds : KillCheck(p, i)
               \/ \E u \in Uuids : Fire(p, u)
               \/ KillToken(p) \/ StoreToken(p) \/ ExecuteRead(p) \/ ExecuteError(p) \/ ExecuteCancelled(p)
               \/ ExecuteEnd(p) \/ ExecuteAsk(p) \/ DropToken(p)
      BY <2>5 DEF KillCheck, Fire, KillToken, StoreToken, ExecuteRead, ExecuteError, ExecuteCancelled, ExecuteEnd,
                  ExecuteAsk, DropToken
    <2> QED BY <2>1, <2>2, <2>3, <2>4, <2>5
  <1>6. \A j \in JobIds : /\ jobs'[j] = None <=> jobs[j] = None
                          /\ jobs[j] # None => jobs'[j].cron = jobs[j].cron /\ jobs'[j].paused = jobs[j].paused
    <2>1. CASE jobs' = jobs BY <2>1
    <2>2. ASSUME NEW i \in JobIds, NEW s \in Procs \cup {None, Lost}, jobs[i] # None,
                 \/ jobs' = [jobs EXCEPT ![i].running = TRUE]
                 \/ jobs' = [jobs EXCEPT ![i].session = s]
                 \/ jobs' = [jobs EXCEPT ![i] = Cleared(@)]
          PROVE  \A j \in JobIds : /\ jobs'[j] = None <=> jobs[j] = None
                                   /\ jobs[j] # None => jobs'[j].cron = jobs[j].cron /\ jobs'[j].paused = jobs[j].paused
      <3>1. Uuids # {} BY <2>2, BootUuidType
      <3> QED BY <2>2, <3>1, ExecutionKeepsPlan
    <2> QED BY <1>5, <2>1, <2>2
  <1> QED BY <1>1, <1>2, <1>3, <1>6, PlanPasses

\* Only a restart is counted as one
LEMMA OnlyRestartsCount ==
  ASSUME NEW p \in Procs,
         \/ Step(p) \/ PersistFails(p) \/ FileFails(p) \/ ExecuteEnd(p) \/ ExecuteAsk(p) \/ Call(p)
         \/ Drop(p) \/ ExecutePanic(p)
  PROVE  crashes' = crashes
  BY DEF Step, PersistFails, FileFails, ExecuteEnd, ExecuteAsk, Call, AddCheck, AddCopy, AddEntry, AddInsert,
         RemoveJob, RemoveEntry, RemoveRecipe, UpdateJob, UpdateDropEntry, UpdateHandle, Pause, Unpause,
         KillCheck, KillToken, RunNow, MarkRunning, Persist, StoreToken, ExecuteRead, ExecuteStart,
         ExecuteError, ExecuteCancelled, DropToken, ClearRunning, Drop, ExecutePanic, Vanish, bounds

LEMMA PlanStep == TypeInv /\ TypeInv' /\ PlanKept /\ [Next]_vars => PlanKept'
PROOF
  <1> SUFFICES ASSUME TypeInv, TypeInv', PlanKept, [Next]_vars PROVE PlanKept' OBVIOUS
  <1> DEFINE SamePlans == \A j \in JobIds : /\ jobs'[j] = None <=> jobs[j] = None
                                            /\ jobs[j] # None => /\ jobs'[j].cron = jobs[j].cron
                                                                 /\ jobs'[j].paused = jobs[j].paused
  <1>0. proc \in [Procs -> ProcState] BY DEF TypeInv, TypeOK
  <1>1. CASE UNCHANGED vars
    <2>1. UNCHANGED <<jobs, disk, proc, unsaved>> BY <1>1 DEF vars, history
    <2> QED BY <2>1 DEF PlanKept, Kept, Planned, On, Exists
  <1>2. CASE Restart
    <2>1. jobs' = LoadJobs(disk') /\ unsaved' = {i \in JobIds : disk'[i] # None /\ ~Loadable(disk', i)}
      BY <1>2 DEF Restart
    <2>2. ASSUME NEW i \in JobIds, i \notin unsaved' PROVE Kept(i)'
      <3>1. CASE ~Loadable(disk', i) BY <2>1, <2>2, <3>1 DEF LoadJobs, Kept, Exists
      <3>2. CASE Loadable(disk', i)
        <4>1. jobs'[i] = [uuid |-> BootUuid[i], cron |-> disk'[i].cron, paused |-> disk'[i].paused,
                          running |-> disk'[i].running, session |-> disk'[i].session]
          BY <2>1, <3>2 DEF LoadJobs
        <4>2. disk'[i] # None BY <3>2 DEF Loadable
        <4>3. disk'[i] \in Stored BY <4>2 DEF TypeInv, TypeOK
        <4>4. jobs'[i] \in Job BY <4>1, <4>3, BootUuidType DEF Job, Stored
        <4> QED BY <4>1, <4>2, <4>4, NoneIsNoJob DEF Kept, Exists
      <3> QED BY <3>1, <3>2
    <2> QED BY <2>2 DEF PlanKept
  <1>3. ASSUME NEW p \in Procs, PersistFails(p) PROVE PlanKept'
    <2>1. CASE disk' = disk /\ unsaved' = unsaved \cup {proc[p].id}
      <3>1. \A q \in Procs : q # p => proc'[q] = proc[q]
        BY <1>0, <1>3 DEF PersistFails, Goto, Return, Set
      <3>2. \A i \in JobIds : Planned(p, i) => i \in unsaved' BY <2>1 DEF Planned, On
      <3>3. jobs' = jobs BY <1>3 DEF PersistFails
      <3> QED BY <2>1, <3>1, <3>2, <3>3, PlanPasses
    <2>2. CASE unsaved' = JobIds BY <2>2 DEF PlanKept
    <2> QED BY <1>3, <2>1, <2>2 DEF PersistFails
  <1>4. ASSUME NEW p \in Procs, Persist(p) PROVE PlanKept'
    <2>1. jobs' = jobs /\ disk' = Snapshot BY <1>4 DEF Persist
    <2>2. \A i \in JobIds : Kept(i)'
      <3> SUFFICES ASSUME NEW i \in JobIds PROVE Kept(i)' OBVIOUS
      <3>1. CASE ~Exists(i) BY <2>1, <3>1 DEF Kept, Exists, Snapshot
      <3>2. CASE Exists(i)
        <4>1. disk'[i] = [cron |-> jobs[i].cron, paused |-> jobs[i].paused, running |-> jobs[i].running,
                          session |-> IF jobs[i].session = None THEN None ELSE Lost]
          BY <2>1, <3>2 DEF Snapshot
        <4>2. disk'[i] \in Stored \cup {None} BY DEF TypeInv, TypeOK
        <4>3. jobs[i] \in Job BY <3>2 DEF TypeInv, TypeOK, Exists
        <4>4. disk'[i] \in Stored BY <4>1, <4>3 DEF Job, Stored
        <4>5. disk'[i] # None BY <4>4, NoneIsNoJob
        <4> QED BY <2>1, <3>2, <4>1, <4>5 DEF Kept, Exists
      <3> QED BY <3>1, <3>2
    <2> QED BY <2>2 DEF PlanKept
  <1>5. ASSUME NEW p \in Callers, Call(p) PROVE PlanKept'
    <2>1. p \in Procs BY DEF Procs
    <2> QED BY <1>5, <2>1, PlanChanges, PlanContinues, PlanBeside DEF Call
  <1>6. ASSUME NEW p \in Firings, NEW u \in Uuids, Fire(p, u) PROVE PlanKept'
    BY <1>6, PlanBeside DEF Procs
  <1>7. ASSUME NEW p \in Procs, Step(p) \/ ExecuteEnd(p) \/ ExecuteAsk(p) PROVE PlanKept'
    <2>1. AddInsert(p) => proc[p].id \in JobIds BY DEF AddInsert, At, TypeInv, LocalsOK
    <2> QED BY <1>4, <1>7, <2>1, PlanChanges, PlanContinues, PlanBeside DEF Step
  <1>8. ASSUME NEW p \in Procs, FileFails(p) PROVE PlanKept'
    <2>1. /\ jobs' = jobs /\ disk' = disk /\ \A i \in unsaved : i \in unsaved'
          /\ \A q \in Procs : q # p => proc'[q] = proc[q]
          /\ \A i \in JobIds : Planned(p, i) => i \in unsaved'
      BY <1>0, <1>8 DEF FileFails, Return, At, Planned, On
    <2> QED BY <2>1, PlanPasses
  <1>9. ASSUME NEW p \in Procs, Vanish(p) PROVE PlanKept'
    <2>1. /\ disk' = disk /\ \A i \in unsaved : i \in unsaved'
          /\ \A q \in Procs : q # p => proc'[q] = proc[q]
          /\ \A i \in JobIds : Planned(p, i) => i \in unsaved'
      BY <1>0, <1>9 DEF Vanish, Return, Owes, Planned, On
    <2>2. SamePlans
      <3>1. CASE jobs' = jobs BY <3>1
      <3>2. CASE jobs' # jobs
        <4>1. /\ proc[p].id \in JobIds /\ jobs[proc[p].id] # None
              /\ jobs' = [jobs EXCEPT ![proc[p].id].session = Lost]
          BY <1>9, <3>2 DEF Vanish, Exists, TypeInv, TypeOK
        <4>2. Uuids # {} BY <4>1, BootUuidType
        <4> QED BY <4>1, <4>2, ExecutionKeepsPlan
      <3> QED BY <3>1, <3>2
    <2> QED BY <2>1, <2>2, PlanPasses
  <1> QED BY <1>1, <1>2, <1>3, <1>5, <1>6, <1>7, <1>8, <1>9 DEF Next, Drop, ExecutePanic

\* With one caller, a restart between two calls loses no job and brings none back,
\* but for those with a change left unwritten: load_jobs_from_storage gives the plan
\* that was in the map
THEOREM RestartsKeepJobs == ASSUME Serial PROVE Spec => RestartKeepsJobs
PROOF
  <1>1. TypeInv /\ TypeInv' /\ SInv /\ [Next]_vars => SInv' BY SStep
  <1>2. Init => PlanKept BY DEF Init, NoJobs, PlanKept, Kept, Exists
  <1> DEFINE Brings == crashes' # crashes /\ CallersIdle /\ ~(\E p \in Procs : Writing(p))
                       => \A i \in JobIds \ unsaved :
                            /\ ~Exists(i) => jobs'[i] = None
                            /\ Exists(i) /\ Parses(jobs[i].cron) =>
                                 /\ jobs'[i] # None
                                 /\ jobs'[i].cron = jobs[i].cron
                                 /\ jobs'[i].paused = jobs[i].paused
  <1>3. TypeInv /\ SInv /\ PlanKept /\ [Next]_vars => [Brings]_vars
    <2> SUFFICES ASSUME TypeInv, SInv, PlanKept, Next, crashes' # crashes, CallersIdle,
                        ~(\E p \in Procs : Writing(p)), NEW i \in JobIds, i \notin unsaved
                 PROVE  /\ ~Exists(i) => jobs'[i] = None
                        /\ Exists(i) /\ Parses(jobs[i].cron) =>
                             jobs'[i] # None /\ jobs'[i].cron = jobs[i].cron /\ jobs'[i].paused = jobs[i].paused
      OBVIOUS
    <2>1. Restart
      <3>1. \A p \in Procs : ~(\/ Step(p) \/ PersistFails(p) \/ FileFails(p) \/ ExecuteEnd(p) \/ ExecuteAsk(p)
                               \/ Drop(p) \/ ExecutePanic(p))
        BY OnlyRestartsCount
      <3>2. \A p \in Callers : ~Call(p) BY OnlyRestartsCount DEF Procs
      <3>3. \A p \in Firings, u \in Uuids : ~Fire(p, u) BY DEF Fire, bounds
      <3> QED BY <3>1, <3>2, <3>3 DEF Next
    <2>2. disk' = disk /\ jobs' = LoadJobs(disk) BY <2>1 DEF Restart
    <2>3. \A p \in Procs : ~Planned(p, i)
      <3>1. \A p \in Procs : proc[p].pc # "persist" BY DEF Writing, At
      <3>2. \A p \in Procs : proc[p].pc \notin OwnPoints
        BY DEF CallersIdle, SInv, Roles, Procs, Idle, OwnPoints
      <3> QED BY <3>1, <3>2 DEF Planned, On, OwnPoints
    <2>4. Kept(i) BY <2>3 DEF PlanKept
    <2>5. CASE ~Exists(i)
      <3>1. ~Loadable(disk, i) BY <2>4, <2>5 DEF Kept, Loadable
      <3> QED BY <2>2, <2>5, <3>1 DEF LoadJobs
    <2>6. CASE Exists(i) /\ Parses(jobs[i].cron)
      <3>1. disk[i] # None /\ disk[i].cron = jobs[i].cron /\ disk[i].paused = jobs[i].paused
        BY <2>4, <2>6 DEF Kept
      <3>2. i \in recipe BY <2>6 DEF SInv, InOrder, Copied
      <3>3. Loadable(disk, i) BY <2>6, <3>1, <3>2 DEF Loadable
      <3>4. jobs'[i] = [uuid |-> BootUuid[i], cron |-> disk[i].cron, paused |-> disk[i].paused,
                        running |-> disk[i].running, session |-> disk[i].session]
        BY <2>2, <3>3 DEF LoadJobs
      <3>5. disk[i] \in Stored BY <3>1 DEF TypeInv, TypeOK
      <3>6. jobs'[i] \in Job BY <3>4, <3>5, BootUuidType DEF Job, Stored
      <3> QED BY <3>1, <3>4, <3>6, <2>6, NoneIsNoJob
    <2>7. CASE Exists(i) /\ ~Parses(jobs[i].cron) BY <2>7
    <2> QED BY <2>5, <2>6, <2>7
  <1> QED BY SInit, TypeCorrect, <1>1, <1>2, <1>3, PlanStep, PTL DEF Spec, RestartKeepsJobs
=============================================================================
