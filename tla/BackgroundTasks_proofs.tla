----------------------- MODULE BackgroundTasks_proofs -----------------------
(***************************************************************************)
(* For any number of calls and sub-agents and any limit: the types and the *)
(* use of the locks, that a task is always in one place, that none is left *)
(* running unattended, how far the limit can be passed, and that a call    *)
(* that was alone does not miss a task.                                    *)
(*                                                                         *)
(* For the limit, a call that has passed the count, or has taken a task    *)
(* out of the map, counts as one task (Extra).  When a call passes the     *)
(* count the map is below the limit and the other calls stand for at most  *)
(* one task each; no other step adds to the sum.                           *)
(***************************************************************************)
EXTENDS BackgroundTasks, FiniteSetTheorems, TLAPS

Holding == {"register", "wait", "back", "stop"}

\* one task in the hands of a call that waits or registers, any number while
\* it sweeps, and none elsewhere
HandsFit ==
  \A c \in Callers :
    /\ at[c] \in Holding => \E t \in Tasks : hands[c] = {t}
    /\ at[c] \notin Holding \cup {"sort"} => hands[c] = {}

Extra == {c \in Callers : at[c] \in Holding \cup {"build"}}

Sum == Cardinality(background) + Cardinality(Extra)

Bound == MaxTasks + Cardinality(Callers) - 1

SumBound == IsFiniteSet(background) /\ Sum <= Bound

\* what a call still holds, or a map keeps, when the client is gone
Attended ==
  /\ \A t \in running : t \in Spawned /\ t \notin completed /\ (t \in given => t \in aborted)
  /\ \A c \in Callers : at[c] = "sort" => hands[c] \cap running = {}
  /\ closed => \A c \in Callers : at[c] = "idle"
  /\ closed => \A t \in running \cap background : t \in cancelled

IInv == TypeOK /\ HandsFit /\ OnePlace /\ Attended /\ SumBound

-----------------------------------------------------------------------------
LEMMA TypeInit == Init => TypeOK
PROOF
  <1>1. SUFFICES ASSUME Init PROVE TypeOK OBVIOUS
  <1>2. lock \in [{"background", "completed"} -> Callers \cup {None}] /\ lock["completed"] = None
    BY <1>1 DEF Init
  <1>3. \A c \in Callers : lock["background"] = c <=> at[c] = "status"
    BY <1>1, CallersFinite DEF Init
  <1>4. /\ at \in [Callers -> Points]
        /\ call \in [Callers -> [target : Tasks \cup {0}, cancel : BOOLEAN, alone : BOOLEAN]]
        /\ hands \in [Callers -> SUBSET Tasks]
    BY <1>1 DEF Init, Points, NoCall
  <1> QED BY <1>1, <1>2, <1>3, <1>4 DEF Init, TypeOK

LEMMA HandsAreTasks ==
  ASSUME TypeOK PROVE Spawned \subseteq Tasks
PROOF BY DEF TypeOK, Spawned

LEMMA TypeStep == TypeOK /\ [Next]_vars => TypeOK'
PROOF
  <1>1. SUFFICES ASSUME TypeOK, [Next]_vars PROVE TypeOK' OBVIOUS
  <1> USE MaxTasksPositive, CallersFinite, TasksNumbered
  <1>2. CASE UNCHANGED vars BY <1>1, <1>2 DEF TypeOK, vars
  <1>3. ASSUME NEW c \in Callers, Begin(c) \/ Proceed(c) \/ Inline(c) \/ InlineEnds(c) \/ Drop(c) PROVE TypeOK'
    <2>1. ASSUME Begin(c) PROVE TypeOK'
      <3>1. call' \in [Callers -> [target : Tasks \cup {0}, cancel : BOOLEAN, alone : BOOLEAN]]
        <4> DEFINE first == \A d \in Callers : at[d] = "idle"
                   new(d) == IF at[d] = "idle" THEN [NoCall EXCEPT !.alone = (d = c => first)]
                             ELSE [call[d] EXCEPT !.alone = FALSE]
        <4>1. \A d \in Callers : new(d) \in [target : Tasks \cup {0}, cancel : BOOLEAN, alone : BOOLEAN]
          BY <1>1 DEF NoCall, TypeOK
        <4>2. call' = [d \in Callers |-> new(d)] BY <2>1 DEF Begin
        <4> HIDE DEF new, first
        <4> QED BY <4>1, <4>2
      <3>2. at' \in [Callers -> Points] /\ \A d \in Callers : at'[d] = "status" <=> at[d] = "status"
        BY <1>1, <2>1 DEF Begin, TypeOK, Points
      <3> QED BY <1>1, <2>1, <3>1, <3>2 DEF Begin, taskVars, TypeOK
    <2>2. ASSUME Sweep(c) PROVE TypeOK'
      BY <1>1, <2>2 DEF Sweep, Goto, NoCall, taskVars, Take, Free, TypeOK, Points
    <2>3. ASSUME Sort(c) PROVE TypeOK'
      BY <1>1, <2>3 DEF Sort, Goto, NoCall, taskVars, Take, Free, TypeOK, Points
    <2>4. ASSUME Answered(c) PROVE TypeOK'
      BY <1>1, <2>4 DEF Answered, Goto, NoCall, taskVars, TypeOK, Points
    <2>5. ASSUME Count(c) PROVE TypeOK'
      BY <1>1, <2>5 DEF Count, Goto, NoCall, taskVars, Free, HasRoom, TypeOK, Points
    <2>6. ASSUME BuildFails(c) PROVE TypeOK'
      BY <1>1, <2>6 DEF BuildFails, Goto, NoCall, taskVars, TypeOK, Points
    <2>7. ASSUME NEW t \in Tasks, Spawn(c, t) PROVE TypeOK'
      BY <1>1, <2>7 DEF Spawn, Goto, NoCall, taskVars, Take, Spawned, TypeOK, Points
    <2>8. ASSUME Register(c) PROVE TypeOK'
      BY <1>1, <2>8 DEF Register, Goto, NoCall, taskVars, Take, Free, TypeOK, Points
    <2>9. ASSUME Inline(c) PROVE TypeOK'
      BY <1>1, <2>9 DEF Inline, Goto, NoCall, taskVars, TypeOK, Points
    <2>10. ASSUME InlineEnds(c) PROVE TypeOK'
      BY <1>1, <2>10 DEF InlineEnds, Goto, NoCall, taskVars, TypeOK, Points
    <2>11. ASSUME NEW t \in Spawned, NEW cancel \in BOOLEAN, LookCompleted(c, t, cancel) PROVE TypeOK'
      <3>1. t \in Tasks BY <1>1, HandsAreTasks
      <3>2. CASE t \in completed
        <4>1. given' \subseteq Tasks /\ completed' \subseteq Tasks /\ lock' = lock BY <1>1, <3>1, <3>2, <2>11 DEF LookCompleted, Without, TypeOK
        <4>2. /\ at' = [at EXCEPT ![c] = "idle"] /\ call' = [call EXCEPT ![c] = NoCall]
              /\ NoCall \in [target : Tasks \cup {0}, cancel : BOOLEAN, alone : BOOLEAN]
          BY <3>2, <2>11 DEF LookCompleted, Goto, NoCall
        <4> QED BY <1>1, <4>1, <4>2, <2>11 DEF LookCompleted, taskVars, TypeOK, Points
      <3>3. CASE t \notin completed
        <4>1. /\ lock' = [lock EXCEPT !["completed"] = None] /\ at' = [at EXCEPT ![c] = "find"]
              /\ call' = [call EXCEPT ![c].target = t, ![c].cancel = cancel]
              /\ UNCHANGED <<completed, given>>
          BY <3>3, <2>11 DEF LookCompleted, AfterMiss
        <4>2. call' \in [Callers -> [target : Tasks \cup {0}, cancel : BOOLEAN, alone : BOOLEAN]]
          <5> DEFINE r == [call[c] EXCEPT !.target = t, !.cancel = cancel]
          <5>1. r \in [target : Tasks \cup {0}, cancel : BOOLEAN, alone : BOOLEAN]
            BY <1>1, <3>1 DEF TypeOK
          <5>2. call' = [call EXCEPT ![c] = r] BY <1>1, <4>1 DEF TypeOK
          <5> HIDE DEF r
          <5> QED BY <1>1, <5>1, <5>2 DEF TypeOK
        <4> QED BY <1>1, <4>1, <4>2, <2>11 DEF LookCompleted, taskVars, TypeOK, Points
      <3> QED BY <3>2, <3>3
    <2>12. ASSUME FindRunning(c) PROVE TypeOK'
      <3>1. CASE IsRegistered(call[c].target)
        <4> DEFINE u == call[c].target
        <4>1. u \in Tasks /\ background' = background \ {u} /\ hands' = [hands EXCEPT ![c] = {u}]
          BY <1>1, <3>1, <2>12 DEF FindRunning, Take, IsRegistered, Without, TypeOK
        <4>2. cancelled' \subseteq running /\ running' = running BY <1>1, <3>1, <2>12 DEF FindRunning, TypeOK
        <4>3. at' = [at EXCEPT ![c] = IF call[c].cancel THEN "stop" ELSE "wait"] /\ call' = call
          BY <3>1, <2>12 DEF FindRunning, Goto
        <4> HIDE DEF u
        <4> QED BY <1>1, <4>1, <4>2, <4>3, <2>12 DEF FindRunning, TypeOK, Points
      <3>2. CASE ~IsRegistered(call[c].target) BY <1>1, <2>12, <3>2 DEF FindRunning, Goto, NoCall, taskVars, Take, Free, IsRegistered, Without, TypeOK, Points
      <3> QED BY <3>1, <3>2
    <2>13. ASSUME Missing(c) PROVE TypeOK'
      BY <1>1, <2>13 DEF Missing, Goto, NoCall, taskVars, TypeOK, Points
    <2>14. ASSUME Collect(c) PROVE TypeOK'
      BY <1>1, <2>14 DEF Collect, Goto, NoCall, taskVars, Take, TypeOK, Points
    <2>15. ASSUME WaitTimeout(c) PROVE TypeOK'
      BY <1>1, <2>15 DEF WaitTimeout, Goto, NoCall, taskVars, TypeOK, Points
    <2>16. ASSUME StopTimeout(c) PROVE TypeOK'
      BY <1>1, <2>16 DEF StopTimeout, Goto, NoCall, taskVars, Take, Aborts, TypeOK, Points
    <2>17. ASSUME StatusRunning(c) PROVE TypeOK'
      BY <1>1, <2>17 DEF StatusRunning, Goto, NoCall, taskVars, Free, TypeOK, Points
    <2>18. ASSUME StatusCompleted(c) PROVE TypeOK'
      BY <1>1, <2>18 DEF StatusCompleted, Goto, NoCall, taskVars, Free, TypeOK, Points
    <2>19. ASSUME Drop(c) PROVE TypeOK'
      BY <1>1, <2>19 DEF Drop, Goto, NoCall, taskVars, Take, TypeOK, Points
    <2> QED BY <1>3, <2>1, <2>2, <2>3, <2>4, <2>5, <2>6, <2>7, <2>8, <2>9, <2>10, <2>11, <2>12, <2>13, <2>14, <2>15, <2>16, <2>17, <2>18, <2>19 DEF Proceed
  <1>4. ASSUME NEW t \in Tasks, TaskEnds(t) PROVE TypeOK'
    BY <1>1, <1>4 DEF TaskEnds, TypeOK, Points
  <1>5. CASE Shutdown
    BY <1>1, <1>5 DEF Shutdown, TypeOK, Points
  <1> QED BY <1>1, <1>2, <1>3, <1>4, <1>5 DEF Next

\* In every reachable state the variables have their types, and between two
\* steps only a status line holds a lock, the first of the two it takes.
THEOREM TypeSafe == Spec => []TypeOK
PROOF
  <1> QED BY TypeInit, TypeStep, PTL DEF Spec
-----------------------------------------------------------------------------
LEMMA HandsStep == TypeOK /\ HandsFit /\ [Next]_vars => HandsFit'
PROOF
  <1>1. SUFFICES ASSUME TypeOK, HandsFit, [Next]_vars PROVE HandsFit' OBVIOUS
  <1> USE MaxTasksPositive, CallersFinite, TasksNumbered
  <1>2. CASE UNCHANGED vars BY <1>1, <1>2 DEF HandsFit, vars, Holding
  <1>3. ASSUME NEW c \in Callers, Begin(c) \/ Proceed(c) \/ Inline(c) \/ InlineEnds(c) \/ Drop(c) PROVE HandsFit'
    <2>1. ASSUME Begin(c) PROVE HandsFit'
      BY <1>1, <2>1 DEF Begin, Goto, NoCall, taskVars, TypeOK, HandsFit, Holding
    <2>2. ASSUME Sweep(c) PROVE HandsFit'
      BY <1>1, <2>2 DEF Sweep, Goto, NoCall, taskVars, Take, Free, TypeOK, HandsFit, Holding
    <2>3. ASSUME Sort(c) PROVE HandsFit'
      BY <1>1, <2>3 DEF Sort, Goto, NoCall, taskVars, Take, Free, TypeOK, HandsFit, Holding
    <2>4. ASSUME Answered(c) PROVE HandsFit'
      BY <1>1, <2>4 DEF Answered, Goto, NoCall, taskVars, TypeOK, HandsFit, Holding
    <2>5. ASSUME Count(c) PROVE HandsFit'
      BY <1>1, <2>5 DEF Count, Goto, NoCall, taskVars, Free, HasRoom, TypeOK, HandsFit, Holding
    <2>6. ASSUME BuildFails(c) PROVE HandsFit'
      BY <1>1, <2>6 DEF BuildFails, Goto, NoCall, taskVars, TypeOK, HandsFit, Holding
    <2>7. ASSUME NEW t \in Tasks, Spawn(c, t) PROVE HandsFit'
      BY <1>1, <2>7 DEF Spawn, Goto, NoCall, taskVars, Take, Spawned, TypeOK, HandsFit, Holding
    <2>8. ASSUME Register(c) PROVE HandsFit'
      BY <1>1, <2>8 DEF Register, Goto, NoCall, taskVars, Take, Free, TypeOK, HandsFit, Holding
    <2>9. ASSUME Inline(c) PROVE HandsFit'
      BY <1>1, <2>9 DEF Inline, Goto, NoCall, taskVars, TypeOK, HandsFit, Holding
    <2>10. ASSUME InlineEnds(c) PROVE HandsFit'
      BY <1>1, <2>10 DEF InlineEnds, Goto, NoCall, taskVars, TypeOK, HandsFit, Holding
    <2>11. ASSUME NEW t \in Spawned, NEW cancel \in BOOLEAN, LookCompleted(c, t, cancel) PROVE HandsFit'
      BY <1>1, <2>11 DEF LookCompleted, Goto, NoCall, taskVars, Free, AfterMiss, Without, TypeOK, HandsFit, Holding
    <2>12. ASSUME FindRunning(c) PROVE HandsFit'
      <3>1. CASE IsRegistered(call[c].target)
        <4> DEFINE u == call[c].target
        <4>1. u \in Tasks /\ hands' = [hands EXCEPT ![c] = {u}]
          BY <1>1, <3>1, <2>12 DEF FindRunning, Take, IsRegistered, TypeOK
        <4>2. at' = [at EXCEPT ![c] = IF call[c].cancel THEN "stop" ELSE "wait"]
          BY <3>1, <2>12 DEF FindRunning, Goto
        <4> HIDE DEF u
        <4> QED BY <1>1, <4>1, <4>2 DEF TypeOK, HandsFit, Holding
      <3>2. CASE ~IsRegistered(call[c].target) BY <1>1, <2>12, <3>2 DEF FindRunning, Goto, NoCall, taskVars, Take, Free, IsRegistered, Without, TypeOK, HandsFit, Holding
      <3> QED BY <3>1, <3>2
    <2>13. ASSUME Missing(c) PROVE HandsFit'
      BY <1>1, <2>13 DEF Missing, Goto, NoCall, taskVars, TypeOK, HandsFit, Holding
    <2>14. ASSUME Collect(c) PROVE HandsFit'
      BY <1>1, <2>14 DEF Collect, Goto, NoCall, taskVars, Take, TypeOK, HandsFit, Holding
    <2>15. ASSUME WaitTimeout(c) PROVE HandsFit'
      BY <1>1, <2>15 DEF WaitTimeout, Goto, NoCall, taskVars, TypeOK, HandsFit, Holding
    <2>16. ASSUME StopTimeout(c) PROVE HandsFit'
      BY <1>1, <2>16 DEF StopTimeout, Goto, NoCall, taskVars, Take, Aborts, TypeOK, HandsFit, Holding
    <2>17. ASSUME StatusRunning(c) PROVE HandsFit'
      BY <1>1, <2>17 DEF StatusRunning, Goto, NoCall, taskVars, Free, TypeOK, HandsFit, Holding
    <2>18. ASSUME StatusCompleted(c) PROVE HandsFit'
      BY <1>1, <2>18 DEF StatusCompleted, Goto, NoCall, taskVars, Free, TypeOK, HandsFit, Holding
    <2>19. ASSUME Drop(c) PROVE HandsFit'
      BY <1>1, <2>19 DEF Drop, Goto, NoCall, taskVars, Take, TypeOK, HandsFit, Holding
    <2> QED BY <1>3, <2>1, <2>2, <2>3, <2>4, <2>5, <2>6, <2>7, <2>8, <2>9, <2>10, <2>11, <2>12, <2>13, <2>14, <2>15, <2>16, <2>17, <2>18, <2>19 DEF Proceed
  <1>4. ASSUME NEW t \in Tasks, TaskEnds(t) PROVE HandsFit'
    BY <1>1, <1>4 DEF TaskEnds, HandsFit, Holding
  <1>5. CASE Shutdown
    BY <1>1, <1>5 DEF Shutdown, HandsFit, Holding
  <1> QED BY <1>1, <1>2, <1>3, <1>4, <1>5 DEF Next

LEMMA OnePlaceStep == TypeOK /\ HandsFit /\ OnePlace /\ [Next]_vars => OnePlace'
PROOF
  <1>1. SUFFICES ASSUME TypeOK, HandsFit, OnePlace, [Next]_vars PROVE OnePlace' OBVIOUS
  <1> USE MaxTasksPositive, CallersFinite, TasksNumbered
  <1>2. CASE UNCHANGED vars BY <1>1, <1>2 DEF OnePlace, vars
  <1>3. ASSUME NEW c \in Callers, Begin(c) \/ Proceed(c) \/ Inline(c) \/ InlineEnds(c) \/ Drop(c) PROVE OnePlace'
    <2>1. ASSUME Begin(c) PROVE OnePlace'
      <3>1. UNCHANGED <<background, completed, hands, given, lost>> BY <2>1 DEF Begin, Goto, NoCall, taskVars
      <3> QED BY <1>1, <3>1 DEF OnePlace
    <2>2. ASSUME Sweep(c) PROVE OnePlace'
      <3>1. hands'[c] = background \ running /\ \A d \in Callers \ {c} : hands'[d] = hands[d] BY <1>1, <2>2 DEF Sweep, Goto, NoCall, taskVars, Take, Free, TypeOK
      <3>2. /\ background' = background \cap running /\ completed' = completed
            /\ given' = given /\ lost' = lost
        BY <1>1, <2>2 DEF Sweep, Goto, NoCall, taskVars, Take, Free
      <3>3. hands[c] = {} \/ FALSE BY <1>1, <2>2 DEF Sweep, Goto, NoCall, taskVars, Take, Free, HandsFit, Holding
      <3> QED BY <1>1, <3>1, <3>2, <3>3 DEF OnePlace
    <2>3. ASSUME Sort(c) PROVE OnePlace'
      <3>1. hands'[c] = {} /\ \A d \in Callers \ {c} : hands'[d] = hands[d] BY <1>1, <2>3 DEF Sort, Goto, NoCall, taskVars, Take, Free, TypeOK
      <3>2. /\ background' = background /\ completed' = completed \cup hands[c]
            /\ given' = given /\ lost' = lost
        BY <1>1, <2>3 DEF Sort, Goto, NoCall, taskVars, Take, Free
      <3> QED BY <1>1, <3>1, <3>2 DEF OnePlace
    <2>4. ASSUME Answered(c) PROVE OnePlace'
      <3>1. UNCHANGED <<background, completed, hands, given, lost>> BY <2>4 DEF Answered, Goto, NoCall, taskVars
      <3> QED BY <1>1, <3>1 DEF OnePlace
    <2>5. ASSUME Count(c) PROVE OnePlace'
      <3>1. UNCHANGED <<background, completed, hands, given, lost>> BY <2>5 DEF Count, Goto, NoCall, taskVars, Free, HasRoom
      <3> QED BY <1>1, <3>1 DEF OnePlace
    <2>6. ASSUME BuildFails(c) PROVE OnePlace'
      <3>1. UNCHANGED <<background, completed, hands, given, lost>> BY <2>6 DEF BuildFails, Goto, NoCall, taskVars
      <3> QED BY <1>1, <3>1 DEF OnePlace
    <2>7. ASSUME NEW t \in Tasks, Spawn(c, t) PROVE OnePlace'
      <3>1. hands'[c] = {t} /\ \A d \in Callers \ {c} : hands'[d] = hands[d] BY <1>1, <2>7 DEF Spawn, Goto, NoCall, taskVars, Take, Spawned, TypeOK
      <3>2. /\ background' = background /\ completed' = completed
            /\ given' = given /\ lost' = lost
        BY <1>1, <2>7 DEF Spawn, Goto, NoCall, taskVars, Take, Spawned
      <3>3. t \notin background \cup completed \cup given \cup lost /\ \A d \in Callers : t \notin hands[d]
        BY <2>7 DEF Spawn, Spawned
      <3> QED BY <1>1, <3>1, <3>2, <3>3 DEF OnePlace
    <2>8. ASSUME Register(c) PROVE OnePlace'
      <3>1. hands'[c] = {} /\ \A d \in Callers \ {c} : hands'[d] = hands[d] BY <1>1, <2>8 DEF Register, Goto, NoCall, taskVars, Take, Free, TypeOK
      <3>2. /\ background' = background \cup hands[c] /\ completed' = completed
            /\ given' = given /\ lost' = lost
        BY <1>1, <2>8 DEF Register, Goto, NoCall, taskVars, Take, Free
      <3> QED BY <1>1, <3>1, <3>2 DEF OnePlace
    <2>9. ASSUME Inline(c) PROVE OnePlace'
      <3>1. UNCHANGED <<background, completed, hands, given, lost>> BY <2>9 DEF Inline, Goto, NoCall, taskVars
      <3> QED BY <1>1, <3>1 DEF OnePlace
    <2>10. ASSUME InlineEnds(c) PROVE OnePlace'
      <3>1. UNCHANGED <<background, completed, hands, given, lost>> BY <2>10 DEF InlineEnds, Goto, NoCall, taskVars
      <3> QED BY <1>1, <3>1 DEF OnePlace
    <2>11. ASSUME NEW t \in Spawned, NEW cancel \in BOOLEAN, LookCompleted(c, t, cancel) PROVE OnePlace'
      BY <1>1, <2>11 DEF LookCompleted, Without, OnePlace
    <2>12. ASSUME FindRunning(c) PROVE OnePlace'
      <3>1. CASE ~IsRegistered(call[c].target)
        <4>1. UNCHANGED <<background, completed, hands, given, lost>> BY <3>1, <2>12 DEF FindRunning
        <4> QED BY <1>1, <4>1 DEF OnePlace
      <3>2. CASE IsRegistered(call[c].target)
        <4> DEFINE u == call[c].target
        <4>1. hands'[c] = {u} /\ \A d \in Callers \ {c} : hands'[d] = hands[d]
          BY <1>1, <3>2, <2>12 DEF FindRunning, Take, TypeOK
        <4>2. background' = background \ {u} /\ u \in background BY <3>2, <2>12 DEF FindRunning, IsRegistered, Without
        <4>3. completed' = completed /\ given' = given /\ lost' = lost BY <2>12 DEF FindRunning
        <4> HIDE DEF u
        <4> QED BY <1>1, <4>1, <4>2, <4>3 DEF OnePlace
      <3> QED BY <3>1, <3>2
    <2>13. ASSUME Missing(c) PROVE OnePlace'
      <3>1. UNCHANGED <<background, completed, hands, given, lost>> BY <2>13 DEF Missing, Goto, NoCall, taskVars
      <3> QED BY <1>1, <3>1 DEF OnePlace
    <2>14. ASSUME Collect(c) PROVE OnePlace'
      <3>1. hands'[c] = {} /\ \A d \in Callers \ {c} : hands'[d] = hands[d] BY <1>1, <2>14 DEF Collect, Goto, NoCall, taskVars, Take, TypeOK
      <3>2. /\ background' = background /\ completed' = completed
            /\ given' = given \cup hands[c] /\ lost' = lost
        BY <1>1, <2>14 DEF Collect, Goto, NoCall, taskVars, Take
      <3> QED BY <1>1, <3>1, <3>2 DEF OnePlace
    <2>15. ASSUME WaitTimeout(c) PROVE OnePlace'
      <3>1. UNCHANGED <<background, completed, hands, given, lost>> BY <2>15 DEF WaitTimeout, Goto, NoCall, taskVars
      <3> QED BY <1>1, <3>1 DEF OnePlace
    <2>16. ASSUME StopTimeout(c) PROVE OnePlace'
      <3>1. hands'[c] = {} /\ \A d \in Callers \ {c} : hands'[d] = hands[d] BY <1>1, <2>16 DEF StopTimeout, Goto, NoCall, taskVars, Take, Aborts, TypeOK
      <3>2. /\ background' = background /\ completed' = completed
            /\ given' = given \cup hands[c] /\ lost' = lost
        BY <1>1, <2>16 DEF StopTimeout, Goto, NoCall, taskVars, Take, Aborts
      <3> QED BY <1>1, <3>1, <3>2 DEF OnePlace
    <2>17. ASSUME StatusRunning(c) PROVE OnePlace'
      <3>1. UNCHANGED <<background, completed, hands, given, lost>> BY <2>17 DEF StatusRunning, Goto, NoCall, taskVars, Free
      <3> QED BY <1>1, <3>1 DEF OnePlace
    <2>18. ASSUME StatusCompleted(c) PROVE OnePlace'
      <3>1. UNCHANGED <<background, completed, hands, given, lost>> BY <2>18 DEF StatusCompleted, Goto, NoCall, taskVars, Free
      <3> QED BY <1>1, <3>1 DEF OnePlace
    <2>19. ASSUME Drop(c) PROVE OnePlace'
      <3>1. hands'[c] = {} /\ \A d \in Callers \ {c} : hands'[d] = hands[d] BY <1>1, <2>19 DEF Drop, Goto, NoCall, taskVars, Take, TypeOK
      <3>2. /\ background' = background /\ completed' = completed
            /\ given' = given /\ lost' = lost \cup hands[c]
        BY <1>1, <2>19 DEF Drop, Goto, NoCall, taskVars, Take
      <3> QED BY <1>1, <3>1, <3>2 DEF OnePlace
    <2> QED BY <1>3, <2>1, <2>2, <2>3, <2>4, <2>5, <2>6, <2>7, <2>8, <2>9, <2>10, <2>11, <2>12, <2>13, <2>14, <2>15, <2>16, <2>17, <2>18, <2>19 DEF Proceed
  <1>4. ASSUME NEW t \in Tasks, TaskEnds(t) PROVE OnePlace'
    BY <1>1, <1>4 DEF TaskEnds, OnePlace
  <1>5. CASE Shutdown
    BY <1>1, <1>5 DEF Shutdown, OnePlace
  <1> QED BY <1>1, <1>2, <1>3, <1>4, <1>5 DEF Next

LEMMA AttendedStep == TypeOK /\ HandsFit /\ OnePlace /\ Attended /\ [Next]_vars => Attended'
PROOF
  <1>1. SUFFICES ASSUME TypeOK, HandsFit, OnePlace, Attended, [Next]_vars PROVE Attended' OBVIOUS
  <1> USE MaxTasksPositive, CallersFinite, TasksNumbered
  <1>2. CASE UNCHANGED vars BY <1>1, <1>2 DEF Attended, vars, Spawned
  <1>3. ASSUME NEW c \in Callers, Begin(c) \/ Proceed(c) \/ Inline(c) \/ InlineEnds(c) \/ Drop(c) PROVE Attended'
    <2>1. ASSUME Begin(c) PROVE Attended'
      BY <1>1, <2>1 DEF Begin, Goto, NoCall, taskVars, TypeOK, HandsFit, OnePlace, Attended, Holding, Spawned
    <2>2. ASSUME Sweep(c) PROVE Attended'
      BY <1>1, <2>2 DEF Sweep, Goto, NoCall, taskVars, Take, Free, TypeOK, HandsFit, OnePlace, Attended, Holding, Spawned
    <2>3. ASSUME Sort(c) PROVE Attended'
      BY <1>1, <2>3 DEF Sort, Goto, NoCall, taskVars, Take, Free, TypeOK, HandsFit, OnePlace, Attended, Holding, Spawned
    <2>4. ASSUME Answered(c) PROVE Attended'
      BY <1>1, <2>4 DEF Answered, Goto, NoCall, taskVars, TypeOK, HandsFit, OnePlace, Attended, Holding, Spawned
    <2>5. ASSUME Count(c) PROVE Attended'
      BY <1>1, <2>5 DEF Count, Goto, NoCall, taskVars, Free, HasRoom, TypeOK, HandsFit, OnePlace, Attended, Holding, Spawned
    <2>6. ASSUME BuildFails(c) PROVE Attended'
      BY <1>1, <2>6 DEF BuildFails, Goto, NoCall, taskVars, TypeOK, HandsFit, OnePlace, Attended, Holding, Spawned
    <2>7. ASSUME NEW t \in Tasks, Spawn(c, t) PROVE Attended'
      BY <1>1, <2>7 DEF Spawn, Goto, NoCall, taskVars, Take, Spawned, TypeOK, HandsFit, OnePlace, Attended, Holding, Spawned
    <2>8. ASSUME Register(c) PROVE Attended'
      BY <1>1, <2>8 DEF Register, Goto, NoCall, taskVars, Take, Free, TypeOK, HandsFit, OnePlace, Attended, Holding, Spawned
    <2>9. ASSUME Inline(c) PROVE Attended'
      BY <1>1, <2>9 DEF Inline, Goto, NoCall, taskVars, TypeOK, HandsFit, OnePlace, Attended, Holding, Spawned
    <2>10. ASSUME InlineEnds(c) PROVE Attended'
      BY <1>1, <2>10 DEF InlineEnds, Goto, NoCall, taskVars, TypeOK, HandsFit, OnePlace, Attended, Holding, Spawned
    <2>11. ASSUME NEW t \in Spawned, NEW cancel \in BOOLEAN, LookCompleted(c, t, cancel) PROVE Attended'
      BY <1>1, <2>11 DEF LookCompleted, Goto, NoCall, taskVars, Free, AfterMiss, Without, TypeOK, HandsFit, OnePlace, Attended, Holding, Spawned
    <2>12. ASSUME FindRunning(c) PROVE Attended'
      BY <1>1, <2>12 DEF FindRunning, Goto, NoCall, taskVars, Take, Free, IsRegistered, Without, TypeOK, HandsFit, OnePlace, Attended, Holding, Spawned
    <2>13. ASSUME Missing(c) PROVE Attended'
      BY <1>1, <2>13 DEF Missing, Goto, NoCall, taskVars, TypeOK, HandsFit, OnePlace, Attended, Holding, Spawned
    <2>14. ASSUME Collect(c) PROVE Attended'
      BY <1>1, <2>14 DEF Collect, Goto, NoCall, taskVars, Take, TypeOK, HandsFit, OnePlace, Attended, Holding, Spawned
    <2>15. ASSUME WaitTimeout(c) PROVE Attended'
      BY <1>1, <2>15 DEF WaitTimeout, Goto, NoCall, taskVars, TypeOK, HandsFit, OnePlace, Attended, Holding, Spawned
    <2>16. ASSUME StopTimeout(c) PROVE Attended'
      BY <1>1, <2>16 DEF StopTimeout, Goto, NoCall, taskVars, Take, Aborts, TypeOK, HandsFit, OnePlace, Attended, Holding, Spawned
    <2>17. ASSUME StatusRunning(c) PROVE Attended'
      BY <1>1, <2>17 DEF StatusRunning, Goto, NoCall, taskVars, Free, TypeOK, HandsFit, OnePlace, Attended, Holding, Spawned
    <2>18. ASSUME StatusCompleted(c) PROVE Attended'
      BY <1>1, <2>18 DEF StatusCompleted, Goto, NoCall, taskVars, Free, TypeOK, HandsFit, OnePlace, Attended, Holding, Spawned
    <2>19. ASSUME Drop(c) PROVE Attended'
      BY <1>1, <2>19 DEF Drop, Goto, NoCall, taskVars, Take, TypeOK, HandsFit, OnePlace, Attended, Holding, Spawned
    <2> QED BY <1>3, <2>1, <2>2, <2>3, <2>4, <2>5, <2>6, <2>7, <2>8, <2>9, <2>10, <2>11, <2>12, <2>13, <2>14, <2>15, <2>16, <2>17, <2>18, <2>19 DEF Proceed
  <1>4. ASSUME NEW t \in Tasks, TaskEnds(t) PROVE Attended'
    BY <1>1, <1>4 DEF TaskEnds, TypeOK, Attended, Spawned
  <1>5. CASE Shutdown
    BY <1>1, <1>5 DEF Shutdown, TypeOK, Attended, Spawned
  <1> QED BY <1>1, <1>2, <1>3, <1>4, <1>5 DEF Next

LEMMA ExtraFinite == IsFiniteSet(Extra) /\ Cardinality(Extra) \in Nat /\ Cardinality(Callers) \in Nat
PROOF
  <1>1. Extra \subseteq Callers BY DEF Extra
  <1> QED BY <1>1, CallersFinite, FS_Subset, FS_CardinalityType

LEMMA SumShrinks ==
  ASSUME SumBound, background' \subseteq background, Extra' \subseteq Extra
  PROVE  SumBound'
PROOF
  <1>1. IsFiniteSet(background') /\ Cardinality(background') <= Cardinality(background)
    BY FS_Subset DEF SumBound
  <1>2. Cardinality(Extra') <= Cardinality(Extra) /\ IsFiniteSet(Extra') BY ExtraFinite, FS_Subset
  <1>3. /\ Cardinality(background) \in Nat /\ Cardinality(background') \in Nat
        /\ Cardinality(Extra) \in Nat /\ Cardinality(Extra') \in Nat
    BY <1>1, <1>2, ExtraFinite, FS_CardinalityType DEF SumBound
  <1> QED BY <1>1, <1>2, <1>3, ExtraFinite, MaxTasksPositive DEF SumBound, Sum, Bound

\* a call takes a task out of the map, or puts one into it
LEMMA SumMoves ==
  ASSUME SumBound, NEW c, NEW t,
         \/ /\ c \notin Extra /\ Extra' = Extra \cup {c}
            /\ t \in background /\ background' = background \ {t}
         \/ /\ c \in Extra /\ Extra' = Extra \ {c}
            /\ background' = background \cup {t}
  PROVE  SumBound'
PROOF
  <1>1. Cardinality(background) \in Nat BY FS_CardinalityType DEF SumBound
  <1>2. CASE /\ c \notin Extra /\ Extra' = Extra \cup {c}
             /\ t \in background /\ background' = background \ {t}
    <2>1. IsFiniteSet(background') /\ Cardinality(background') = Cardinality(background) - 1
      BY <1>2, FS_RemoveElement DEF SumBound
    <2>2. Cardinality(Extra') = Cardinality(Extra) + 1 BY <1>2, ExtraFinite, FS_AddElement
    <2> QED BY <1>1, <2>1, <2>2, ExtraFinite, MaxTasksPositive DEF SumBound, Sum, Bound
  <1>3. CASE /\ c \in Extra /\ Extra' = Extra \ {c}
             /\ background' = background \cup {t}
    <2>1. /\ IsFiniteSet(background') /\ Cardinality(background') \in Nat
          /\ Cardinality(background') <= Cardinality(background) + 1
      BY <1>1, <1>3, FS_AddElement DEF SumBound
    <2>2. Cardinality(Extra') = Cardinality(Extra) - 1 BY <1>3, ExtraFinite, FS_RemoveElement
    <2> QED BY <1>1, <2>1, <2>2, ExtraFinite, MaxTasksPositive DEF SumBound, Sum, Bound
  <1> QED BY <1>2, <1>3

LEMMA SumStep == TypeOK /\ HandsFit /\ SumBound /\ [Next]_vars => SumBound'
PROOF
  <1>1. SUFFICES ASSUME TypeOK, HandsFit, SumBound, [Next]_vars PROVE SumBound' OBVIOUS
  <1> USE MaxTasksPositive, CallersFinite, TasksNumbered
  <1>2. CASE UNCHANGED vars BY <1>1, <1>2 DEF SumBound, vars, Sum, Bound, Extra
  <1>3. ASSUME NEW c \in Callers, Begin(c) \/ Proceed(c) \/ Inline(c) \/ InlineEnds(c) \/ Drop(c) PROVE SumBound'
    <2>1. ASSUME Begin(c) PROVE SumBound'
      <3>1. background' = background /\ Extra' = Extra BY <1>1, <2>1 DEF Begin, Goto, NoCall, taskVars, TypeOK, Extra, Holding
      <3> QED BY <1>1, <3>1 DEF SumBound, Sum, Bound
    <2>2. ASSUME Sweep(c) PROVE SumBound'
      <3>1. background' \subseteq background /\ Extra' \subseteq Extra BY <1>1, <2>2 DEF Sweep, Goto, NoCall, taskVars, Take, Free, TypeOK, Extra, Holding
      <3> QED BY <1>1, <3>1, SumShrinks
    <2>3. ASSUME Sort(c) PROVE SumBound'
      <3>1. background' = background /\ Extra' = Extra BY <1>1, <2>3 DEF Sort, Goto, NoCall, taskVars, Take, Free, TypeOK, Extra, Holding
      <3> QED BY <1>1, <3>1 DEF SumBound, Sum, Bound
    <2>4. ASSUME Answered(c) PROVE SumBound'
      <3>1. background' = background /\ Extra' = Extra BY <1>1, <2>4 DEF Answered, Goto, NoCall, taskVars, TypeOK, Extra, Holding
      <3> QED BY <1>1, <3>1 DEF SumBound, Sum, Bound
    <2>5. ASSUME Count(c) PROVE SumBound'
      <3>1. background' = background BY <2>5 DEF Count, Goto, NoCall, taskVars, Free, HasRoom
      <3>2. CASE ~HasRoom
        <4>1. Extra' = Extra BY <1>1, <3>2, <2>5 DEF Count, Goto, TypeOK, Extra, Holding
        <4> QED BY <1>1, <3>1, <4>1 DEF SumBound, Sum, Bound
      <3>3. CASE HasRoom
        <4>1. Extra' = Extra \cup {c} /\ c \notin Extra BY <1>1, <3>3, <2>5 DEF Count, Goto, TypeOK, Extra, Holding
        <4>2. Extra' \subseteq Callers BY <4>1 DEF Extra
        <4>3. Cardinality(Extra') <= Cardinality(Callers) /\ Cardinality(Extra') \in Nat
          BY <4>2, FS_Subset, FS_CardinalityType
        <4>4. Cardinality(background) \in Nat BY <1>1, FS_CardinalityType DEF SumBound
        <4> QED BY <1>1, <3>1, <3>3, <4>3, <4>4, ExtraFinite DEF SumBound, Sum, Bound, HasRoom
      <3> QED BY <3>2, <3>3
    <2>6. ASSUME BuildFails(c) PROVE SumBound'
      <3>1. background' \subseteq background /\ Extra' \subseteq Extra BY <1>1, <2>6 DEF BuildFails, Goto, NoCall, taskVars, TypeOK, Extra, Holding
      <3> QED BY <1>1, <3>1, SumShrinks
    <2>7. ASSUME NEW t \in Tasks, Spawn(c, t) PROVE SumBound'
      <3>1. background' = background /\ Extra' = Extra BY <1>1, <2>7 DEF Spawn, Goto, NoCall, taskVars, Take, Spawned, TypeOK, Extra, Holding
      <3> QED BY <1>1, <3>1 DEF SumBound, Sum, Bound
    <2>8. ASSUME Register(c) PROVE SumBound'
      <3>1. PICK t \in Tasks : hands[c] = {t} BY <1>1, <2>8 DEF Register, Goto, NoCall, taskVars, Take, Free, HandsFit, Holding
      <3>2. background' = background \cup {t} BY <3>1, <2>8 DEF Register, Goto, NoCall, taskVars, Take, Free
      <3>3. c \in Extra /\ Extra' = Extra \ {c} BY <1>1, <2>8 DEF Register, Goto, NoCall, taskVars, Take, Free, TypeOK, Extra, Holding
      <3> QED BY <1>1, <3>2, <3>3, SumMoves
    <2>9. ASSUME Inline(c) PROVE SumBound'
      <3>1. background' = background /\ Extra' = Extra BY <1>1, <2>9 DEF Inline, Goto, NoCall, taskVars, TypeOK, Extra, Holding
      <3> QED BY <1>1, <3>1 DEF SumBound, Sum, Bound
    <2>10. ASSUME InlineEnds(c) PROVE SumBound'
      <3>1. background' = background /\ Extra' = Extra BY <1>1, <2>10 DEF InlineEnds, Goto, NoCall, taskVars, TypeOK, Extra, Holding
      <3> QED BY <1>1, <3>1 DEF SumBound, Sum, Bound
    <2>11. ASSUME NEW t \in Spawned, NEW cancel \in BOOLEAN, LookCompleted(c, t, cancel) PROVE SumBound'
      <3>1. background' = background /\ Extra' = Extra BY <1>1, <2>11 DEF LookCompleted, Goto, NoCall, taskVars, Free, AfterMiss, Without, TypeOK, Extra, Holding
      <3> QED BY <1>1, <3>1 DEF SumBound, Sum, Bound
    <2>12. ASSUME FindRunning(c) PROVE SumBound'
      <3>1. CASE IsRegistered(call[c].target)
        <4>1. background' = background \ {call[c].target} /\ call[c].target \in background BY <3>1, <2>12 DEF FindRunning, Without, IsRegistered
        <4>2. c \notin Extra /\ Extra' = Extra \cup {c} BY <1>1, <3>1, <2>12 DEF FindRunning, Goto, TypeOK, Extra, Holding
        <4> QED BY <1>1, <4>1, <4>2, SumMoves
      <3>2. CASE ~IsRegistered(call[c].target)
        <4>1. background' = background /\ Extra' = Extra BY <1>1, <3>2, <2>12 DEF FindRunning, Goto, TypeOK, Extra, Holding
        <4> QED BY <1>1, <4>1 DEF SumBound, Sum, Bound
      <3> QED BY <3>1, <3>2
    <2>13. ASSUME Missing(c) PROVE SumBound'
      <3>1. background' = background /\ Extra' = Extra BY <1>1, <2>13 DEF Missing, Goto, NoCall, taskVars, TypeOK, Extra, Holding
      <3> QED BY <1>1, <3>1 DEF SumBound, Sum, Bound
    <2>14. ASSUME Collect(c) PROVE SumBound'
      <3>1. background' \subseteq background /\ Extra' \subseteq Extra BY <1>1, <2>14 DEF Collect, Goto, NoCall, taskVars, Take, TypeOK, Extra, Holding
      <3> QED BY <1>1, <3>1, SumShrinks
    <2>15. ASSUME WaitTimeout(c) PROVE SumBound'
      <3>1. background' = background /\ Extra' = Extra BY <1>1, <2>15 DEF WaitTimeout, Goto, NoCall, taskVars, TypeOK, Extra, Holding
      <3> QED BY <1>1, <3>1 DEF SumBound, Sum, Bound
    <2>16. ASSUME StopTimeout(c) PROVE SumBound'
      <3>1. background' \subseteq background /\ Extra' \subseteq Extra BY <1>1, <2>16 DEF StopTimeout, Goto, NoCall, taskVars, Take, Aborts, TypeOK, Extra, Holding
      <3> QED BY <1>1, <3>1, SumShrinks
    <2>17. ASSUME StatusRunning(c) PROVE SumBound'
      <3>1. background' = background /\ Extra' = Extra BY <1>1, <2>17 DEF StatusRunning, Goto, NoCall, taskVars, Free, TypeOK, Extra, Holding
      <3> QED BY <1>1, <3>1 DEF SumBound, Sum, Bound
    <2>18. ASSUME StatusCompleted(c) PROVE SumBound'
      <3>1. background' = background /\ Extra' = Extra BY <1>1, <2>18 DEF StatusCompleted, Goto, NoCall, taskVars, Free, TypeOK, Extra, Holding
      <3> QED BY <1>1, <3>1 DEF SumBound, Sum, Bound
    <2>19. ASSUME Drop(c) PROVE SumBound'
      <3>1. background' \subseteq background /\ Extra' \subseteq Extra BY <1>1, <2>19 DEF Drop, Goto, NoCall, taskVars, Take, TypeOK, Extra, Holding
      <3> QED BY <1>1, <3>1, SumShrinks
    <2> QED BY <1>3, <2>1, <2>2, <2>3, <2>4, <2>5, <2>6, <2>7, <2>8, <2>9, <2>10, <2>11, <2>12, <2>13, <2>14, <2>15, <2>16, <2>17, <2>18, <2>19 DEF Proceed
  <1>4. ASSUME NEW t \in Tasks, TaskEnds(t) PROVE SumBound'
    <2>1. background' = background /\ Extra' = Extra BY <1>4 DEF TaskEnds, Extra
    <2> QED BY <1>1, <2>1 DEF SumBound, Sum, Bound
  <1>5. CASE Shutdown
    <2>1. background' = background /\ Extra' = Extra BY <1>5 DEF Shutdown, Extra
    <2> QED BY <1>1, <2>1 DEF SumBound, Sum, Bound
  <1> QED BY <1>1, <1>2, <1>3, <1>4, <1>5 DEF Next

LEMMA IInit == Init => IInv
PROOF
  <1>1. SUFFICES ASSUME Init PROVE IInv OBVIOUS
  <1>2. TypeOK BY <1>1, TypeInit
  <1>3. HandsFit BY <1>1 DEF Init, HandsFit, Holding
  <1>4. OnePlace BY <1>1 DEF Init, OnePlace
  <1>5. Attended BY <1>1 DEF Init, Attended
  <1>6. SumBound
    <2>1. background = {} /\ Extra = {} BY <1>1 DEF Init, Extra, Holding
    <2>2. CASE Callers = {}
      <3>1. Cardinality(Callers) = 0 BY <2>2, FS_EmptySet
      <3> QED BY <2>1, <3>1, FS_EmptySet, MaxTasksPositive DEF SumBound, Sum, Bound
    <2>3. CASE Callers # {}
      <3>1. Cardinality(Callers) \in Nat BY CallersFinite, FS_CardinalityType
      <3> QED BY <2>1, <3>1, FS_EmptySet, MaxTasksPositive DEF SumBound, Sum, Bound
    <2> QED BY <2>2, <2>3
  <1> QED BY <1>2, <1>3, <1>4, <1>5, <1>6 DEF IInv

LEMMA Inductive == Spec => []IInv
PROOF
  <1>1. IInv /\ [Next]_vars => IInv'
    BY TypeStep, HandsStep, OnePlaceStep, AttendedStep, SumStep DEF IInv
  <1> QED BY IInit, <1>1, PTL DEF Spec

\* A task is always in one of the two maps, or in the hands of one call, or
\* its result was given, or it was lost with a dropped call: no result is
\* given twice and no sweep, wait, stop or time limit loses one.
THEOREM EachInOnePlace == Spec => []OnePlace
PROOF
  <1>1. IInv => OnePlace BY DEF IInv
  <1> QED BY <1>1, Inductive, PTL

\* A task whose result was given runs on only if it was aborted, and when the
\* client is gone only what dropped calls lost runs without having been told
\* to stop.
THEOREM NoneLeftUnattended == Spec => []NoneUnattended
PROOF
  <1>1. IInv => NoneUnattended
    <2>1. SUFFICES ASSUME IInv, NEW t \in running
                   PROVE  /\ t \in given => t \in aborted
                          /\ closed => t \in cancelled \cup aborted \cup lost
      BY DEF NoneUnattended
    <2>2. t \in given => t \in aborted BY <2>1 DEF IInv, Attended
    <2>3. ASSUME closed PROVE t \in cancelled \cup aborted \cup lost
      <3>1. \A c \in Callers : hands[c] = {} BY <2>1, <2>3 DEF IInv, Attended, HandsFit, Holding
      <3>2. t \in background \cup given \cup lost BY <2>1, <3>1 DEF IInv, Attended, Spawned
      <3> QED BY <2>1, <2>2, <2>3, <3>2 DEF IInv, Attended
    <2> QED BY <2>2, <2>3
  <1> QED BY <1>1, Inductive, PTL

\* With n calls at a time at most n - 1 tasks are registered above the limit:
\* with one call the limit holds.
THEOREM LimitPassedByFewerThanCalls == Spec => []LimitBound
PROOF
  <1>1. IInv => LimitBound
    <2>1. SUFFICES ASSUME IInv PROVE LimitBound OBVIOUS
    <2>2. Cardinality(background) \in Nat BY <2>1, FS_CardinalityType DEF IInv, SumBound
    <2> QED BY <2>1, <2>2, ExtraFinite, MaxTasksPositive DEF IInv, SumBound, Sum, Bound, LimitBound
  <1> QED BY <1>1, Inductive, PTL
-----------------------------------------------------------------------------
(***************************************************************************)
(* A call that has been alone has the maps to itself: what it looked up in *)
(* the first is still true when it has looked into the second.             *)
(***************************************************************************)
Alone ==
  /\ \A c \in Callers : at[c] # "idle" /\ call[c].alone => \A d \in Callers \ {c} : at[d] = "idle"
  /\ \A c \in Callers : at[c] = "find" /\ call[c].alone => call[c].target \notin completed
  /\ NotFoundAlone

\* A step of an open call: any other call that is open was never alone
LEMMA AloneMove ==
  ASSUME TypeOK, Alone, NEW c \in Callers, at[c] # "idle", NEW p, at' = [at EXCEPT ![c] = p],
         \A d \in Callers \ {c} : call'[d] = call[d],
         p # "idle" => call'[c].alone = call[c].alone,
         p = "find" => call'[c].target \notin completed',
         p = "missing" /\ call[c].alone => call'[c].target \notin background' \cup completed'
  PROVE  Alone'
PROOF
  <1>1. at'[c] = p /\ \A d \in Callers \ {c} : at'[d] = at[d] BY DEF TypeOK
  <1>2. \A d \in Callers \ {c} : at[d] # "idle" => ~call[d].alone BY DEF Alone
  <1> QED BY <1>1, <1>2 DEF Alone, NotFoundAlone

LEMMA AloneGoto ==
  ASSUME TypeOK, Alone, NEW c \in Callers, at[c] # "idle", NEW p, p \notin {"find", "missing"}, Goto(c, p)
  PROVE  Alone'
PROOF
  <1>1. /\ at' = [at EXCEPT ![c] = p]
        /\ \A d \in Callers \ {c} : call'[d] = call[d]
        /\ p # "idle" => call'[c].alone = call[c].alone
    BY DEF Goto, TypeOK
  <1> QED BY <1>1, AloneMove

LEMMA AloneStep == TypeOK /\ Alone /\ [Next]_vars => Alone'
PROOF
  <1>1. SUFFICES ASSUME TypeOK, Alone, [Next]_vars PROVE Alone' OBVIOUS
  <1>2. CASE UNCHANGED vars BY <1>1, <1>2 DEF Alone, NotFoundAlone, vars
  <1>3. ASSUME NEW c \in Callers, Begin(c) PROVE Alone'
    <2> DEFINE first == \A d \in Callers : at[d] = "idle"
    <2>1. /\ at[c] = "idle"
          /\ call' = [d \in Callers |->
                       IF at[d] = "idle" THEN [NoCall EXCEPT !.alone = (d = c => first)]
                       ELSE [call[d] EXCEPT !.alone = FALSE]]
          /\ at' = [at EXCEPT ![c] = "sweep"]
      BY <1>3 DEF Begin
    <2>2. \A d \in Callers : at[d] # "idle" => ~call'[d].alone
      <3> SUFFICES ASSUME NEW d \in Callers, at[d] # "idle" PROVE ~call'[d].alone OBVIOUS
      <3>1. call'[d] = [call[d] EXCEPT !.alone = FALSE] BY <2>1
      <3>2. call[d] \in [target : Tasks \cup {0}, cancel : BOOLEAN, alone : BOOLEAN] BY <1>1 DEF TypeOK
      <3> QED BY <3>1, <3>2
    <2>3. call'[c].alone => first
      <3>1. call'[c] = [NoCall EXCEPT !.alone = first] BY <2>1
      <3> HIDE DEF first
      <3> QED BY <3>1 DEF NoCall
    <2>4. at'[c] = "sweep" /\ \A d \in Callers \ {c} : at'[d] = at[d] BY <1>1, <2>1 DEF TypeOK
    <2> QED BY <2>2, <2>3, <2>4 DEF Alone, NotFoundAlone
  <1>4. ASSUME NEW c \in Callers, Proceed(c) \/ Inline(c) \/ InlineEnds(c) \/ Drop(c) PROVE Alone'
    <2>1. ASSUME NEW t, NEW cancel \in BOOLEAN, LookCompleted(c, t, cancel) PROVE Alone'
      <3>1. CASE t \in completed BY <1>1, <2>1, <3>1, AloneGoto DEF LookCompleted
      <3>2. CASE t \notin completed
        <4>1. /\ at[c] = "swept" /\ at' = [at EXCEPT ![c] = "find"]
              /\ call' = [call EXCEPT ![c].target = t, ![c].cancel = cancel]
              /\ completed' = completed
          BY <2>1, <3>2 DEF LookCompleted
        <4>2. PICK r : r = call[c] OBVIOUS
        <4>3. r \in [target : Tasks \cup {0}, cancel : BOOLEAN, alone : BOOLEAN] BY <1>1, <4>2 DEF TypeOK
        <4>4. call'[c] = [r EXCEPT !.target = t, !.cancel = cancel]
          BY <1>1, <4>1, <4>2 DEF TypeOK
        <4>5. [r EXCEPT !.target = t, !.cancel = cancel] = [target |-> t, cancel |-> cancel, alone |-> r.alone]
          <5>1. PICK q : q = [r EXCEPT !.target = t] OBVIOUS
          <5>2. q = [target |-> t, cancel |-> r.cancel, alone |-> r.alone] BY <4>3, <5>1
          <5>3. [q EXCEPT !.cancel = cancel] = [target |-> t, cancel |-> cancel, alone |-> r.alone] BY <5>2
          <5> QED BY <5>1, <5>3
        <4>6. call'[c].target = t /\ call'[c].alone = call[c].alone BY <4>2, <4>4, <4>5
        <4>7. \A d \in Callers \ {c} : call'[d] = call[d] BY <1>1, <4>1 DEF TypeOK
        <4>8. at[c] # "idle" /\ at' = [at EXCEPT ![c] = "find"] /\ t \notin completed'
          BY <3>2, <4>1
        <4> QED BY <1>1, <4>6, <4>7, <4>8, AloneMove
      <3> QED BY <3>1, <3>2
    <2>2. ASSUME FindRunning(c) PROVE Alone'
      <3>1. CASE IsRegistered(call[c].target) BY <1>1, <2>2, <3>1, AloneGoto DEF FindRunning
      <3>2. CASE ~IsRegistered(call[c].target)
        <4>1. /\ at[c] = "find" /\ at' = [at EXCEPT ![c] = "missing"] /\ call' = call
              /\ UNCHANGED <<background, completed>>
          BY <2>2, <3>2 DEF FindRunning, Goto
        <4>2. call[c].alone => call[c].target \notin background \cup completed
          BY <1>1, <3>2, <4>1 DEF Alone, IsRegistered
        <4> QED BY <1>1, <4>1, <4>2, AloneMove
      <3> QED BY <3>1, <3>2
    <2>3. CASE Sweep(c) \/ Sort(c) \/ Answered(c) \/ Count(c) \/ BuildFails(c) \/ (\E t \in Tasks : Spawn(c, t))
      BY <1>1, <2>3, AloneGoto DEF Sweep, Sort, Answered, Count, BuildFails, Spawn
    <2>4. CASE Register(c) \/ Missing(c) \/ Collect(c) \/ WaitTimeout(c) \/ StopTimeout(c)
      BY <1>1, <2>4, AloneGoto DEF Register, Missing, Collect, WaitTimeout, StopTimeout
    <2>5. CASE StatusRunning(c) \/ StatusCompleted(c) \/ Inline(c) \/ InlineEnds(c) \/ Drop(c)
      BY <1>1, <2>5, AloneGoto DEF StatusRunning, StatusCompleted, Inline, InlineEnds, Drop
    <2> QED BY <1>4, <2>1, <2>2, <2>3, <2>4, <2>5 DEF Proceed
  <1>5. ASSUME (\E t \in Tasks : TaskEnds(t)) \/ Shutdown PROVE Alone'
    <2>1. UNCHANGED <<at, call, background, completed>> BY <1>5 DEF TaskEnds, Shutdown
    <2> QED BY <1>1, <2>1 DEF Alone, NotFoundAlone
  <1> QED BY <1>1, <1>2, <1>3, <1>4, <1>5 DEF Next

\* However long a call takes between its two looks, if no other call was open
\* meanwhile it says "not found" only of a task that neither map holds.
THEOREM NotFoundIsRight == Spec => []NotFoundAlone
PROOF
  <1>1. Init => Alone BY DEF Init, Alone, NotFoundAlone
  <1>2. Alone => NotFoundAlone BY DEF Alone
  <1> QED BY <1>1, <1>2, TypeInit, TypeStep, AloneStep, PTL DEF Spec
=============================================================================
