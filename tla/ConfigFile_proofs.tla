-------------------------- MODULE ConfigFile_proofs --------------------------
(***************************************************************************)
(* For any callers, keys and number of backups: the mutex keeps changes    *)
(* apart, the file is the register that Settings promises, and the first   *)
(* backup that parses is the last replaced text.                           *)
(*                                                                         *)
(* All follows one idea.  A call left alone is the only one that writes:   *)
(* the mutex excludes two changes, and calm excludes a read that repairs   *)
(* beside another writer.  So between its load and its rename nobody else  *)
(* touches the file, and what it holds in memory is what the file says, or *)
(* will say when the file is replaced (Progress).                          *)
(***************************************************************************)
EXTENDS ConfigFile, WellFoundedInduction, TLAPS

\* What the mutex keeps apart: the last part of TypeOK
Mutex == \A c \in Callers : guard = c <=> Changes(c)

\* What a caller holds at each point
Locals ==
  \A c \in Callers :
    /\ at[c] = "lock" => op[c].kind # "get"
    /\ IF op[c].kind = "get" THEN op[c] = NoOp ELSE op[c].key \in Keys
    /\ at[c] = "idle" => op[c] = NoOp
    /\ at[c] \in SavePoints /\ op[c].kind = "get" => then[c] # "answer"
    /\ at[c] # "answer" => ok[c]

TInv == TypeOK /\ Locals

Ops == [kind : {"get", "set", "delete"}, key : Keys \cup {None}]

LEMMA SavePointsArePoints == SavePoints \subseteq Points /\ "answer" \notin SavePoints /\ "idle" \notin SavePoints
  BY DEF SavePoints, Points

\* A set of numbers has a least member
LEMMA LeastMember ==
  ASSUME NEW T \in SUBSET Nat, T # {}
  PROVE  \E m \in T : \A n \in T : m <= n
PROOF
  <1> DEFINE R == OpToRel(<, Nat)
  <1>1. \A m, n \in Nat : <<n, m>> \in R <=> n < m BY DEF OpToRel
  <1> HIDE DEF R
  <1>2. IsWellFoundedOn(R, Nat) BY NatLessThanWellFounded DEF R
  <1>3. \E m \in T : \A n \in T : <<n, m>> \notin R BY <1>2, WFMin
  <1>4. PICK m \in T : \A n \in T : <<n, m>> \notin R BY <1>3
  <1>5. ASSUME NEW n \in T PROVE m <= n
    <2>1. n \in Nat /\ m \in Nat OBVIOUS
    <2>2. ~(n < m) BY <1>1, <1>4, <2>1, Zenon
    <2> QED BY <2>1, <2>2
  <1> QED BY <1>5

\* A text that is restored is a set of keys
LEMMA RestoredType ==
  ASSUME TypeOK
  PROVE  Restored \in SUBSET Keys
PROOF
  <1> DEFINE sound == {i \in 0 .. Backups : Parses(bak[i])}
  <1>1. CASE sound = {} BY <1>1, ShippedAreKeys DEF Restored
  <1>2. CASE sound # {}
    <2>1. \A i \in sound : i \in 0 .. Backups /\ bak[i] \in SUBSET Keys BY DEF TypeOK, Texts, Parses
    <2>2. \E i \in sound : \A j \in sound : i <= j
      <3>1. sound \in SUBSET Nat BY CallersAndBackups
      <3> QED BY <1>2, <3>1, LeastMember
    <2> QED BY <1>2, <2>1, <2>2 DEF Restored
  <1> QED BY <1>1, <1>2

\* The backups move one place on
LEMMA ShiftedType ==
  ASSUME TypeOK
  PROVE  Shifted \in [0 .. Backups -> Texts]
  BY CallersAndBackups DEF TypeOK, Shifted, Texts
-----------------------------------------------------------------------------
\* A file that is written holds a text
LEMMA OverType == \A old, t : t \in Texts => Over(old, t) \subseteq Texts
  BY DEF Over, Texts

LEMMA SetsAreTexts == SUBSET Keys \subseteq Texts
  BY DEF Texts

\* The files and the calls
Shapes ==
  /\ disk \in [config : Texts, temp : Texts]
  /\ bak \in [0 .. Backups -> Texts]
  /\ at \in [Callers -> Points]
  /\ op \in [Callers -> Ops]
  /\ values \in [Callers -> SUBSET Keys]
  /\ file \in [Callers -> {"config", "temp", "gone"}]
  /\ then \in [Callers -> {"migrate", "change", "answer"}]
  /\ ok \in [Callers -> BOOLEAN]

\* The copy on request
CopyShape == copyAt \in {"idle", "open", "fill"} /\ copyOf \in Texts /\ copyTo \in 0 .. Backups + 1

LEMMA Parts == TypeOK <=> /\ Shapes /\ Mutex /\ CopyShape
                          /\ calm \in BOOLEAN /\ before \in {None} \cup SUBSET Keys
  BY DEF TypeOK, Shapes, Mutex, CopyShape, Ops

LEMMA TypeInit == Init => TInv
PROOF
  <1>1. SUFFICES ASSUME Init PROVE TInv OBVIOUS
  <1>2. Shapes BY <1>1 DEF Init, Shapes, Points, Ops, NoOp
  <1>3. CopyShape BY <1>1, CallersAndBackups DEF Init, CopyShape, Texts
  <1>4. Mutex /\ Locals BY <1>1, CallersAndBackups DEF Init, Mutex, Locals, Changes, NoOp, SavePoints
  <1> QED BY <1>1, <1>2, <1>3, <1>4, Parts DEF TInv, Init

\* A step of a call past its lock, which leaves the mutex and the operation
LEMMA Midway ==
  ASSUME TInv, NEW c \in Callers, UNCHANGED <<guard, op>>,
         at[c] \notin {"idle", "lock"},
         at'[c] \notin {"idle", "lock"},
         at' = [at EXCEPT ![c] = at'[c]],
         at'[c] \in SavePoints /\ op[c].kind = "get" => then'[c] # "answer",
         at'[c] # "answer" => ok'[c],
         \A d \in Callers \ {c} : then'[d] = then[d] /\ ok'[d] = ok[d]
  PROVE  Mutex' /\ Locals'
PROOF
  <1>1. \A d \in Callers \ {c} : at'[d] = at[d] BY DEF TInv, TypeOK
  <1>2. Mutex' BY <1>1, Parts DEF TInv, Mutex, Changes
  <1>3. Locals' BY <1>1 DEF TInv, Locals
  <1> QED BY <1>2, <1>3

\* The end of a save
LEMMA SavedMidway ==
  ASSUME TInv, NEW c \in Callers, NEW success \in BOOLEAN, Saved(c, success),
         at[c] \in SavePoints, UNCHANGED <<guard, op, then>>
  PROVE  Mutex' /\ Locals'
PROOF
  <1>1. Shapes /\ Locals BY Parts DEF TInv
  <1>2. at[c] \notin {"idle", "lock", "answer"} BY DEF SavePoints
  <1>3. CASE then[c] = "answer"
    <2>1. at' = [at EXCEPT ![c] = "answer"] /\ ok' = [ok EXCEPT ![c] = success]
      BY <1>3 DEF Saved, Reply, Goto
    <2> QED BY <1>1, <1>2, <2>1, Midway DEF Shapes, SavePoints
  <1>4. CASE then[c] # "answer"
    <2>1. at' = [at EXCEPT ![c] = then[c]] /\ ok' = ok BY <1>4 DEF Saved, Goto
    <2>2. then[c] \in {"migrate", "change"} BY <1>1, <1>4 DEF Shapes
    <2>3. ok[c] BY <1>1, <1>2 DEF Locals
    <2> QED BY <1>1, <1>2, <1>4, <2>1, <2>2, <2>3, Midway DEF Shapes, SavePoints
  <1> QED BY <1>3, <1>4

LEMMA StepTypes == ASSUME TInv, NEW c \in Callers, Begin(c) \/ Proceed(c) \/ WriteFails(c)
                   PROVE  Shapes' /\ Mutex' /\ Locals'
PROOF
  <1>1. Shapes /\ Mutex /\ Locals BY Parts DEF TInv
  <1>2. CASE Begin(c)
    <2>1. at[c] = "idle" BY <1>2 DEF Begin
    <2>2. PICK k \in Ops, place \in {"load", "lock"} :
            /\ op' = [op EXCEPT ![c] = k] /\ at' = [at EXCEPT ![c] = place]
            /\ place = "lock" => k.kind # "get"
            /\ IF k.kind = "get" THEN k = NoOp ELSE k.key \in Keys
            /\ place = "load" => k.kind = "get"
      <3>1. NoOp \in Ops BY DEF NoOp, Ops
      <3>2. CASE Goto(c, "load") /\ op' = [op EXCEPT ![c] = NoOp]
        BY <3>1, <3>2 DEF Goto, NoOp
      <3>3. CASE /\ Goto(c, "lock")
                 /\ \E kind \in {"set", "delete"}, k \in Keys : op' = [op EXCEPT ![c] = [kind |-> kind, key |-> k]]
        <4>1. PICK kind \in {"set", "delete"}, k \in Keys : op' = [op EXCEPT ![c] = [kind |-> kind, key |-> k]]
          BY <3>3
        <4>2. [kind |-> kind, key |-> k] \in Ops BY DEF Ops
        <4> QED BY <3>3, <4>1, <4>2 DEF Goto
      <3> QED BY <1>2, <3>2, <3>3 DEF Begin
    <2>3. UNCHANGED <<disk, bak, guard, values, file, then, ok>> BY <1>2 DEF Begin
    <2>4. Shapes' BY <1>1, <2>2, <2>3 DEF Shapes, Points
    <2>5. Mutex' BY <1>1, <2>1, <2>2, <2>3 DEF Mutex, Changes, Shapes
    <2>6. Locals' BY <1>1, <2>2, <2>3, <2>1, SavePointsArePoints DEF Locals, Shapes, SavePoints
    <2> QED BY <2>4, <2>5, <2>6
  <1>3. CASE Lock(c)
    <2>1. Shapes' BY <1>1, <1>3 DEF Shapes, Lock, Goto, Points
    <2>2. op[c].kind # "get" BY <1>1, <1>3 DEF Locals, Lock
    <2>4. /\ at' = [at EXCEPT ![c] = "load"] /\ op' = op
          /\ at[c] = "lock" /\ guard = None /\ guard' = c
      BY <1>3 DEF Lock, LockFirst, Goto
    <2>5. Mutex' BY <1>1, <2>2, <2>4, CallersAndBackups DEF Mutex, Changes, Shapes
    <2>6. Locals' BY <1>1, <1>3 DEF Locals, Shapes, Lock, Goto, SavePoints
    <2> QED BY <2>1, <2>5, <2>6
  <1>4. CASE Load(c)
    <2>1. Shapes'
      BY <1>1, <1>4 DEF Shapes, Load, Goto, Points, SavePoints, Texts
    <2>2. Mutex' /\ Locals'
      BY <1>1, <1>4, Midway DEF Shapes, Locals, Load, Goto, SavePoints
    <2> QED BY <2>1, <2>2
  <1>5. CASE Read(c)
    <2>1. Shapes'
      <3>1. /\ at' \in [Callers -> Points] /\ ok' \in [Callers -> BOOLEAN] /\ values' \in [Callers -> SUBSET Keys]
        BY <1>1, <1>5 DEF Shapes, Read, Reply, Goto, Points, SavePoints, Texts
      <3> QED BY <1>1, <1>5, <3>1 DEF Shapes, Read
    <2>2. Mutex' /\ Locals'
      BY <1>1, <1>5, Midway DEF Shapes, Locals, Read, Reply, Goto, Parses, SavePoints
    <2> QED BY <2>1, <2>2
  <1>6. CASE Restore(c)
    <2>1. Shapes'
      <3>1. Restored \in SUBSET Keys BY RestoredType DEF TInv
      <3>2. /\ values' = [values EXCEPT ![c] = Restored] /\ at' = [at EXCEPT ![c] = "rotate"]
            /\ then' = [then EXCEPT ![c] = "migrate"] /\ UNCHANGED <<disk, bak, op, file, ok>>
        BY <1>6 DEF Restore, GotoSave, Goto
      <3> QED BY <1>1, <3>1, <3>2 DEF Shapes, Points, SavePoints
    <2>2. Mutex' /\ Locals'
      BY <1>1, <1>6, Midway DEF Shapes, Locals, Restore, GotoSave, Goto, SavePoints
    <2> QED BY <2>1, <2>2
  <1>7. CASE Migrate(c)
    <2>1. Shapes'
      BY <1>1, <1>7, ShippedAreKeys DEF Shapes, Migrate, GotoSave, Goto, Points, SavePoints, Texts
    <2>2. Mutex' /\ Locals'
      BY <1>1, <1>7, Midway DEF Shapes, Locals, Migrate, GotoSave, Goto, SavePoints
    <2> QED BY <2>1, <2>2
  <1>8. CASE Change(c)
    <2>1. at[c] = "change" /\ UNCHANGED <<disk, bak, guard, op, file>> BY <1>8 DEF Change
    <2>2. CASE op[c].kind = "get"
      <3>1. at' = [at EXCEPT ![c] = "answer"] /\ ok' = [ok EXCEPT ![c] = TRUE] /\ UNCHANGED <<values, then>>
        BY <1>8, <2>2 DEF Change, Reply, Goto
      <3>2. Shapes' BY <1>1, <2>1, <3>1 DEF Shapes, Points
      <3>3. Mutex' /\ Locals' BY <1>1, <2>1, <3>1, Midway DEF Shapes, SavePoints
      <3> QED BY <3>2, <3>3
    <2>3. CASE op[c].kind # "get"
      <3>1. op[c].kind \in {"set", "delete"} /\ op[c].key \in Keys BY <1>1, <2>3 DEF Shapes, Ops, Locals
      <3>2. PICK v \in SUBSET Keys :
              /\ values' = [values EXCEPT ![c] = v] /\ at' = [at EXCEPT ![c] = "rotate"]
              /\ then' = [then EXCEPT ![c] = "answer"] /\ ok' = ok
        <4>1. /\ values[c] \cup {op[c].key} \in SUBSET Keys
              /\ values[c] \ {op[c].key} \in SUBSET Keys
          BY <1>1, <3>1 DEF Shapes
        <4> QED BY <1>8, <3>1, <4>1 DEF Change, GotoSave, Goto
      <3>3. Shapes' BY <1>1, <2>1, <3>2 DEF Shapes, Points, SavePoints
      <3>4. ok[c] BY <1>1, <2>1 DEF Locals
      <3>5. Mutex' /\ Locals' BY <1>1, <2>1, <2>3, <3>2, <3>4, Midway DEF Shapes
      <3> QED BY <3>3, <3>5
    <2> QED BY <2>2, <2>3
  <1>9. CASE Answer(c)
    <2>1. Shapes' BY <1>1, <1>9 DEF Shapes, Answer, Goto, Points, Ops, NoOp
    <2>2. Mutex' BY <1>1, <1>9, CallersAndBackups DEF Mutex, Changes, Shapes, Answer, Unlocked, Goto, NoOp
    <2>3. Locals' BY <1>1, <1>9 DEF Locals, Shapes, Answer, Goto, SavePoints, NoOp
    <2> QED BY <2>1, <2>2, <2>3
  <1>10. CASE Rotate(c)
    <2>1. Shapes'
      <3>1. Shifted \in [0 .. Backups -> Texts] BY ShiftedType DEF TInv
      <3>2. at' \in [Callers -> Points] /\ ok' \in [Callers -> BOOLEAN]
        BY <1>1, <1>10 DEF Shapes, Rotate, Saved, Reply, Goto, Points, SavePoints
      <3>3. bak' \in {bak, Shifted} /\ UNCHANGED <<disk, op, values, file, then>> BY <1>10 DEF Rotate
      <3> QED BY <1>1, <3>1, <3>2, <3>3 DEF Shapes
    <2>2. Mutex' /\ Locals'
      <3>1. at[c] = "rotate" /\ UNCHANGED <<guard, op, then>> BY <1>10 DEF Rotate
      <3>2. CASE Saved(c, FALSE) BY <1>1, <3>1, <3>2, SavedMidway DEF SavePoints
      <3>3. CASE ~Saved(c, FALSE)
        <4>1. UNCHANGED ok /\ \E place \in {"copy", "open"} : at' = [at EXCEPT ![c] = place]
          BY <1>10, <3>3 DEF Rotate, Goto
        <4> QED BY <1>1, <3>1, <4>1, Midway DEF Shapes, Locals, SavePoints
      <3> QED BY <3>2, <3>3
    <2> QED BY <2>1, <2>2
  <1>11. CASE Copy(c)
    <2>1. Shapes'
      BY <1>1, <1>11 DEF Shapes, Copy, Goto, Points, SavePoints, Texts
    <2>2. Mutex' /\ Locals'
      BY <1>1, <1>11, Midway DEF Shapes, Locals, Copy, Goto, SavePoints
    <2> QED BY <2>1, <2>2
  <1>12. CASE Fill(c)
    <2>1. Shapes'
      <3>1. PICK t \in Texts : bak' = [bak EXCEPT ![0] = t] BY <1>1, <1>12, OverType DEF Shapes, Fill
      <3> QED BY <1>1, <1>12, <3>1 DEF Shapes, Fill, Goto, Points, SavePoints
    <2>2. Mutex' /\ Locals'
      BY <1>1, <1>12, Midway DEF Shapes, Locals, Fill, Goto, SavePoints
    <2> QED BY <2>1, <2>2
  <1>13. CASE Open(c)
    <2>1. Shapes'
      BY <1>1, <1>13 DEF Shapes, Open, Goto, Points, SavePoints, Texts
    <2>2. Mutex' /\ Locals'
      BY <1>1, <1>13, Midway DEF Shapes, Locals, Open, Goto, SavePoints
    <2> QED BY <2>1, <2>2
  <1>14. CASE Write(c)
    <2>1. Shapes'
      <3>1. PICK t \in Texts : disk' = Written(c, t)
        <4>1. values[c] \in Texts BY <1>1, SetsAreTexts DEF Shapes
        <4> QED BY <1>14, <4>1, OverType DEF Write
      <3>2. disk' \in [config : Texts, temp : Texts] BY <1>1, <3>1 DEF Shapes, Written
      <3> QED BY <1>1, <1>14, <3>2 DEF Shapes, Write, Goto, Points, SavePoints
    <2>2. Mutex' /\ Locals'
      BY <1>1, <1>14, Midway DEF Shapes, Locals, Write, Goto, SavePoints
    <2> QED BY <2>1, <2>2
  <1>15. CASE Rename(c)
    <2>2. PICK success \in BOOLEAN : Saved(c, success) BY <1>15 DEF Rename
    <2>5. at' \in [Callers -> Points] /\ ok' \in [Callers -> BOOLEAN]
      BY <1>1, <2>2 DEF Shapes, Saved, Reply, Goto, Points
    <2>6. /\ disk' \in {disk, [config |-> disk.temp, temp |-> None]}
          /\ file' \in {file, [d \in Callers |-> IF file[d] = "temp" THEN "config" ELSE "gone"]}
          /\ UNCHANGED <<bak, op, values, then>>
      BY <1>15 DEF Rename
    <2>1. Shapes' BY <1>1, <2>5, <2>6 DEF Shapes, Texts
    <2>3. at[c] = "rename" /\ UNCHANGED <<guard, op, then>> BY <1>15 DEF Rename
    <2>4. Mutex' /\ Locals' BY <1>1, <2>2, <2>3, SavedMidway DEF SavePoints
    <2> QED BY <2>1, <2>4
  <1>16. CASE WriteFails(c)
    <2>1. Shapes'
      BY <1>1, <1>16 DEF Shapes, WriteFails, Written, Saved, Reply, Goto, Points, SavePoints, Texts
    <2>2. Saved(c, FALSE) /\ at[c] = "write" /\ UNCHANGED <<guard, op, then>> BY <1>16 DEF WriteFails
    <2>3. Mutex' /\ Locals' BY <1>1, <2>2, SavedMidway DEF SavePoints
    <2> QED BY <2>1, <2>3
  <1> QED BY <1>2, <1>3, <1>4, <1>5, <1>6, <1>7, <1>8, <1>9, <1>10, <1>11, <1>12, <1>13, <1>14, <1>15, <1>16 DEF Proceed

LEMMA FaultTypes == ASSUME TInv, Kill \/ Edit PROVE Shapes' /\ Mutex' /\ Locals'
PROOF
  <1>1. Shapes /\ Mutex /\ Locals BY Parts DEF TInv
  <1>2. CASE Kill
    <2>1. Shapes' BY <1>1, <1>2 DEF Shapes, Kill, Points, Ops, NoOp
    <2>2. Mutex' BY <1>2, CallersAndBackups DEF Mutex, Kill, Changes, NoOp
    <2>3. Locals' BY <1>2 DEF Locals, Kill, NoOp, SavePoints
    <2> QED BY <2>1, <2>2, <2>3
  <1>3. CASE Edit
    <2>1. disk' \in [config : Texts, temp : Texts] /\ file' \in [Callers -> {"config", "temp", "gone"}]
      BY <1>1, <1>3 DEF Shapes, Edit, Texts
    <2>4. Shapes' BY <1>1, <1>3, <2>1 DEF Shapes, Edit
    <2>2. Mutex' /\ Locals' BY <1>1, <1>3 DEF Edit, Mutex, Locals, Changes
    <2> QED BY <2>2, <2>4
  <1> QED BY <1>2, <1>3

\* The copy on request changes the backups alone
Requested == BackupBegin \/ BackupOpen \/ BackupFill

LEMMA SourceType == CopyShape /\ Shapes => Source \in Texts
  BY DEF CopyShape, Shapes, Source

LEMMA RequestTypes == ASSUME TInv, Requested PROVE Shapes' /\ Mutex' /\ Locals'
PROOF
  <1>1. Shapes /\ Mutex /\ Locals /\ CopyShape BY Parts DEF TInv
  <1>2. UNCHANGED <<disk, guard, at, op, values, file, then, ok>>
    BY DEF Requested, BackupBegin, BackupOpen, BackupFill, callVars
  <1>3. bak' \in [0 .. Backups -> Texts]
    <2>1. CASE BackupBegin BY <1>1, <2>1 DEF BackupBegin, Shapes
    <2>2. CASE BackupOpen BY <1>1, <2>2, SetsAreTexts DEF BackupOpen, Shapes
    <2>3. CASE BackupFill
      <3>1. \A old : Over(old, Source) \subseteq Texts BY <1>1, SourceType, OverType
      <3> QED BY <1>1, <2>3, <3>1 DEF BackupFill, Shapes
    <2> QED BY <2>1, <2>2, <2>3 DEF Requested
  <1> QED BY <1>1, <1>2, <1>3 DEF Shapes, Mutex, Changes, Locals

LEMMA CopyTypes == ASSUME TInv, Next PROVE CopyShape'
PROOF
  <1>1. CopyShape /\ Shapes BY Parts DEF TInv
  <1>2. CASE Follow
    <2>1. Moved(copyTo) \in 0 .. Backups + 1 BY <1>1, CallersAndBackups DEF CopyShape, Moved
    <2> QED BY <1>1, <1>2, <2>1, SourceType DEF CopyShape, Follow
  <1>3. CASE Requested \/ Kill
    BY <1>1, <1>3, CallersAndBackups DEF CopyShape, Requested, BackupBegin, BackupOpen, BackupFill, Kill, Texts
  <1> QED BY <1>2, <1>3 DEF Next, Requested

LEMMA TypeStep == TInv /\ [Next]_vars => TInv'
PROOF
  <1>1. SUFFICES ASSUME TInv, [Next]_vars PROVE TInv' OBVIOUS
  <1>2. CASE Next
    <2>1. Shapes' /\ Mutex' /\ Locals' BY <1>1, <1>2, StepTypes, FaultTypes, RequestTypes DEF Next, Requested
    <2>2. CopyShape' BY <1>1, <1>2, CopyTypes
    <2>3. calm' \in BOOLEAN BY <1>2 DEF Next, Watch
    <2>4. before' \in {None, before} \/ (before' = disk.config /\ Parses(disk.config))
      BY <1>2 DEF Next, Watch
    <2>5. before' \in {None} \cup SUBSET Keys
      <3>1. Parses(disk.config) => disk.config \in SUBSET Keys BY <1>1 DEF TInv, TypeOK, Texts, Parses
      <3> QED BY <1>1, <2>4, <3>1 DEF TInv, TypeOK
    <2>6. TypeOK' BY <2>1, <2>2, <2>3, <2>5 DEF TypeOK, Shapes, Mutex, CopyShape, Ops
    <2> QED BY <2>1, <2>6 DEF TInv
  <1>3. CASE UNCHANGED vars
    BY <1>1, <1>3 DEF TInv, TypeOK, Locals, Changes, vars, callVars, copyVars
  <1> QED BY <1>1, <1>2, <1>3

\* Every variable has its type, and a change that is past its lock holds the
\* mutex: no two changes are made at a time.
THEOREM TypeSafe == Spec => []TypeOK
PROOF
  <1>1. TInv => TypeOK BY DEF TInv
  <1> QED BY TypeInit, TypeStep, <1>1, PTL DEF Spec
-----------------------------------------------------------------------------
\* The calls that are left alone
Writes(c) == Repairs(c) \/ Changes(c)

Loaded(c) == at[c] \in SavePoints \cup {"migrate", "change"}

\* What a load returns once the mapping c holds is saved
Result(c) ==
  IF at[c] \in SavePoints /\ then[c] = "answer"
  THEN IF op[c].kind = "set" THEN Settings \cup {op[c].key} ELSE (Settings \ {op[c].key}) \cup Shipped
  ELSE Settings

\* How far a call that writes is
Progress(c) ==
  /\ at[c] = "restore" => disk.config \in {Bad, None}
  /\ at[c] \in {"copy", "fill"} => Parses(disk.config)
  /\ (at[c] \in SavePoints \ {"rotate"} /\ Parses(disk.config) /\ Emptied)
       => copyOf = None /\ bak[0] \in {{}, disk.config}
  /\ at[c] = "fill" => bak[0] \in {{}, disk.config}
  /\ at[c] \in {"open", "write", "rename"} /\ Parses(disk.config) => bak[0] = disk.config \/ Emptied
  /\ at[c] = "write" => file[c] = "temp" /\ disk.temp = {}
  /\ at[c] = "rename" => disk.temp = values[c]
  /\ Loaded(c) => disk.config # NotUtf8 /\ values[c] \cup Shipped = Result(c)

Sound(c) ==
  /\ at[c] = "read" => disk.config # None
  /\ Writes(c) => Progress(c)

Quiet == ~Overlap /\ \A c \in Callers : Sound(c)

\* The text last replaced is in the newest backup, or about to be again
Saving == Parses(disk.config) /\ \E c \in Callers : at[c] \in SavePoints \ {"rotate"}
Newest == IF Emptied THEN Source = before /\ bak[0] \in {{}, before} ELSE bak[0] = before
BeforeKept == before # None => calm /\ (Saving \/ Newest)

CInv == TInv /\ (calm => Quiet) /\ BeforeKept

\* No two calls write at a time
LEMMA OneWriter ==
  ASSUME TInv, ~Overlap, NEW c \in Callers, NEW d \in Callers, Writes(c), Writes(d)
  PROVE  c = d
  BY DEF TInv, TypeOK, Overlap, Writes

LEMMA SaversWrite ==
  ASSUME NEW c \in Callers, at[c] \in SavePoints PROVE Writes(c)
  BY SavePointsArePoints DEF Writes, Repairs, Changes, SavePoints

LEMMA SetsParse == \A S \in SUBSET Keys : Parses(S) /\ S # None
  BY TextsApart DEF Parses

LEMMA RestoredSame == ASSUME UNCHANGED bak PROVE Restored' = Restored
  BY DEF Restored, Parses

\* A file that parses, or else the backups, are all there is to the settings
LEMMA SettingsSame ==
  ASSUME disk'.config = disk.config, Parses(disk.config) \/ UNCHANGED bak
  PROVE  Settings' = Settings
PROOF
  <1>1. CASE Parses(disk.config) BY <1>1 DEF Settings, Parses
  <1>2. CASE UNCHANGED bak
    <2>1. Restored' = Restored BY <1>2, RestoredSame
    <2> QED BY <2>1 DEF Settings, Parses
  <1> QED BY <1>1, <1>2

\* The newest backup is the first to be tried
LEMMA NewestFirst ==
  ASSUME TypeOK, Parses(bak[0])
  PROVE  Restored = bak[0]
PROOF
  <1> DEFINE sound == {i \in 0 .. Backups : Parses(bak[i])}
  <1>1. 0 \in sound /\ \A j \in sound : 0 <= j BY CallersAndBackups
  <1>2. \A i \in sound : (\A j \in sound : i <= j) => i = 0 BY <1>1, CallersAndBackups
  <1>3. (CHOOSE i \in sound : \A j \in sound : i <= j) = 0 BY <1>1, <1>2
  <1> QED BY <1>1, <1>3 DEF Restored

\* Who does not step stays sound
LEMMA OthersSound ==
  ASSUME TInv, ~Overlap, NEW c \in Callers, NEW d \in Callers, c # d, Sound(d),
         at'[d] = at[d], op'[d] = op[d], values'[d] = values[d], then'[d] = then[d], ok'[d] = ok[d],
         disk'.config = disk.config \/ disk'.config # None,
         at[c] \in SavePoints \/ UNCHANGED <<disk, bak, file, copyVars>>
  PROVE  Sound(d)'
PROOF
  <1>1. Writes(d)' <=> Writes(d) BY DEF Writes, Repairs, Changes
  <1>2. ASSUME Writes(d) PROVE Progress(d)'
    <2>1. UNCHANGED <<disk, bak, file, copyVars>> BY <1>2, OneWriter, SaversWrite
    <2>2. Settings' = Settings BY <2>1, SettingsSame
    <2>3. Result(d)' = Result(d) BY <2>2 DEF Result
    <2>4. Progress(d) BY <1>2 DEF Sound
    <2>5. UNCHANGED <<copyAt, copyOf, copyTo>> BY <2>1 DEF copyVars
    <2> QED BY <2>1, <2>3, <2>4, <2>5 DEF Progress, Loaded, Parses, Emptied
  <1> QED BY <1>1, <1>2 DEF Sound
-----------------------------------------------------------------------------
\* One step of a call, as its caller sees it
View(c) ==
  IF at[c] = "idle" THEN [state |-> "none"]
  ELSE [kind |-> op[c].kind, key |-> op[c].key,
        state |-> IF Made(c) THEN "made" ELSE IF at[c] = "answer" THEN "refused" ELSE "asked",
        seen |-> IF op[c].kind = "get" /\ Made(c) THEN values[c] \cup Shipped ELSE {}]

Stays(c) == Settings' = Settings /\ View(c)' = View(c)

Asks(c) ==
  /\ at[c] = "idle" /\ at'[c] # "idle"
  /\ View(c)'.state = "asked" /\ View(c)'.seen = {}
  /\ Settings' = Settings

Makes(c) ==
  /\ at[c] # "idle" /\ at[c] # "answer" /\ ~Made(c)
  /\ op'[c] = op[c] /\ at'[c] # "idle" /\ Made(c)'
  /\ IF op[c].kind = "get" THEN values'[c] \cup Shipped = Settings /\ Settings' = Settings
     ELSE Settings' = IF op[c].kind = "set" THEN Settings \cup {op[c].key}
                      ELSE (Settings \ {op[c].key}) \cup Shipped

Refuses(c) ==
  /\ at[c] # "idle" /\ at[c] # "answer" /\ ~Made(c)
  /\ op'[c] = op[c] /\ at'[c] = "answer" /\ ~Made(c)'
  /\ Settings' = Settings

Answers(c) == at[c] = "answer" /\ at'[c] = "idle" /\ Settings' = Settings

Meets(c) == Stays(c) \/ Asks(c) \/ Makes(c) \/ Refuses(c) \/ Answers(c)

LEMMA BeginMeets ==
  ASSUME TInv, TInv', NEW c \in Callers, Sound(c), Begin(c)
  PROVE  Sound(c)' /\ Meets(c)
PROOF
  <1>1. /\ at[c] = "idle" /\ op' = [op EXCEPT ![c] = op'[c]]
        /\ \/ at'[c] = "load" /\ op'[c] = NoOp
           \/ at'[c] = "lock" /\ op'[c].kind # "get"
        /\ UNCHANGED <<disk, bak, values, file, then, ok>>
    BY DEF Begin, Goto, TInv, TypeOK, NoOp
  <1>2. Settings' = Settings BY <1>1, SettingsSame
  <1>3. ok'[c] /\ ~Writes(c)' /\ ~Made(c)'
    BY <1>1 DEF TInv, Locals, Writes, Repairs, Changes, SavePoints, NoOp, Made
  <1>4. Sound(c)' BY <1>1, <1>3 DEF Sound
  <1>5. Asks(c) BY <1>1, <1>2, <1>3 DEF Asks, View
  <1> QED BY <1>4, <1>5 DEF Meets

LEMMA LockMeets ==
  ASSUME TInv, TInv', NEW c \in Callers, Sound(c), Lock(c)
  PROVE  Sound(c)' /\ Meets(c)
PROOF
  <1>1. /\ at[c] = "lock" /\ at'[c] = "load" /\ op[c].kind # "get"
        /\ UNCHANGED <<disk, bak, op, values, file, then, ok>>
    BY DEF Lock, Goto, TInv, TypeOK, Locals
  <1>2. Settings' = Settings BY <1>1, SettingsSame
  <1>3. Sound(c)' BY <1>1 DEF Sound, Progress, Loaded, SavePoints
  <1>4. Stays(c) BY <1>1, <1>2 DEF Stays, View, Made
  <1> QED BY <1>3, <1>4 DEF Meets

LEMMA LoadMeets ==
  ASSUME TInv, TInv', NEW c \in Callers, Sound(c), Load(c)
  PROVE  Sound(c)' /\ Meets(c)
PROOF
  <1>1. /\ at[c] = "load" /\ at'[c] = IF disk.config # None THEN "read" ELSE "restore"
        /\ UNCHANGED <<disk, bak, op, values, file, then, ok>>
    BY DEF Load, Goto, TInv, TypeOK
  <1>2. Settings' = Settings BY <1>1, SettingsSame
  <1>3. Sound(c)' BY <1>1 DEF Sound, Progress, Loaded, SavePoints, Parses
  <1>4. Stays(c) BY <1>1, <1>2 DEF Stays, View, Made, SavePoints
  <1> QED BY <1>3, <1>4 DEF Meets

LEMMA ReadMeets ==
  ASSUME TInv, TInv', NEW c \in Callers, Sound(c), Read(c)
  PROVE  Sound(c)' /\ Meets(c)
PROOF
  <1>1. at[c] = "read" /\ disk.config # None /\ ok[c] /\ UNCHANGED <<disk, bak, op, file, then>>
    BY DEF Read, Sound, TInv, Locals
  <1>2. Settings' = Settings BY <1>1, SettingsSame
  <1>3. CASE disk.config = Bad
    <2>1. at'[c] = "restore" /\ UNCHANGED <<values, ok>>
      <3>1. disk.config \notin {None, NotUtf8} BY <1>3, TextsApart
      <3> QED BY <1>1, <1>3, <3>1 DEF Read, Goto, TInv, TypeOK
    <2>2. Sound(c)' BY <1>1, <1>3, <2>1 DEF Sound, Progress, Loaded, SavePoints, Parses
    <2>3. Stays(c) BY <1>1, <1>2, <2>1 DEF Stays, View, Made, SavePoints
    <2> QED BY <2>2, <2>3 DEF Meets
  <1>5. CASE disk.config = NotUtf8
    <2>1. at'[c] = "answer" /\ ok'[c] = FALSE /\ UNCHANGED values
      <3>2. disk.config \in {None, NotUtf8} /\ disk.config # Bad BY <1>5, TextsApart
      <3>1. Reply(c, FALSE) /\ UNCHANGED values BY <3>2 DEF Read
      <3> QED BY <3>1 DEF Reply, Goto, TInv, TypeOK
    <2>2. Sound(c)' BY <2>1 DEF Sound, Progress, Loaded, SavePoints
    <2>3. ~Made(c) /\ ~Made(c)' BY <1>1, <2>1 DEF Made, SavePoints
    <2>4. Refuses(c) BY <1>1, <1>2, <2>1, <2>3 DEF Refuses
    <2> QED BY <2>2, <2>4 DEF Meets
  <1>4. CASE disk.config \notin {Bad, NotUtf8}
    <2>1. at'[c] = "migrate" /\ values'[c] = disk.config /\ ok' = ok
      BY <1>1, <1>4 DEF Read, Goto, TInv, TypeOK
    <2>2. values'[c] \cup Shipped = Settings BY <1>1, <1>4, <2>1 DEF Settings, Parses
    <2>3. Result(c)' = Settings BY <1>2, <2>1 DEF Result, SavePoints
    <2>4. Sound(c)' BY <1>1, <1>4, <2>1, <2>2, <2>3 DEF Sound, Progress, SavePoints
    <2>5. CASE op[c].kind = "get"
      <3>1. ~Made(c) /\ Made(c)' BY <1>1, <2>1, <2>5 DEF Made, SavePoints
      <3>2. Makes(c) BY <1>1, <1>2, <2>1, <2>2, <2>5, <3>1 DEF Makes
      <3> QED BY <2>4, <3>2 DEF Meets
    <2>6. CASE op[c].kind # "get"
      <3>1. Stays(c) BY <1>1, <1>2, <2>1, <2>6 DEF Stays, View, Made
      <3> QED BY <2>4, <3>1 DEF Meets
    <2> QED BY <2>5, <2>6
  <1> QED BY <1>3, <1>4, <1>5

LEMMA RestoreMeets ==
  ASSUME TInv, TInv', NEW c \in Callers, Sound(c), Restore(c)
  PROVE  Sound(c)' /\ Meets(c)
PROOF
  <1>1. /\ at[c] = "restore" /\ at'[c] = "rotate" /\ values'[c] = Restored /\ then'[c] = "migrate" /\ ok[c]
        /\ UNCHANGED <<disk, bak, op, file, ok>>
    BY DEF Restore, GotoSave, Goto, TInv, TypeOK, Locals
  <1>2. Settings' = Settings BY <1>1, SettingsSame
  <1>3. disk.config \in {Bad, None} /\ ~Parses(disk.config)
    <2>1. Writes(c) BY <1>1 DEF Writes, Repairs, Changes
    <2> QED BY <1>1, <2>1 DEF Sound, Progress, Parses
  <1>4. values'[c] \cup Shipped = Settings BY <1>1, <1>3 DEF Settings
  <1>5. Result(c)' = Settings BY <1>1, <1>2 DEF Result
  <1>6. Sound(c)' BY <1>1, <1>3, <1>4, <1>5, TextsApart DEF Sound, Progress
  <1>7. CASE op[c].kind = "get"
    <2>1. ~Made(c) /\ Made(c)' BY <1>1, <1>7 DEF Made, SavePoints
    <2>2. Makes(c) BY <1>1, <1>2, <1>4, <1>7, <2>1 DEF Makes
    <2> QED BY <1>6, <2>2 DEF Meets
  <1>8. CASE op[c].kind # "get"
    <2>1. Stays(c) BY <1>1, <1>2, <1>8 DEF Stays, View, Made
    <2> QED BY <1>6, <2>1 DEF Meets
  <1> QED BY <1>7, <1>8

LEMMA MigrateMeets ==
  ASSUME TInv, TInv', NEW c \in Callers, Sound(c), Migrate(c)
  PROVE  Sound(c)' /\ Meets(c)
PROOF
  <1>1. /\ at[c] = "migrate" /\ values'[c] = values[c] \cup Shipped /\ ok[c]
        /\ UNCHANGED <<disk, bak, op, file, ok>>
    BY DEF Migrate, TInv, TypeOK, Locals
  <1>2. \/ Shipped \subseteq values[c] /\ at'[c] = "change" /\ UNCHANGED then
        \/ ~(Shipped \subseteq values[c]) /\ at'[c] = "rotate" /\ then'[c] = "change"
    BY DEF Migrate, GotoSave, Goto, TInv, TypeOK
  <1>3. Settings' = Settings BY <1>1, SettingsSame
  <1>4. Result(c)' = Settings /\ Result(c) = Settings BY <1>1, <1>2, <1>3 DEF Result, SavePoints
  <1>5. Writes(c)' => Writes(c) BY <1>1, <1>2 DEF Writes, Repairs, Changes, SavePoints
  <1>6. Writes(c)' => Progress(c)' BY <1>1, <1>2, <1>4, <1>5 DEF Sound, Progress, Loaded, SavePoints
  <1>7. Sound(c)' BY <1>1, <1>2, <1>6 DEF Sound
  <1>8. values'[c] \cup Shipped = values[c] \cup Shipped BY <1>1
  <1>9. Made(c)' <=> Made(c) BY <1>1, <1>2 DEF Made, SavePoints
  <1>10. Stays(c) BY <1>1, <1>2, <1>3, <1>8, <1>9 DEF Stays, View
  <1> QED BY <1>7, <1>10 DEF Meets

LEMMA ChangeMeets ==
  ASSUME TInv, TInv', NEW c \in Callers, Sound(c), Change(c)
  PROVE  Sound(c)' /\ Meets(c)
PROOF
  <1>1. at[c] = "change" /\ ok[c] /\ UNCHANGED <<disk, bak, op, file>> BY DEF Change, TInv, Locals
  <1>2. Settings' = Settings BY <1>1, SettingsSame
  <1>3. CASE op[c].kind = "get"
    <2>1. at'[c] = "answer" /\ ok'[c] = TRUE /\ UNCHANGED <<values, then>>
      BY <1>3 DEF Change, Reply, Goto, TInv, TypeOK
    <2>2. ~Writes(c)' BY <1>1, <1>3, <2>1 DEF Writes, Repairs, Changes, SavePoints
    <2>3. Sound(c)' BY <2>1, <2>2 DEF Sound
    <2>4. Made(c) /\ Made(c)' BY <1>1, <1>3, <2>1 DEF Made, SavePoints
    <2>5. Stays(c) BY <1>1, <1>2, <2>1, <2>4 DEF Stays, View
    <2> QED BY <2>3, <2>5 DEF Meets
  <1>4. CASE op[c].kind # "get"
    <2>1. /\ at'[c] = "rotate" /\ then'[c] = "answer" /\ UNCHANGED ok
          /\ op[c].kind \in {"set", "delete"}
          /\ values'[c] = IF op[c].kind = "set" THEN values[c] \cup {op[c].key} ELSE values[c] \ {op[c].key}
      <3>1. op[c].kind \in {"set", "delete"} BY <1>4 DEF TInv, TypeOK
      <3>2. CASE op[c].kind = "set"
        <4>1. /\ values' = [values EXCEPT ![c] = @ \cup {op[c].key}] /\ at' = [at EXCEPT ![c] = "rotate"]
              /\ then' = [then EXCEPT ![c] = "answer"] /\ UNCHANGED ok
          BY <3>2 DEF Change, GotoSave, Goto
        <4> QED BY <3>2, <4>1 DEF TInv, TypeOK
      <3>3. CASE op[c].kind = "delete"
        <4>1. /\ values' = [values EXCEPT ![c] = @ \ {op[c].key}] /\ at' = [at EXCEPT ![c] = "rotate"]
              /\ then' = [then EXCEPT ![c] = "answer"] /\ UNCHANGED ok
          BY <3>3 DEF Change, GotoSave, Goto
        <4> QED BY <3>3, <4>1 DEF TInv, TypeOK
      <3> QED BY <3>1, <3>2, <3>3
    <2>2. Writes(c) /\ Loaded(c) BY <1>1, <1>4 DEF Writes, Changes, Loaded
    <2>3. values[c] \cup Shipped = Settings BY <1>1, <2>2 DEF Sound, Progress, Result, SavePoints
    <2>4. values'[c] \cup Shipped = Result(c)'
      <3>1. Result(c)' = IF op[c].kind = "set" THEN Settings \cup {op[c].key}
                         ELSE (Settings \ {op[c].key}) \cup Shipped
        BY <1>1, <1>2, <2>1 DEF Result, SavePoints
      <3> QED BY <2>1, <2>3, <3>1
    <2>5. Sound(c)' BY <1>1, <1>4, <2>1, <2>2, <2>4 DEF Sound, Progress, Loaded, SavePoints
    <2>6. Stays(c) BY <1>1, <1>2, <1>4, <2>1 DEF Stays, View, Made
    <2> QED BY <2>5, <2>6 DEF Meets
  <1> QED BY <1>3, <1>4

LEMMA AnswerMeets ==
  ASSUME TInv, TInv', NEW c \in Callers, Sound(c), Answer(c)
  PROVE  Sound(c)' /\ Meets(c)
PROOF
  <1>1. at[c] = "answer" /\ at'[c] = "idle" /\ op'[c] = NoOp /\ ok'[c] = TRUE /\ UNCHANGED <<disk, bak>>
    BY DEF Answer, Goto, TInv, TypeOK
  <1>2. Settings' = Settings BY <1>1, SettingsSame
  <1>3. ~Writes(c)' BY <1>1 DEF Writes, Repairs, Changes, SavePoints, NoOp
  <1> QED BY <1>1, <1>2, <1>3 DEF Sound, Answers, Meets

\* The steps of a save that leave what is read alone
LEMMA SaveStays ==
  ASSUME TInv, TInv', NEW c \in Callers, at[c] \in SavePoints, at'[c] \in SavePoints,
         UNCHANGED <<op, values, then, ok>>, disk'.config = disk.config,
         Parses(disk.config) \/ UNCHANGED bak, Progress(c)
  PROVE  Stays(c) /\ values'[c] \cup Shipped = Result(c)'
PROOF
  <1>1. Settings' = Settings BY SettingsSame
  <1>2. Result(c)' = Result(c) BY <1>1 DEF Result
  <1>3. values[c] \cup Shipped = Result(c) BY DEF Progress, Loaded
  <1>4. at[c] \notin {"idle", "answer"} /\ at'[c] \notin {"idle", "answer"} BY DEF SavePoints
  <1>5. Made(c)' <=> Made(c) BY <1>4 DEF Made
  <1> QED BY <1>1, <1>2, <1>3, <1>4, <1>5 DEF Stays, View

\* What a step of c leaves alone: the other calls
Apart(c) ==
  \A d \in Callers \ {c} :
    at'[d] = at[d] /\ op'[d] = op[d] /\ values'[d] = values[d] /\ then'[d] = then[d] /\ ok'[d] = ok[d]

\* The copy on request keeps its files where they are but in a rotation or a rename
LEMMA FollowSame ==
  ASSUME Follow, ~Replaced, ~Rotated, disk'.config = disk.config
  PROVE  UNCHANGED copyVars
  BY DEF Follow, Source, copyVars

LEMMA FollowRotation ==
  ASSUME TInv, NEW c \in Callers, Follow, at[c] = "rotate", at'[c] = "copy"
  PROVE  ~Emptied'
PROOF
  <1>1. Moved(copyTo) # 0 BY CallersAndBackups DEF Moved, TInv, TypeOK
  <1>2. Rotated BY DEF Rotated
  <1> QED BY <1>1, <1>2 DEF Follow, Emptied

LEMMA SaveSteps ==
  ASSUME TInv, TInv', NEW c \in Callers, Sound(c), Apart(c), Follow,
         Rotate(c) \/ Copy(c) \/ Fill(c) \/ Open(c) \/ Write(c)
  PROVE  /\ Sound(c)' /\ Meets(c)
         /\ disk'.config = disk.config
         /\ at[c] \in SavePoints /\ at'[c] \in SavePoints \ {"rotate"}
         /\ Parses(disk.config) \/ UNCHANGED <<bak, copyVars>>
         /\ UNCHANGED <<op, values, then, ok>>
PROOF
  <1>1. at[c] \in SavePoints \ {"rename"} BY DEF Rotate, Copy, Fill, Open, Write, SavePoints
  <1>2. Progress(c) /\ at[c] \notin {"idle", "answer"} /\ Loaded(c) BY <1>1, SaversWrite DEF Sound, SavePoints, Loaded
  <1>3. ok[c] BY <1>2 DEF TInv, Locals
  <1>9. ~Replaced BY <1>1 DEF Replaced, Apart
  <1>10. disk'.config = disk.config /\ ~(at[c] = "rotate" /\ at'[c] = "copy") => UNCHANGED copyVars
    <2>1. ~(at[c] = "rotate" /\ at'[c] = "copy") => ~Rotated BY DEF Rotated, Apart
    <2> QED BY <1>9, <2>1, FollowSame
  <1> DEFINE Goal == /\ disk'.config = disk.config /\ at'[c] \in SavePoints \ {"rotate"}
                     /\ Parses(disk.config) \/ UNCHANGED <<bak, copyVars>>
                     /\ UNCHANGED <<op, values, then, ok>>
  <1>4. CASE Rotate(c)
    <2>1. CASE Parses(disk.config)
      <3>1. at[c] = "rotate" /\ at'[c] = "copy" /\ disk' = disk /\ UNCHANGED <<op, values, then, ok>>
        BY <1>4, <2>1 DEF Rotate, WorthKeeping, Goto, TInv, TypeOK, Parses
      <3>2. Goal BY <2>1, <3>1 DEF SavePoints
      <3>3. Stays(c) /\ values'[c] \cup Shipped = Result(c)' BY <1>1, <1>2, <3>2, SaveStays
      <3>5. ~Emptied' BY <3>1, FollowRotation
      <3>4. Sound(c)' BY <1>2, <1>3, <2>1, <3>1, <3>3, <3>5 DEF Sound, Progress, Parses
      <3> QED BY <1>1, <3>2, <3>3, <3>4 DEF Meets
    <2>2. CASE ~Parses(disk.config)
      <3>1. at'[c] = "open" /\ disk' = disk /\ UNCHANGED <<bak, op, values, then, ok>>
        BY <1>2, <1>4, <2>2 DEF Rotate, WorthKeeping, Goto, TInv, TypeOK, Progress
      <3>2. Goal BY <1>10, <3>1 DEF SavePoints
      <3>3. Stays(c) /\ values'[c] \cup Shipped = Result(c)' BY <1>1, <1>2, <3>2, SaveStays
      <3>4. Sound(c)' BY <1>2, <1>3, <2>2, <3>1, <3>3 DEF Sound, Progress, Parses
      <3> QED BY <1>1, <3>2, <3>3, <3>4 DEF Meets
    <2> QED BY <2>1, <2>2
  <1>5. CASE Copy(c)
    <2>1. at[c] = "copy" /\ Parses(disk.config) BY <1>2, <1>5 DEF Copy, Progress
    <2>2. /\ at'[c] = "fill" /\ disk' = disk /\ UNCHANGED <<op, values, then, ok>>
          /\ bak' = [bak EXCEPT ![0] = {}]
      BY <1>5, <2>1 DEF Copy, Goto, Parses, TInv, TypeOK
    <2>3. Goal BY <2>1, <2>2 DEF SavePoints
    <2>4. Stays(c) /\ values'[c] \cup Shipped = Result(c)' BY <1>1, <1>2, <2>3, SaveStays
    <2>6. bak'[0] = {} BY <2>2, CallersAndBackups DEF TInv, TypeOK
    <2>7. UNCHANGED copyVars /\ (Emptied' => Emptied) BY <1>10, <2>1, <2>2 DEF Emptied, copyVars
    <2>8. Emptied => copyOf = None BY <1>1, <1>2, <2>1 DEF Progress
    <2>5. Sound(c)' BY <1>2, <2>1, <2>2, <2>4, <2>6, <2>7, <2>8 DEF Sound, Progress, Parses, copyVars
    <2> QED BY <1>1, <2>3, <2>4, <2>5 DEF Meets
  <1>6. CASE Fill(c)
    <2>1. at[c] = "fill" /\ Parses(disk.config) /\ bak[0] \in {{}, disk.config}
      BY <1>2, <1>6 DEF Fill, Progress
    <2>2. at'[c] = "open" /\ bak'[0] = disk.config /\ disk' = disk /\ UNCHANGED <<op, values, then, ok>>
      <3>1. Over(bak[0], disk.config) = {disk.config} BY <2>1 DEF Over
      <3>2. disk.config # None BY <2>1 DEF Parses
      <3> QED BY <1>6, <2>1, <3>1, <3>2, CallersAndBackups DEF Fill, Goto, TInv, TypeOK
    <2>3. Goal BY <2>1, <2>2 DEF SavePoints
    <2>4. Stays(c) /\ values'[c] \cup Shipped = Result(c)' BY <1>1, <1>2, <2>3, SaveStays
    <2>7. UNCHANGED copyVars /\ (Emptied' => Emptied) BY <1>10, <2>1, <2>2 DEF Emptied, copyVars
    <2>8. Emptied => copyOf = None BY <1>1, <1>2, <2>1 DEF Progress
    <2>5. Sound(c)' BY <1>2, <2>1, <2>2, <2>4, <2>7, <2>8 DEF Sound, Progress, Parses, copyVars
    <2> QED BY <1>1, <2>3, <2>4, <2>5 DEF Meets
  <1>7. CASE Open(c)
    <2>1. /\ at[c] = "open" /\ at'[c] = "write" /\ file'[c] = "temp" /\ disk'.config = disk.config
          /\ disk'.temp = {} /\ UNCHANGED <<bak, op, values, then, ok>>
      BY <1>7 DEF Open, Goto, TInv, TypeOK
    <2>6. UNCHANGED copyVars BY <1>10, <2>1
    <2>2. Goal BY <2>1, <2>6 DEF SavePoints
    <2>3. Stays(c) /\ values'[c] \cup Shipped = Result(c)' BY <1>1, <1>2, <2>2, SaveStays
    <2>4. Sound(c)' BY <1>2, <2>1, <2>3, <2>6 DEF Sound, Progress, Parses, Emptied, copyVars, SavePoints
    <2> QED BY <1>1, <2>2, <2>3, <2>4 DEF Meets
  <1>8. CASE Write(c)
    <2>1. at[c] = "write" /\ file[c] = "temp" /\ disk.temp = {} BY <1>2, <1>8 DEF Write, Progress
    <2>2. /\ at'[c] = "rename" /\ disk'.temp = values[c] /\ disk'.config = disk.config
          /\ UNCHANGED <<bak, op, values, then, ok>>
      <3>1. disk[file[c]] = {} /\ file[c] # "gone" BY <2>1
      <3>2. Over(disk[file[c]], values[c]) = {values[c]} BY <3>1 DEF Over
      <3>3. disk' = [disk EXCEPT ![file[c]] = values[c]] BY <1>8, <3>1, <3>2 DEF Write, Written
      <3> QED BY <1>8, <2>1, <3>3 DEF Write, Goto, TInv, TypeOK
    <2>6. UNCHANGED copyVars BY <1>10, <2>1, <2>2
    <2>3. Goal BY <2>2, <2>6 DEF SavePoints
    <2>4. Stays(c) /\ values'[c] \cup Shipped = Result(c)' BY <1>1, <1>2, <2>3, SaveStays
    <2>5. Sound(c)' BY <1>2, <2>1, <2>2, <2>4, <2>6 DEF Sound, Progress, Parses, Emptied, copyVars, SavePoints
    <2> QED BY <1>1, <2>3, <2>4, <2>5 DEF Meets
  <1> QED BY <1>4, <1>5, <1>6, <1>7, <1>8

LEMMA WriteFailsMeets ==
  ASSUME TInv, TInv', NEW c \in Callers, Sound(c), WriteFails(c)
  PROVE  /\ Sound(c)' /\ Meets(c) /\ disk'.config = disk.config
         /\ UNCHANGED <<bak, op, values, then>>
PROOF
  <1>1. at[c] = "write" /\ ok[c] /\ UNCHANGED <<bak, op, values, then>>
    BY DEF WriteFails, TInv, Locals
  <1>2. at[c] \in SavePoints /\ Progress(c) BY <1>1, SaversWrite DEF Sound, SavePoints
  <1>3. disk'.config = disk.config
    <2>1. file[c] = "temp" BY <1>1, <1>2 DEF Progress
    <2> QED BY <2>1 DEF WriteFails, Written, TInv, TypeOK
  <1>4. Settings' = Settings BY <1>1, <1>3, SettingsSame
  <1>5. CASE then[c] = "answer"
    <2>1. at'[c] = "answer" /\ ok'[c] = FALSE
      BY <1>5 DEF WriteFails, Saved, Reply, Goto, TInv, TypeOK
    <2>2. op[c].kind # "get" BY <1>2, <1>5 DEF TInv, Locals
    <2>3. Sound(c)' BY <1>1, <2>1, <2>2 DEF Sound, Progress, Loaded, SavePoints
    <2>4. ~Made(c) /\ ~Made(c)' BY <1>1, <2>1, <2>2 DEF Made
    <2>5. Refuses(c) BY <1>1, <1>4, <2>1, <2>4 DEF Refuses
    <2> QED BY <1>1, <1>3, <2>3, <2>5 DEF Meets
  <1>6. CASE then[c] # "answer"
    <2>1. at'[c] \in {"migrate", "change"} /\ ok' = ok
      BY <1>6 DEF WriteFails, Saved, Goto, TInv, TypeOK
    <2>2. Result(c) = Settings /\ Result(c)' = Settings BY <1>4, <1>6, <2>1 DEF Result, SavePoints
    <2>3. values[c] \cup Shipped = Settings /\ disk.config # NotUtf8 BY <1>2, <2>2 DEF Progress, Loaded
    <2>4. Sound(c)' BY <1>1, <1>3, <2>1, <2>2, <2>3 DEF Sound, Progress, SavePoints
    <2>5. Made(c)' <=> Made(c) BY <1>1, <2>1 DEF Made, SavePoints
    <2>6. Stays(c) BY <1>1, <1>4, <2>1, <2>5 DEF Stays, View
    <2> QED BY <1>1, <1>3, <2>4, <2>6 DEF Meets
  <1> QED BY <1>5, <1>6

\* The rename is where a change is made
LEMMA RenameMeets ==
  ASSUME TInv, TInv', NEW c \in Callers, Sound(c), Rename(c)
  PROVE  /\ Sound(c)' /\ Meets(c)
         /\ disk.temp # None /\ disk'.config = values[c] /\ values[c] \in SUBSET Keys
         /\ bak' = bak
         /\ Parses(disk.config) => IF Emptied THEN copyOf = None /\ bak[0] \in {{}, disk.config} ELSE bak[0] = disk.config
         /\ at'[c] \notin SavePoints \cup {"idle"}
PROOF
  <1>1. at[c] = "rename" /\ ok[c] /\ UNCHANGED <<bak, op, values, then>>
    BY DEF Rename, TInv, Locals
  <1>2. at[c] \in SavePoints /\ Progress(c) BY <1>1, SaversWrite DEF Sound, SavePoints
  <1>3. /\ disk.temp = values[c] /\ values[c] \in SUBSET Keys
        /\ Parses(disk.config) => IF Emptied THEN copyOf = None /\ bak[0] \in {{}, disk.config} ELSE bak[0] = disk.config
    BY <1>1, <1>2 DEF Progress, TInv, TypeOK, SavePoints
  <1>4. disk.temp # None BY <1>3, SetsParse
  <1>5. disk'.config = values[c] /\ Saved(c, TRUE)
    <2>1. disk' = [config |-> disk.temp, temp |-> None] /\ Saved(c, TRUE) BY <1>4, Zenon DEF Rename
    <2>2. disk'.config = disk.temp BY <2>1
    <2> QED BY <1>3, <2>1, <2>2
  <1>6. Settings' = values[c] \cup Shipped BY <1>3, <1>5, SetsParse DEF Settings, Parses
  <1>7. Settings' = Result(c) BY <1>1, <1>2, <1>6 DEF Progress, Loaded
  <1>8. CASE then[c] = "answer"
    <2>1. at'[c] = "answer" /\ ok'[c] = TRUE
      BY <1>5, <1>8 DEF Saved, Reply, Goto, TInv, TypeOK
    <2>2. op[c].kind # "get" BY <1>2, <1>8 DEF TInv, Locals
    <2>3. Sound(c)' BY <1>1, <2>1, <2>2 DEF Sound, Progress, Loaded, SavePoints
    <2>4. ~Made(c) /\ Made(c)' BY <1>1, <2>1, <2>2 DEF Made
    <2>5. Makes(c) BY <1>1, <1>2, <1>7, <1>8, <2>1, <2>2, <2>4 DEF Makes, Result
    <2> QED BY <1>1, <1>3, <1>4, <1>5, <2>1, <2>3, <2>5 DEF Meets, SavePoints
  <1>9. CASE then[c] # "answer"
    <2>1. at'[c] \in {"migrate", "change"} /\ ok' = ok
      BY <1>5, <1>9 DEF Saved, Goto, TInv, TypeOK
    <2>2. Result(c) = Settings /\ Result(c)' = Settings' BY <1>9, <2>1 DEF Result, SavePoints
    <2>3. Settings' = Settings BY <1>7, <2>2
    <2>7. disk'.config # NotUtf8 BY <1>3, <1>5, SetsParse DEF Parses
    <2>4. Sound(c)' BY <1>1, <1>6, <2>1, <2>2, <2>7 DEF Sound, Progress, SavePoints
    <2>5. Made(c)' <=> Made(c) BY <1>1, <2>1 DEF Made, SavePoints
    <2>6. Stays(c) BY <1>1, <2>1, <2>3, <2>5 DEF Stays, View
    <2> QED BY <1>1, <1>3, <1>4, <1>5, <2>1, <2>4, <2>6 DEF Meets, SavePoints
  <1> QED BY <1>8, <1>9

-----------------------------------------------------------------------------
LEMMA StepApart ==
  ASSUME TInv, NEW c \in Callers, Begin(c) \/ Proceed(c) \/ WriteFails(c)
  PROVE  Apart(c)
PROOF
  <1>1. CASE Begin(c) BY <1>1 DEF Apart, TInv, TypeOK, Begin, Goto
  <1>2. CASE Lock(c) \/ Load(c) BY <1>2 DEF Apart, TInv, TypeOK, Lock, Load, Goto
  <1>3. CASE Read(c) BY <1>3 DEF Apart, TInv, TypeOK, Read, Reply, Goto
  <1>4. CASE Restore(c) BY <1>4 DEF Apart, TInv, TypeOK, Restore, GotoSave, Goto
  <1>5. CASE Migrate(c) BY <1>5 DEF Apart, TInv, TypeOK, Migrate, GotoSave, Goto
  <1>6. CASE Change(c)
    <2>1. op[c].kind \in {"get", "set", "delete"} BY DEF TInv, TypeOK
    <2>2. CASE op[c].kind = "get" BY <1>6, <2>2 DEF Apart, TInv, TypeOK, Change, Reply, Goto
    <2>3. CASE op[c].kind = "set" BY <1>6, <2>3 DEF Apart, TInv, TypeOK, Change, GotoSave, Goto
    <2>4. CASE op[c].kind = "delete" BY <1>6, <2>4 DEF Apart, TInv, TypeOK, Change, GotoSave, Goto
    <2> QED BY <2>1, <2>2, <2>3, <2>4
  <1>7. CASE Answer(c) BY <1>7 DEF Apart, TInv, TypeOK, Answer, Goto
  <1>8. CASE Rotate(c) BY <1>8 DEF Apart, TInv, TypeOK, Rotate, Saved, Reply, Goto
  <1>9. CASE Copy(c) \/ Fill(c) \/ Open(c) \/ Write(c) BY <1>9 DEF Apart, TInv, TypeOK, Copy, Fill, Open, Write, Goto
  <1>10. CASE WriteFails(c) BY <1>10 DEF Apart, TInv, TypeOK, WriteFails, Saved, Reply, Goto
  <1>11. CASE Rename(c) BY <1>11 DEF Apart, TInv, TypeOK, Rename, Saved, Reply, Goto
  <1> QED BY <1>1, <1>2, <1>3, <1>4, <1>5, <1>6, <1>7, <1>8, <1>9, <1>10, <1>11 DEF Proceed

\* A step of a call left alone: it meets the promise and leaves the others sound
LEMMA StepMeets ==
  ASSUME TInv, TInv', Quiet, NEW c \in Callers, Begin(c) \/ Proceed(c) \/ WriteFails(c), Follow
  PROVE  Meets(c) /\ \A d \in Callers : Sound(d)'
PROOF
  <1>1. Sound(c) /\ ~Overlap /\ Apart(c) BY StepApart DEF Quiet
  <1>2. Meets(c) /\ Sound(c)'
    BY <1>1, BeginMeets, LockMeets, LoadMeets, ReadMeets, RestoreMeets, MigrateMeets, ChangeMeets,
       AnswerMeets, SaveSteps, WriteFailsMeets, RenameMeets DEF Proceed
  <1>3. disk'.config = disk.config \/ disk'.config # None
    <2>1. CASE Rename(c) BY <1>1, <2>1, RenameMeets, SetsParse
    <2>2. CASE WriteFails(c) BY <1>1, <2>2, WriteFailsMeets
    <2>3. CASE Rotate(c) \/ Copy(c) \/ Fill(c) \/ Open(c) \/ Write(c) BY <1>1, <2>3, SaveSteps
    <2>4. CASE Begin(c) \/ Lock(c) \/ Load(c) \/ Read(c) \/ Restore(c) \/ Migrate(c) \/ Change(c) \/ Answer(c)
      BY <2>4 DEF Begin, Lock, Load, Read, Restore, Migrate, Change, Answer
    <2> QED BY <2>1, <2>2, <2>3, <2>4 DEF Proceed
  <1>4. at[c] \in SavePoints \/ UNCHANGED <<disk, bak, file, copyVars>>
    <2>1. CASE Rotate(c) \/ Copy(c) \/ Fill(c) \/ Open(c) \/ Write(c) \/ Rename(c) \/ WriteFails(c)
      BY <2>1 DEF Rotate, Copy, Fill, Open, Write, Rename, WriteFails, SavePoints
    <2>2. CASE Begin(c) \/ Lock(c) \/ Load(c) \/ Read(c) \/ Restore(c) \/ Migrate(c) \/ Change(c) \/ Answer(c)
      <3>1. UNCHANGED <<disk, bak, file>> /\ at[c] \notin {"rotate", "rename"}
        BY <2>2 DEF Begin, Lock, Load, Read, Restore, Migrate, Change, Answer
      <3>2. ~Replaced /\ ~Rotated BY <1>1, <3>1 DEF Replaced, Rotated, Apart
      <3> QED BY <3>1, <3>2, FollowSame
    <2> QED BY <2>1, <2>2 DEF Proceed
  <1>5. ASSUME NEW d \in Callers \ {c} PROVE Sound(d)'
    <2>2. Sound(d) BY DEF Quiet
    <2> QED BY <1>1, <1>3, <1>4, <2>2, OthersSound DEF Apart
  <1> QED BY <1>2, <1>5

\* A call at rest is sound, and calm means that no two calls are in each other's way
LEMMA RestSound ==
  ASSUME TInv, NoneOpen PROVE Quiet
PROOF
  <1>1. \A c \in Callers : ~Writes(c)
    BY DEF NoneOpen, TInv, Locals, Writes, Repairs, Changes, SavePoints, NoOp
  <1> QED BY <1>1 DEF Quiet, Overlap, Sound, Writes, NoneOpen

\* A copy that is no longer the newest backup
LEMMA FillOlder == ASSUME TInv, BackupFill, ~Emptied PROVE bak'[0] = bak[0]
PROOF
  <1>1. copyTo # 0 BY DEF BackupFill, Emptied
  <1>2. CASE copyTo > Backups BY <1>2 DEF BackupFill
  <1>3. CASE ~(copyTo > Backups)
    <2>1. PICK t : bak' = [bak EXCEPT ![copyTo] = t] BY <1>3 DEF BackupFill
    <2> QED BY <1>1, <2>1, CallersAndBackups DEF TInv, TypeOK
  <1> QED BY <1>2, <1>3

\* A copy of a file that parses leaves the settings, and what a save is about
\* to do with the backups, alone
LEMMA RequestSound ==
  ASSUME TInv, TInv', Quiet,
         BackupBegin \/ (Parses(disk.config) /\ ((BackupOpen /\ copyOf = None) \/ BackupFill))
  PROVE  Quiet'
PROOF
  <1>1. UNCHANGED <<disk, guard, at, op, values, file, then, ok>>
    BY DEF BackupBegin, BackupOpen, BackupFill, callVars
  <1>2. ~Overlap' /\ (\A c \in Callers : Writes(c)' <=> Writes(c))
    BY <1>1 DEF Quiet, Overlap, Writes, Repairs, Changes
  <1>3. Parses(disk.config) \/ UNCHANGED bak BY DEF BackupBegin
  <1>4. Settings' = Settings BY <1>1, <1>3, SettingsSame
  <1>5. ASSUME NEW c \in Callers, Progress(c) PROVE Progress(c)'
    <2>1. Result(c)' = Result(c) BY <1>1, <1>4 DEF Result
    <2>2. CASE BackupBegin
      <3>1. ~Emptied /\ ~Emptied' /\ UNCHANGED <<bak, copyOf>> BY <2>2 DEF BackupBegin, Emptied
      <3> QED BY <1>1, <1>5, <2>1, <3>1 DEF Progress, Loaded, Parses
    <2>3. CASE BackupOpen /\ copyOf = None
      <3>1. bak'[0] = {} BY <2>3, CallersAndBackups DEF BackupOpen, TInv, TypeOK
      <3>2. copyOf' = None BY <2>3 DEF BackupOpen
      <3>3. Emptied' BY <2>3 DEF BackupOpen, Emptied
      <3> QED BY <1>1, <1>5, <2>1, <3>1, <3>2, <3>3 DEF Progress, Loaded, Parses
    <2>4. CASE BackupFill /\ Parses(disk.config)
      <3>1. ~Emptied' BY <2>4 DEF BackupFill, Emptied
      <3>2. CASE Emptied /\ at[c] \in SavePoints \ {"rotate"}
        <4>1. copyOf = None /\ bak[0] \in {{}, disk.config} BY <1>5, <2>4, <3>2 DEF Progress
        <4>2. Over(bak[copyTo], Source) = {disk.config} /\ copyTo = 0 /\ ~(copyTo > Backups)
          BY <3>2, <4>1, CallersAndBackups DEF Emptied, Over, Source
        <4>3. bak'[0] = disk.config BY <2>4, <4>2, CallersAndBackups DEF BackupFill, TInv, TypeOK
        <4> QED BY <1>1, <1>5, <2>1, <3>1, <4>3 DEF Progress, Loaded, Parses
      <3>3. CASE ~Emptied
        <4>2. bak'[0] = bak[0] BY <2>4, <3>3, FillOlder
        <4> QED BY <1>1, <1>5, <2>1, <3>1, <3>3, <4>2 DEF Progress, Loaded, Parses
      <3>4. CASE at[c] \notin SavePoints \ {"rotate"}
        BY <1>1, <1>5, <2>1, <3>1, <3>4 DEF Progress, Loaded, Parses, SavePoints
      <3> QED BY <3>2, <3>3, <3>4
    <2> QED BY <2>2, <2>3, <2>4
  <1> QED BY <1>1, <1>2, <1>5 DEF Quiet, Sound

LEMMA CalmStep ==
  ASSUME TInv, TInv', calm => Quiet, Next, calm'
  PROVE  Quiet'
PROOF
  <1>1. CASE NoneOpen'
    <2>1. \A c \in Callers : ~Writes(c)'
      BY <1>1 DEF NoneOpen, TInv, Locals, Writes, Repairs, Changes, SavePoints, NoOp
    <2> QED BY <1>1, <2>1 DEF Quiet, Overlap, Sound, Writes, NoneOpen
  <1>2. CASE ~NoneOpen'
    <2>1. calm /\ ~Overlap' BY <1>2 DEF Next, Watch
    <2>2. Quiet BY <2>1
    <2>3. ~Kill BY <1>2 DEF Kill, NoneOpen
    <2>4. ASSUME NEW c \in Callers, Begin(c) \/ Proceed(c) \/ WriteFails(c), Follow PROVE Quiet'
      <3>1. \A d \in Callers : Sound(d)' BY <2>2, <2>4, StepMeets
      <3> QED BY <2>1, <3>1 DEF Quiet
    <2>5. CASE BackupBegin \/ (Parses(disk.config) /\ ((BackupOpen /\ copyOf = None) \/ BackupFill))
      BY <2>2, <2>5, RequestSound
    <2>6. ASSUME NEW t, BackupOpen, Watch(Parses(disk.config) /\ copyOf = None, t) PROVE Quiet'
      <3>1. Parses(disk.config) /\ copyOf = None BY <1>2, <2>6 DEF Watch
      <3> QED BY <2>5, <2>6, <3>1
    <2>7. ASSUME BackupFill, Watch(Parses(disk.config), before) PROVE Quiet'
      <3>1. Parses(disk.config) BY <1>2, <2>7 DEF Watch
      <3> QED BY <2>5, <2>7, <3>1
    <2>8. ASSUME Edit, Watch(FALSE, IF Emptied THEN None ELSE before) PROVE FALSE
      BY <1>2, <2>8 DEF Watch
    <2> QED BY <2>3, <2>4, <2>5, <2>6, <2>7, <2>8 DEF Next
  <1> QED BY <1>1, <1>2

\* With no call open, the text is in the newest backup or in the copy over it
LEMMA AtRest == ASSUME TInv, BeforeKept, before # None, NoneOpen PROVE Newest
  BY SavePointsArePoints DEF BeforeKept, Saving, NoneOpen

LEMMA NewestSame ==
  ASSUME UNCHANGED <<bak, before, copyAt, copyTo>>, Source' = Source, Newest PROVE Newest'
  BY DEF Newest, Emptied

\* The text last replaced: a rename has put it in the newest backup, and who
\* moves the backups on is about to put the file's text there
LEMMA KeptStep ==
  ASSUME TInv, TInv', calm => Quiet, BeforeKept, Next
  PROVE  BeforeKept'
PROOF
  <1>1. SUFFICES ASSUME before' # None PROVE BeforeKept' BY DEF BeforeKept
  <1>2. calm' BY <1>1 DEF Next, Watch
  <1>3. SUFFICES (Saving \/ Newest)' BY <1>2 DEF BeforeKept
  <1>4. CASE Kill /\ Watch(TRUE, IF NoneOpen /\ ~Emptied THEN before ELSE None)
    <2>1. NoneOpen /\ ~Emptied /\ before' = before BY <1>1, <1>4 DEF Watch
    <2>2. bak[0] = before BY <1>1, <2>1, AtRest DEF Newest
    <2>3. ~Emptied' /\ bak' = bak BY <1>4 DEF Kill, Emptied
    <2> QED BY <2>1, <2>2, <2>3 DEF Newest
  <1>5. CASE (\E c \in Callers : WriteFails(c)) /\ Follow /\ Watch(TRUE, None)
    BY <1>1, <1>5 DEF Watch
  <1>6. CASE Edit /\ Follow /\ Watch(FALSE, IF Emptied THEN None ELSE before)
    <2>1. NoneOpen' /\ ~Emptied /\ before' = before /\ UNCHANGED <<bak, at>>
      BY <1>1, <1>6 DEF Watch, Edit
    <2>2. NoneOpen /\ ~Rotated BY <2>1 DEF NoneOpen, Rotated
    <2>3. bak[0] = before BY <1>1, <2>1, <2>2, AtRest DEF Newest
    <2>4. ~Emptied' BY <1>6, <2>1, <2>2 DEF Follow, Emptied
    <2> QED BY <2>1, <2>3, <2>4 DEF Newest
  <1>7. CASE BackupBegin /\ Watch(TRUE, before)
    <2>1. UNCHANGED <<disk, bak, at, before>> /\ ~Emptied /\ ~Emptied'
      BY <1>1, <1>7 DEF BackupBegin, Watch, Emptied, callVars
    <2>2. CASE Saving BY <2>1, <2>2 DEF Saving, Parses
    <2>3. CASE Newest BY <2>1, <2>3 DEF Newest
    <2> QED BY <1>1, <2>1, <2>2, <2>3 DEF BeforeKept
  <1>8. CASE /\ BackupOpen
             /\ Watch(Parses(disk.config) /\ copyOf = None,
                      IF Parses(disk.config) /\ copyOf = None THEN disk.config ELSE None)
    <2>1. before' = disk.config /\ copyOf = None BY <1>1, <1>8 DEF Watch
    <2>2. bak'[0] = {} BY <1>8, CallersAndBackups DEF BackupOpen, TInv, TypeOK
    <2>3. Source' = disk.config BY <1>8, <2>1 DEF BackupOpen, Source
    <2>4. Emptied' \/ Newest'
      <3>1. copyTo' = 0 /\ copyAt' = "fill" BY <1>8 DEF BackupOpen
      <3> QED BY <3>1 DEF Emptied
    <2> QED BY <2>1, <2>2, <2>3, <2>4 DEF Newest
  <1>9. CASE BackupFill /\ Watch(Parses(disk.config), before)
    <2>1. UNCHANGED <<disk, at, before>> /\ ~Emptied'
      BY <1>1, <1>9 DEF BackupFill, Watch, Emptied, callVars
    <2>2. CASE Saving BY <2>1, <2>2 DEF Saving, Parses
    <2>3. CASE Newest /\ Emptied
      <3>1. Over(bak[copyTo], Source) = {before} /\ copyTo = 0 /\ ~(copyTo > Backups)
        BY <2>3, CallersAndBackups DEF Newest, Emptied, Over
      <3>2. bak'[0] = before BY <1>9, <3>1, CallersAndBackups DEF BackupFill, TInv, TypeOK
      <3> QED BY <2>1, <3>2 DEF Newest
    <2>4. CASE Newest /\ ~Emptied
      <3>2. bak'[0] = bak[0] BY <1>9, <2>4, FillOlder
      <3> QED BY <2>1, <2>4, <3>2 DEF Newest
    <2> QED BY <1>1, <2>1, <2>2, <2>3, <2>4 DEF BeforeKept
  <1>10. ASSUME NEW c \in Callers, Begin(c) \/ Proceed(c), Follow,
                Watch(TRUE, IF Replaced /\ Parses(disk.config) THEN disk.config ELSE before)
         PROVE  (Saving \/ Newest)'
    <2>2. before' = IF Replaced /\ Parses(disk.config) THEN disk.config ELSE before
      BY <1>1, <1>10 DEF Watch
    <2>3. Apart(c) BY <1>10, StepApart
    <2>4. CASE Rename(c)
      <3>1. at'[c] # "idle" /\ at[c] = "rename"
        BY <2>4 DEF Rename, Saved, Reply, Goto, TInv, TypeOK
      <3>2. Sound(c) BY <1>2, <1>10, <3>1 DEF Watch, NoneOpen, Quiet
      <3>3. /\ disk.temp # None /\ bak' = bak /\ at'[c] \notin SavePoints
            /\ Parses(disk.config) => IF Emptied THEN copyOf = None /\ bak[0] \in {{}, disk.config} ELSE bak[0] = disk.config
        BY <2>4, <3>2, RenameMeets
      <3>4. Replaced /\ ~Rotated BY <2>3, <3>1, <3>3 DEF Replaced, Rotated, Apart, SavePoints
      <3>7. (Emptied' <=> Emptied) /\ (Emptied /\ Source # None => Source' = Source)
        <4>1. copyAt' = copyAt /\ copyTo' = copyTo /\ (Emptied => copyOf' = Source)
          BY <1>10, <3>4 DEF Follow, Emptied
        <4> QED BY <4>1 DEF Emptied, Source
      <3>5. CASE Parses(disk.config)
        <4>1. before' = disk.config BY <2>2, <3>4, <3>5
        <4>2. Emptied => Source = disk.config /\ Source # None BY <3>3, <3>5 DEF Source, Parses
        <4> QED BY <3>3, <3>5, <3>7, <4>1, <4>2 DEF Newest
      <3>6. CASE ~Parses(disk.config)
        <4>1. before' = before /\ Newest BY <1>1, <2>2, <3>6 DEF BeforeKept, Saving
        <4> QED BY <1>1, <3>3, <3>7, <4>1 DEF Newest
      <3> QED BY <3>5, <3>6
    <2>5. CASE ~Rename(c)
      <3>1. at[c] # "rename"
        BY <1>10, <2>5 DEF Begin, Proceed, Lock, Load, Read, Restore, Migrate, Change, Answer,
                           Rotate, Copy, Fill, Open, Write
      <3>2. ~Replaced BY <2>3, <3>1 DEF Replaced, Apart
      <3>3. before' = before BY <2>2, <3>2
      <3>4. calm /\ Sound(c) BY <1>1, <3>3 DEF BeforeKept, Quiet
      <3>5. CASE Rotate(c) \/ Copy(c) \/ Fill(c) \/ Open(c) \/ Write(c)
        <4>1. /\ disk'.config = disk.config /\ at'[c] \in SavePoints \ {"rotate"}
              /\ Parses(disk.config) \/ UNCHANGED <<bak, copyVars>>
          BY <1>10, <2>3, <3>4, <3>5, SaveSteps
        <4>2. CASE Parses(disk.config) BY <4>1, <4>2 DEF Saving, Parses
        <4>3. CASE ~Parses(disk.config)
          <5>1. Newest BY <1>1, <3>3, <4>3 DEF BeforeKept, Saving
          <5>2. UNCHANGED <<bak, copyAt, copyOf, copyTo>> BY <4>1, <4>3 DEF copyVars
          <5>3. Source' = Source BY <4>1, <5>2 DEF Source
          <5> QED BY <3>3, <5>1, <5>2, <5>3, NewestSame
        <4> QED BY <4>2, <4>3
      <3>6. CASE Begin(c) \/ Lock(c) \/ Load(c) \/ Read(c) \/ Restore(c) \/ Migrate(c) \/ Change(c) \/ Answer(c)
        <4>1. UNCHANGED <<disk, bak>> /\ at[c] \notin SavePoints
          BY <3>6 DEF Begin, Lock, Load, Read, Restore, Migrate, Change, Answer, SavePoints
        <4>2. \A d \in Callers : at[d] \in SavePoints \ {"rotate"} => at'[d] = at[d]
          BY <2>3, <4>1 DEF Apart
        <4>3. CASE Saving BY <4>1, <4>2, <4>3 DEF Saving, Parses
        <4>4. CASE Newest
          <5>1. ~Rotated BY <2>3, <4>1 DEF Rotated, Apart, SavePoints
          <5>2. UNCHANGED <<copyAt, copyOf, copyTo>> BY <1>10, <3>2, <4>1, <5>1, FollowSame DEF copyVars
          <5>3. Source' = Source BY <4>1, <5>2 DEF Source
          <5> QED BY <3>3, <4>1, <4>4, <5>2, <5>3, NewestSame
        <4> QED BY <1>1, <3>3, <4>3, <4>4 DEF BeforeKept
      <3> QED BY <1>10, <2>5, <3>5, <3>6 DEF Proceed
    <2> QED BY <2>4, <2>5
  <1> QED BY <1>4, <1>5, <1>6, <1>7, <1>8, <1>9, <1>10 DEF Next

LEMMA CInit == Init => CInv
PROOF
  <1>1. SUFFICES ASSUME Init PROVE CInv OBVIOUS
  <1>2. TInv BY <1>1, TypeInit
  <1>3. NoneOpen /\ before = None BY <1>1 DEF Init, NoneOpen
  <1> QED BY <1>2, <1>3, RestSound DEF CInv, BeforeKept

LEMMA CStep == CInv /\ [Next]_vars => CInv'
PROOF
  <1>1. SUFFICES ASSUME CInv, [Next]_vars PROVE CInv' OBVIOUS
  <1>2. TInv' BY <1>1, TypeStep DEF CInv
  <1>3. CASE Next BY <1>1, <1>2, <1>3, CalmStep, KeptStep DEF CInv
  <1>4. CASE UNCHANGED vars
    <2>1. UNCHANGED <<disk, bak, guard, at, op, values, file, then, ok, copyAt, copyOf, copyTo, calm, before>>
      BY <1>4 DEF vars, callVars, copyVars
    <2>2. Settings' = Settings /\ Restored' = Restored BY <2>1, SettingsSame, RestoredSame
    <2>3. \A c \in Callers : Sound(c) => Sound(c)'
      BY <2>1, <2>2 DEF Sound, Writes, Repairs, Changes, Progress, Loaded, Result, Parses, Emptied
    <2>4. Quiet => Quiet' BY <2>1, <2>3 DEF Quiet, Overlap, Repairs, Changes
    <2>5. BeforeKept' BY <1>1, <2>1 DEF CInv, BeforeKept, Saving, Newest, Emptied, Source, Parses
    <2> QED BY <1>1, <1>2, <2>1, <2>4, <2>5 DEF CInv
  <1> QED BY <1>1, <1>3, <1>4

\* When neither a call nor a copy over it is open, what would be restored is
\* what the file held before it was last replaced, or when it was copied since:
\* get_param after a spoilt file loses one change at most.
THEOREM BackupsRecent == Spec => []BackupRecent
PROOF
  <1>1. CInv => BackupRecent
    <2>1. SUFFICES ASSUME CInv, NoneOpen, ~Emptied, before # None PROVE Restored = before
      BY DEF BackupRecent
    <2>2. bak[0] = before BY <2>1, AtRest DEF CInv, Newest
    <2>3. Parses(before) BY <2>1, SetsParse DEF CInv, TInv, TypeOK
    <2> QED BY <2>1, <2>2, <2>3, NewestFirst DEF CInv, TInv
  <1> QED BY CInit, CStep, <1>1, PTL DEF Spec
-----------------------------------------------------------------------------
\* The file as a register

LEMMA CallsAreViews == Calls = [c \in Callers |-> View(c)]
  BY DEF Calls, View

LEMMA CallsNext == Calls' = [c \in Callers |-> View(c)']
  BY DEF Calls, View

LEMMA SettingsLegal == TInv => Settings \in Promise!Legal
PROOF
  <1> SUFFICES ASSUME TInv PROVE Settings \in Promise!Legal OBVIOUS
  <1>1. Restored \in SUBSET Keys BY RestoredType DEF TInv
  <1>2. Parses(disk.config) => disk.config \in SUBSET Keys BY DEF TInv, TypeOK, Texts, Parses
  <1> QED BY <1>1, <1>2, ShippedAreKeys DEF Settings, Promise!Legal

LEMMA CallsType == TInv => Calls \in [Callers -> Promise!Call \cup {Promise!NoCall}]
PROOF
  <1> SUFFICES ASSUME TInv, NEW c \in Callers PROVE View(c) \in Promise!Call \cup {Promise!NoCall}
    BY CallsAreViews
  <1>1. op[c].kind \in {"get", "set", "delete"} /\ op[c].key \in Keys \cup {None} BY DEF TInv, TypeOK
  <1>2. values[c] \cup Shipped \in Promise!Legal BY ShippedAreKeys DEF TInv, TypeOK, Promise!Legal
  <1> QED BY <1>1, <1>2 DEF View, Promise!Call, Promise!NoCall

LEMMA OthersView == ASSUME NEW c \in Callers, Apart(c), NEW d \in Callers \ {c} PROVE View(d)' = View(d)
  BY DEF Apart, View, Made

LEMMA OneCallMoves ==
  ASSUME NEW c \in Callers, Apart(c)
  PROVE  Calls' = [Calls EXCEPT ![c] = View(c)']
PROOF
  <1>1. \A d \in Callers \ {c} : View(d)' = View(d) BY OthersView
  <1> QED BY <1>1, CallsAreViews, CallsNext

LEMMA StepRefines ==
  ASSUME TInv, TInv', NEW c \in Callers, Apart(c), Meets(c)
  PROVE  \/ UNCHANGED <<Settings, Calls>>
         \/ Promise!Ask(c) \/ Promise!Make(c) \/ Promise!Refuse(c) \/ Promise!Answer(c)
PROOF
  <1>1. Calls' = [Calls EXCEPT ![c] = View(c)'] BY OneCallMoves
  <1>2. Calls[c] = View(c) /\ Calls'[c] = View(c)' BY CallsAreViews, CallsNext
  <1>3. CASE Stays(c)
    <2>1. \A d \in Callers : View(d)' = View(d) BY <1>3, OthersView DEF Stays
    <2> QED BY <1>3, <2>1, CallsAreViews, CallsNext DEF Stays
  <1>4. CASE Asks(c)
    <2>1. Calls' \in [Callers -> Promise!Call \cup {Promise!NoCall}]
      <3>1. TInv' => (Calls \in [Callers -> Promise!Call \cup {Promise!NoCall}])' BY CallsType, PTL
      <3> QED BY <3>1
    <2>2. Calls[c] = Promise!NoCall BY <1>2, <1>4 DEF Asks, View, Promise!NoCall
    <2>3. Calls'[c].state = "asked" /\ Calls'[c].seen = {} /\ Settings' = Settings
      BY <1>2, <1>4 DEF Asks
    <2>4. Calls' = [Calls EXCEPT ![c] = Calls'[c]] BY <1>1, <1>2
    <2> QED BY <2>1, <2>2, <2>3, <2>4 DEF Promise!Ask
  <1>5. CASE Makes(c)
    <2>1. View(c) = [kind |-> op[c].kind, key |-> op[c].key, state |-> "asked", seen |-> {}]
      BY <1>5 DEF Makes, View
    <2>2. View(c)' = [kind |-> op[c].kind, key |-> op[c].key, state |-> "made",
                      seen |-> IF op[c].kind = "get" THEN values'[c] \cup Shipped ELSE {}]
      BY <1>5 DEF Makes, View
    <2>3. Calls[c].state = "asked" /\ Calls[c].kind = op[c].kind /\ Calls[c].key = op[c].key
      BY <1>2, <2>1
    <2>4. CASE op[c].kind = "get"
      <3>1. View(c)' = [kind |-> op[c].kind, key |-> op[c].key, state |-> "made", seen |-> Settings]
        BY <1>5, <2>2, <2>4 DEF Makes
      <3>2. Calls' = [Calls EXCEPT ![c].state = "made", ![c].seen = Settings]
        <4>1. [[Calls[c] EXCEPT !.state = "made"] EXCEPT !.seen = Settings] = View(c)'
          <5>1. PICK call : call = Calls[c] OBVIOUS
          <5>2. call = [kind |-> op[c].kind, key |-> op[c].key, state |-> "asked", seen |-> {}]
            BY <1>2, <2>1, <5>1
          <5>3. PICK made : made = [call EXCEPT !.state = "made"] OBVIOUS
          <5>4. made = [kind |-> op[c].kind, key |-> op[c].key, state |-> "made", seen |-> {}] BY <5>2, <5>3
          <5>5. [made EXCEPT !.seen = Settings] = [kind |-> op[c].kind, key |-> op[c].key, state |-> "made", seen |-> Settings] BY <5>4
          <5> QED BY <3>1, <5>1, <5>3, <5>5
        <4>2. [Calls EXCEPT ![c] = [Calls[c] EXCEPT !.state = "made"]][c] = [Calls[c] EXCEPT !.state = "made"]
          BY CallsAreViews
        <4> QED BY <1>1, <4>1, <4>2, CallsAreViews
      <3> QED BY <1>5, <2>3, <2>4, <3>2 DEF Makes, Promise!Make
    <2>5. CASE op[c].kind # "get"
      <3>1. View(c)' = [kind |-> op[c].kind, key |-> op[c].key, state |-> "made", seen |-> {}]
        BY <2>2, <2>5
      <3>2. Calls' = [Calls EXCEPT ![c].state = "made"]
        <4>1. [Calls[c] EXCEPT !.state = "made"] = View(c)'
          <5>1. PICK call : call = Calls[c] OBVIOUS
          <5>2. call = [kind |-> op[c].kind, key |-> op[c].key, state |-> "asked", seen |-> {}]
            BY <1>2, <2>1, <5>1
          <5>3. [call EXCEPT !.state = "made"] = [kind |-> op[c].kind, key |-> op[c].key, state |-> "made", seen |-> {}] BY <5>2
          <5> QED BY <3>1, <5>1, <5>3
        <4> QED BY <1>1, <4>1
      <3>3. Settings' = IF Calls[c].kind = "set" THEN Settings \cup {Calls[c].key}
                        ELSE (Settings \ {Calls[c].key}) \cup Shipped
        BY <1>5, <2>3, <2>5 DEF Makes
      <3> QED BY <2>3, <2>5, <3>2, <3>3 DEF Promise!Make
    <2> QED BY <2>4, <2>5
  <1>6. CASE Refuses(c)
    <2>1. View(c) = [kind |-> op[c].kind, key |-> op[c].key, state |-> "asked", seen |-> {}]
      BY <1>6 DEF Refuses, View
    <2>2. View(c)' = [kind |-> op[c].kind, key |-> op[c].key, state |-> "refused", seen |-> {}]
      BY <1>6 DEF Refuses, View
    <2>3. Calls' = [Calls EXCEPT ![c].state = "refused"] 
      <3>1. [Calls[c] EXCEPT !.state = "refused"] = View(c)'
        <4>1. PICK call : call = Calls[c] OBVIOUS
        <4>2. call = [kind |-> op[c].kind, key |-> op[c].key, state |-> "asked", seen |-> {}]
          BY <1>2, <2>1, <4>1
        <4>3. [call EXCEPT !.state = "refused"] = [kind |-> op[c].kind, key |-> op[c].key, state |-> "refused", seen |-> {}] BY <4>2
        <4> QED BY <2>2, <4>1, <4>3
      <3> QED BY <1>1, <3>1
    <2>4. Calls[c].state = "asked" BY <1>2, <2>1
    <2> QED BY <1>6, <2>3, <2>4 DEF Refuses, Promise!Refuse
  <1>7. CASE Answers(c)
    <2>1. Calls[c].state \in {"made", "refused"} BY <1>2, <1>7 DEF Answers, View
    <2>2. View(c)' = Promise!NoCall BY <1>7 DEF Answers, View, Promise!NoCall
    <2> QED BY <1>1, <1>7, <2>1, <2>2 DEF Answers, Promise!Answer
  <1> QED BY <1>3, <1>4, <1>5, <1>6, <1>7 DEF Meets

LEMMA NoneOpenView == NoneOpen => Calls = [c \in Callers |-> Promise!NoCall]
  BY DEF NoneOpen, Calls, Promise!NoCall

LEMMA NoneOpenNext == NoneOpen' => Calls' = [c \in Callers |-> Promise!NoCall]
  BY DEF NoneOpen, Calls, Promise!NoCall

\* The configuration file is the register that Settings specifies: every read
\* returns and every change changes the settings of one moment of the call.
THEOREM ImplementsSettings == Spec => AsSettings
PROOF
  <1>1. Init => Promise!Init
    <2>1. SUFFICES ASSUME Init PROVE Promise!Init OBVIOUS
    <2>2. TInv BY <2>1, TypeInit
    <2>3. NoneOpen /\ calm = TRUE BY <2>1 DEF Init, NoneOpen
    <2> QED BY <2>2, <2>3, SettingsLegal, NoneOpenView DEF Promise!Init
  <1>2. CInv /\ CInv' /\ [Next]_vars => [Promise!Next]_(Promise!vars)
    <2>1. SUFFICES ASSUME CInv, CInv', [Next]_vars PROVE [Promise!Next]_(Promise!vars) OBVIOUS
    <2>2. TInv /\ TInv' /\ calm \in BOOLEAN /\ calm' \in BOOLEAN
      BY <2>1 DEF CInv, TInv, TypeOK
    <2>3. CASE UNCHANGED vars
      <3>1. UNCHANGED <<disk, bak, at, op, values, ok, calm>> BY <2>3 DEF vars, callVars
      <3>2. Settings' = Settings BY <3>1, SettingsSame
      <3>3. Calls' = Calls BY <3>1 DEF Calls, Made
      <3> QED BY <3>1, <3>2, <3>3 DEF Promise!vars
    <2>4. CASE Next /\ ~calm
      <3>1. calm' => NoneOpen' BY <2>2, <2>4 DEF Next, Watch
      <3> QED BY <2>4, <3>1, NoneOpenNext DEF Promise!Next, Promise!NoCall
    <2>5. CASE Next /\ calm /\ ~calm' BY <2>5 DEF Promise!Next
    <2>6. CASE Next /\ calm /\ calm'
      <3>1. Quiet BY <2>1, <2>6 DEF CInv
      <3>2. CASE Kill
        <4>1. NoneOpen' /\ UNCHANGED <<disk, bak>> BY <3>2 DEF Kill, NoneOpen
        <4>2. Settings' = Settings BY <4>1, SettingsSame
        <4> QED BY <2>6, <4>1, <4>2, NoneOpenNext DEF Promise!Next, Promise!Kill
      <3>5. CASE BackupBegin \/ (Parses(disk.config) /\ (BackupOpen \/ BackupFill))
        <4>1. UNCHANGED <<disk, at, op, values, ok>> /\ (Parses(disk.config) \/ UNCHANGED bak)
          BY <3>5 DEF BackupBegin, BackupOpen, BackupFill, callVars
        <4>2. Settings' = Settings /\ Calls' = Calls BY <4>1, SettingsSame DEF Calls, Made
        <4> QED BY <2>6, <4>2 DEF Promise!vars
      <3>3. CASE NoneOpen' /\ UNCHANGED at
        <4>1. NoneOpen' /\ UNCHANGED at BY <3>3
        <4>2. NoneOpen BY <4>1 DEF NoneOpen
        <4>3. Settings' \in Promise!Legal
          <5>1. TInv' => (Settings \in Promise!Legal)' BY SettingsLegal, PTL
          <5> QED BY <2>2, <5>1 DEF Promise!Legal
        <4>4. Calls = [c \in Callers |-> Promise!NoCall] /\ Calls' = Calls
          BY <4>1, <4>2, NoneOpenView, NoneOpenNext
        <4> QED BY <2>6, <4>3, <4>4 DEF Promise!Next, Promise!Edit
      <3>4. ASSUME NEW c \in Callers, Begin(c) \/ Proceed(c) \/ WriteFails(c), Follow
            PROVE  [Promise!Next]_(Promise!vars)
        <4>1. Meets(c) /\ Apart(c) BY <2>2, <3>1, <3>4, StepMeets, StepApart
        <4>2. CASE UNCHANGED <<Settings, Calls>> BY <2>6, <2>2, <4>2 DEF Promise!vars
        <4>3. CASE Promise!Ask(c) \/ Promise!Make(c) \/ Promise!Refuse(c) \/ Promise!Answer(c)
          BY <2>6, <4>3 DEF Promise!Next
        <4> QED BY <2>2, <4>1, <4>2, <4>3, StepRefines
      <3>6. CASE Edit /\ Follow /\ Watch(FALSE, IF Emptied THEN None ELSE before)
        <4>1. NoneOpen' /\ UNCHANGED at BY <2>6, <3>6 DEF Watch, Edit
        <4> QED BY <3>3, <4>1
      <3>7. CASE /\ BackupOpen
                 /\ Watch(Parses(disk.config) /\ copyOf = None,
                          IF Parses(disk.config) /\ copyOf = None THEN disk.config ELSE None)
        <4>1. ~Parses(disk.config) => NoneOpen' BY <2>6, <3>7 DEF Watch
        <4>2. UNCHANGED at BY <3>7 DEF BackupOpen, callVars
        <4> QED BY <3>3, <3>5, <3>7, <4>1, <4>2
      <3>8. CASE BackupFill /\ Watch(Parses(disk.config), before)
        <4>1. ~Parses(disk.config) => NoneOpen' BY <2>6, <3>8 DEF Watch
        <4>2. UNCHANGED at BY <3>8 DEF BackupFill, callVars
        <4> QED BY <3>3, <3>5, <3>8, <4>1, <4>2
      <3>9. CASE (\E c \in Callers : Begin(c) \/ Proceed(c) \/ WriteFails(c)) /\ Follow BY <3>4, <3>9
      <3>10. \/ Kill \/ BackupBegin
             \/ (\E c \in Callers : Begin(c) \/ Proceed(c) \/ WriteFails(c)) /\ Follow
             \/ Edit /\ Follow /\ Watch(FALSE, IF Emptied THEN None ELSE before)
             \/ /\ BackupOpen
                /\ Watch(Parses(disk.config) /\ copyOf = None,
                         IF Parses(disk.config) /\ copyOf = None THEN disk.config ELSE None)
             \/ BackupFill /\ Watch(Parses(disk.config), before)
        BY <2>6, Zenon DEF Next
      <3>11. CASE BackupBegin BY <3>5, <3>11
      <3> QED BY <3>2, <3>6, <3>7, <3>8, <3>9, <3>10, <3>11, Zenon
    <2> QED BY <2>1, <2>3, <2>4, <2>5, <2>6
  <1> QED BY CInit, CStep, <1>1, <1>2, PTL DEF Spec, AsSettings, Promise!Spec
=============================================================================
