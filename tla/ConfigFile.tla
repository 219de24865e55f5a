----------------------------- MODULE ConfigFile -----------------------------
(***************************************************************************)
(* The configuration file: crates/goose/src/config/base.rs.                *)
(*                                                                         *)
(* Every read and every change loads the whole file.  A change holds a     *)
(* mutex, a read does not; but a read that finds no file, one that does    *)
(* not parse, or one without the extensions this version ships writes the  *)
(* file too.  A write makes a backup, fills a temporary file, whose name   *)
(* all calls share, and renames it.  A request of the server copies the    *)
(* file over the newest backup beside all this: backup_config in           *)
(* crates/goose-server/src/routes/config_management.rs.                    *)
(***************************************************************************)
EXTENDS Naturals, FiniteSets

CONSTANTS
  Callers,    \* threads of one process
  Keys,       \* settings: what a file holds is the set of those it has
  Shipped,    \* what the migrations add to a file that lacks it
  Defaults,   \* init-config.yaml
  Backups,    \* .bak is backup 0, and the oldest is .bak.Backups
  Bad,        \* a text that does not parse
  NotUtf8,    \* bytes that are no text
  None

ASSUME ShippedAreKeys == Shipped \subseteq Keys /\ Defaults \subseteq Keys
ASSUME TextsApart ==
  /\ Bad # None /\ NotUtf8 \notin {Bad, None}
  /\ \A S \in SUBSET Keys : S \notin {Bad, NotUtf8, None}
ASSUME CallersAndBackups == None \notin Callers /\ Backups \in Nat \ {0}

VARIABLES
  disk,     \* what the file and the temporary file hold
  bak,      \* what each backup holds
  guard,    \* who holds the mutex
  at, op,   \* where each caller is, and what it asked for
  values,   \* the mapping it has loaded
  file,     \* which of the two its handle writes to; a file that lost its name
            \* is gone
  then,     \* where it goes when the file is saved
  ok,       \* whether it answers with success
  copyAt,   \* where the copy on request is
  copyOf,   \* the text of the file it reads, once that is no longer the file
  copyTo,   \* the backup that the file it writes to is now
  calm,     \* history: no open call was disturbed
  before    \* history: what the file held before it was last replaced, or when
            \* it was copied since; None when that may be in no backup

callVars == <<at, op, values, file, then, ok>>
copyVars == <<copyAt, copyOf, copyTo>>
vars == <<disk, bak, guard, callVars, copyVars, calm, before>>

SavePoints == {"rotate", "copy", "fill", "open", "write", "rename"}
Points == SavePoints \cup {"idle", "lock", "load", "read", "restore", "migrate", "change", "answer"}

NoOp == [kind |-> "get", key |-> None]

Texts == {Bad, NotUtf8, None} \cup SUBSET Keys
Parses(t) == t \notin {Bad, NotUtf8, None}

\* what try_restore_from_backup returns: the first backup that parses
Restored ==
  LET sound == {i \in 0..Backups : Parses(bak[i])}
  IN  IF sound = {} THEN Defaults ELSE bak[CHOOSE i \in sound : \A j \in sound : i <= j]

Goto(c, point) == at' = [at EXCEPT ![c] = point]
GotoSave(c, next) == Goto(c, "rotate") /\ then' = [then EXCEPT ![c] = next]

Reply(c, success) == Goto(c, "answer") /\ ok' = [ok EXCEPT ![c] = success]

NoneOpen == \A c \in Callers : at[c] = "idle"

\* A read that writes, beside a change or another such read, is what the
\* mutex does not keep apart.
Repairs(c) ==
  /\ op[c].kind = "get"
  /\ \/ at[c] \in {"restore"} \cup SavePoints
     \/ at[c] = "migrate" /\ ~(Shipped \subseteq values[c])
Changes(c) == op[c].kind # "get" /\ at[c] \notin {"idle", "lock"}
Overlap == \E c, d \in Callers : c # d /\ Repairs(c) /\ (Repairs(d) \/ Changes(d))

Init ==
  /\ disk \in [config : Texts, temp : Texts]
  /\ bak \in [0..Backups -> Texts]
  /\ guard = None
  /\ at = [c \in Callers |-> "idle"]
  /\ op = [c \in Callers |-> NoOp]
  /\ values = [c \in Callers |-> {}]
  /\ file = [c \in Callers |-> "gone"]
  /\ then = [c \in Callers |-> "answer"]
  /\ ok = [c \in Callers |-> TRUE]
  /\ copyAt = "idle" /\ copyOf = None /\ copyTo = 0
  /\ calm = TRUE /\ before = None

-----------------------------------------------------------------------------
\* get_param, set_param and delete

Begin(c) ==
  /\ at[c] = "idle"
  /\ \/ Goto(c, "load") /\ op' = [op EXCEPT ![c] = NoOp]
     \/ /\ Goto(c, "lock")
        /\ \E kind \in {"set", "delete"}, k \in Keys : op' = [op EXCEPT ![c] = [kind |-> kind, key |-> k]]
  /\ UNCHANGED <<disk, bak, guard, values, file, then, ok>>

LockNone(c) == UNCHANGED guard
LockFirst(c) == guard = None /\ guard' = c

Lock(c) ==
  /\ at[c] = "lock"
  /\ LockFirst(c)
  /\ Goto(c, "load")
  /\ UNCHANGED <<disk, bak, op, values, file, then, ok>>

\* load_raw
Load(c) ==
  /\ at[c] = "load"
  /\ Goto(c, IF disk.config # None THEN "read" ELSE "restore")
  /\ UNCHANGED <<disk, bak, guard, op, values, file, then, ok>>

Read(c) ==
  /\ at[c] = "read"
  /\ CASE disk.config \in {None, NotUtf8} -> Reply(c, FALSE) /\ UNCHANGED values
       [] disk.config = Bad -> Goto(c, "restore") /\ UNCHANGED <<values, ok>>
       [] OTHER -> /\ Goto(c, "migrate")
                   /\ values' = [values EXCEPT ![c] = disk.config]
                   /\ UNCHANGED ok
  /\ UNCHANGED <<disk, bak, guard, op, file, then>>

\* a backup that parses, or else the default configuration, is made the file
Restore(c) ==
  /\ at[c] = "restore"
  /\ values' = [values EXCEPT ![c] = Restored]
  /\ GotoSave(c, "migrate")
  /\ UNCHANGED <<disk, bak, guard, op, file, ok>>

\* run_migrations, and then the change itself
Migrate(c) ==
  /\ at[c] = "migrate"
  /\ values' = [values EXCEPT ![c] = @ \cup Shipped]
  /\ IF Shipped \subseteq values[c] THEN Goto(c, "change") /\ UNCHANGED then ELSE GotoSave(c, "change")
  /\ UNCHANGED <<disk, bak, guard, op, file, ok>>

Change(c) ==
  /\ at[c] = "change"
  /\ CASE op[c].kind = "get" -> Reply(c, TRUE) /\ UNCHANGED <<values, then>>
       [] op[c].kind = "set" -> /\ values' = [values EXCEPT ![c] = @ \cup {op[c].key}]
                                /\ GotoSave(c, "answer") /\ UNCHANGED ok
       [] op[c].kind = "delete" -> /\ values' = [values EXCEPT ![c] = @ \ {op[c].key}]
                                   /\ GotoSave(c, "answer") /\ UNCHANGED ok
  /\ UNCHANGED <<disk, bak, guard, op, file>>

UnlockedLate(c) == guard
Unlocked(c) == IF guard = c THEN None ELSE guard

Answer(c) ==
  /\ at[c] = "answer"
  /\ guard' = Unlocked(c)
  /\ Goto(c, "idle")
  /\ op' = [op EXCEPT ![c] = NoOp]
  /\ values' = [values EXCEPT ![c] = {}]
  /\ then' = [then EXCEPT ![c] = "answer"]
  /\ ok' = [ok EXCEPT ![c] = TRUE]
  /\ UNCHANGED <<disk, bak, file>>

-----------------------------------------------------------------------------
\* save_values

\* each backup that exists takes the place of the next older one
Shifted == [i \in 0..Backups |->
  IF i > 0 /\ bak[i - 1] # None THEN bak[i - 1]
  ELSE IF i < Backups THEN None ELSE bak[i]]

\* only a file that parses is backed up
WorthKeepingFirst(t) == Parses(t) /\ bak[0] = None
WorthKeeping(t) == Parses(t)

\* the error of a save that only repairs is dropped
Saved(c, success) ==
  IF then[c] = "answer" THEN Reply(c, success) ELSE Goto(c, then[c]) /\ UNCHANGED ok

Rotate(c) ==
  /\ at[c] = "rotate"
  /\ \/ WorthKeeping(disk.config) /\ bak' = Shifted /\ Goto(c, "copy") /\ UNCHANGED ok
     \/ ~WorthKeeping(disk.config) /\ disk.config # NotUtf8 /\ Goto(c, "open") /\ UNCHANGED <<bak, ok>>
     \/ disk.config = NotUtf8 /\ Saved(c, FALSE) /\ UNCHANGED bak
  /\ UNCHANGED <<disk, guard, op, values, file, then>>

\* What a file may hold when t is written over what it held, from the start:
\* the tail of another, longer text stays behind.
Over(old, t) == IF old \in {{}, t} THEN {t} ELSE Texts \ {None}

\* the copy is empty at first; a copy that fails is only logged
Copy(c) ==
  /\ at[c] = "copy"
  /\ IF disk.config = None THEN Goto(c, "open") /\ UNCHANGED bak
     ELSE Goto(c, "fill") /\ bak' = [bak EXCEPT ![0] = {}]
  /\ UNCHANGED <<disk, guard, op, values, file, then, ok>>

\* (of a file that was removed meanwhile the model does not know the text)
Fill(c) ==
  /\ at[c] = "fill"
  /\ \E t \in IF disk.config = None THEN Texts ELSE Over(bak[0], disk.config) : bak' = [bak EXCEPT ![0] = t]
  /\ Goto(c, "open")
  /\ UNCHANGED <<disk, guard, op, values, file, then, ok>>

\* open with truncate, before the lock on the file is asked for
Open(c) ==
  /\ at[c] = "open"
  /\ disk' = [disk EXCEPT !.temp = {}]
  /\ file' = [file EXCEPT ![c] = "temp"]
  /\ Goto(c, "write")
  /\ UNCHANGED <<bak, guard, op, values, then, ok>>

Written(c, t) == IF file[c] = "gone" THEN disk ELSE [disk EXCEPT ![file[c]] = t]

\* under a lock on the file: nobody else's text comes in between, but it may
\* have come before
Write(c) ==
  /\ at[c] = "write"
  /\ \E t \in IF file[c] = "gone" THEN {values[c]} ELSE Over(disk[file[c]], values[c]) : disk' = Written(c, t)
  /\ file' = [file EXCEPT ![c] = "gone"]
  /\ Goto(c, "rename")
  /\ UNCHANGED <<bak, guard, op, values, then, ok>>

WriteFails(c) ==
  /\ at[c] = "write"
  /\ disk' = Written(c, Bad)
  /\ file' = [file EXCEPT ![c] = "gone"]
  /\ Saved(c, FALSE)
  /\ UNCHANGED <<bak, guard, op, values, then>>

\* another call may have renamed the temporary file
Rename(c) ==
  /\ at[c] = "rename"
  /\ IF disk.temp = None THEN Saved(c, FALSE) /\ UNCHANGED <<disk, file>>
     ELSE /\ disk' = [config |-> disk.temp, temp |-> None]
          /\ file' = [d \in Callers |-> IF file[d] = "temp" THEN "config" ELSE "gone"]
          /\ Saved(c, TRUE)
  /\ UNCHANGED <<bak, guard, op, values, then>>

-----------------------------------------------------------------------------
\* backup_config: no mutex, no rotation, and a file that does not parse is
\* copied too

BackupBegin ==
  /\ copyAt = "idle" /\ disk.config # None
  /\ copyAt' = "open"
  /\ UNCHANGED <<disk, bak, guard, callVars, copyOf, copyTo>>

\* What the copy reads
Source == IF copyOf = None THEN disk.config ELSE copyOf

BackupOpen ==
  /\ copyAt = "open"
  /\ bak' = [bak EXCEPT ![0] = {}]
  /\ copyAt' = "fill" /\ copyTo' = 0
  /\ UNCHANGED <<disk, guard, callVars, copyOf>>

BackupFill ==
  /\ copyAt = "fill"
  /\ IF copyTo > Backups THEN UNCHANGED bak
     ELSE \E t \in Over(bak[copyTo], Source) : bak' = [bak EXCEPT ![copyTo] = t]
  /\ copyAt' = "idle" /\ copyOf' = None /\ copyTo' = 0
  /\ UNCHANGED <<disk, guard, callVars>>

Replaced == \E c \in Callers : at[c] = "rename" /\ at'[c] # "rename" /\ disk.temp # None
Rotated == \E c \in Callers : at[c] = "rotate" /\ at'[c] = "copy"

\* where a rotation leaves what was backup i
Moved(i) == IF i < Backups \/ (i = Backups /\ bak[i - 1] # None) THEN i + 1 ELSE i

\* In a step of anything else the two files of the copy stay those it opened,
\* whatever names they now have.
Follow ==
  /\ copyAt' = copyAt
  /\ copyOf' = IF copyAt # "idle" /\ (Replaced \/ disk'.config = None) THEN Source ELSE copyOf
  /\ copyTo' = IF copyAt = "fill" /\ Rotated THEN Moved(copyTo) ELSE copyTo

-----------------------------------------------------------------------------
\* Faults

\* the process is killed and started again
Kill ==
  /\ guard' = None
  /\ at' = [c \in Callers |-> "idle"]
  /\ op' = [c \in Callers |-> NoOp]
  /\ values' = [c \in Callers |-> {}]
  /\ file' = [c \in Callers |-> "gone"]
  /\ then' = [c \in Callers |-> "answer"]
  /\ ok' = [c \in Callers |-> TRUE]
  /\ copyAt' = "idle" /\ copyOf' = None /\ copyTo' = 0
  /\ UNCHANGED <<disk, bak>>

\* the user, or another program, spoils the file or removes it
Edit ==
  /\ disk.config # None
  /\ \/ \E t \in {Bad, NotUtf8} : disk' = [disk EXCEPT !.config = t] /\ UNCHANGED file
     \/ /\ disk' = [disk EXCEPT !.config = None]
        /\ file' = [c \in Callers |-> IF file[c] = "config" THEN "gone" ELSE file[c]]
  /\ UNCHANGED <<bak, guard, at, op, values, then, ok>>

Proceed(c) ==
  \/ Lock(c) \/ Load(c) \/ Read(c) \/ Restore(c) \/ Migrate(c) \/ Change(c) \/ Answer(c)
  \/ Rotate(c) \/ Copy(c) \/ Fill(c) \/ Open(c) \/ Write(c) \/ Rename(c)

\* the newest backup is empty until the copy on request fills it
Emptied == copyAt = "fill" /\ copyTo = 0

\* leftAlone: no open call is disturbed; text: what before becomes
Watch(leftAlone, text) ==
  /\ calm' = (NoneOpen' \/ (calm /\ leftAlone /\ ~Overlap'))
  /\ before' = IF calm' THEN text ELSE None

\* A copy over the newest backup disturbs the calls that may yet restore it,
\* and, if it is of a text that was replaced since, those that made another.
Next ==
  \/ /\ \E c \in Callers : Begin(c) \/ Proceed(c)
     /\ Follow /\ Watch(TRUE, IF Replaced /\ Parses(disk.config) THEN disk.config ELSE before)
  \/ (\E c \in Callers : WriteFails(c)) /\ Follow /\ Watch(TRUE, None)
  \/ BackupBegin /\ Watch(TRUE, before)
  \/ /\ BackupOpen
     /\ Watch(Parses(disk.config) /\ copyOf = None,
              IF Parses(disk.config) /\ copyOf = None THEN disk.config ELSE None)
  \/ BackupFill /\ Watch(Parses(disk.config), before)
  \/ Kill /\ Watch(TRUE, IF NoneOpen /\ ~Emptied THEN before ELSE None)
  \/ Edit /\ Follow /\ Watch(FALSE, IF Emptied THEN None ELSE before)

Spec == Init /\ [][Next]_vars

-----------------------------------------------------------------------------
\* Every variable holds a value of its type, and only a change that has the
\* mutex goes past it.
TypeOK ==
  /\ disk \in [config : Texts, temp : Texts]
  /\ bak \in [0..Backups -> Texts]
  /\ at \in [Callers -> Points]
  /\ op \in [Callers -> [kind : {"get", "set", "delete"}, key : Keys \cup {None}]]
  /\ values \in [Callers -> SUBSET Keys]
  /\ file \in [Callers -> {"config", "temp", "gone"}]
  /\ then \in [Callers -> {"migrate", "change", "answer"}]
  /\ ok \in [Callers -> BOOLEAN]
  /\ copyAt \in {"idle", "open", "fill"} /\ copyOf \in Texts /\ copyTo \in 0..Backups + 1
  /\ calm \in BOOLEAN
  /\ before \in {None} \cup SUBSET Keys
  /\ \A c \in Callers : guard = c <=> Changes(c)

\* What a load would return.
Settings == (IF Parses(disk.config) THEN disk.config ELSE Restored) \cup Shipped

Made(c) ==
  IF op[c].kind = "get" THEN at[c] \in SavePoints \cup {"migrate", "change", "answer"} /\ ok[c]
  ELSE at[c] = "answer" /\ ok[c]

\* Each open call as its caller sees it.
Calls == [c \in Callers |->
  IF at[c] = "idle" THEN [state |-> "none"]
  ELSE [kind |-> op[c].kind, key |-> op[c].key,
        state |-> IF Made(c) THEN "made" ELSE IF at[c] = "answer" THEN "refused" ELSE "asked",
        seen |-> IF op[c].kind = "get" /\ Made(c) THEN values[c] \cup Shipped ELSE {}]]

Promise == INSTANCE Settings WITH Always <- Shipped, settings <- Settings, calls <- Calls, NoKey <- None

\* The file is a register: a read returns, and a change makes its change to,
\* the settings of one moment between the begin and the answer of the call;
\* a change that is answered was made and outlives a kill; one that fails
\* changed nothing.  This is so as long as, while a call is open, no edit
\* comes, no read that writes runs beside another call that writes, and no
\* backup is requested of a file that does not parse or was replaced since.
AsSettings == Promise!Spec

\* When neither a call nor a copy over it is open, the first backup that parses
\* holds what the file held before it was last replaced, or when a backup was
\* requested since, unless the save or the copy was cut short or disturbed:
\* what is restored from a spoilt file lacks the last change only.
BackupRecent == NoneOpen /\ ~Emptied /\ before # None => Restored = before
=============================================================================
