------------------------------ MODULE Settings ------------------------------
(***************************************************************************)
(* What the settings promise their callers: one set of settings, which a   *)
(* call reads or changes in one step between its begin and its answer.  A  *)
(* call answered with an error changed nothing; a kill of the program      *)
(* loses no change that was answered, and a change in flight is then made  *)
(* or not.  The promise is for calls that are left alone: see calm.        *)
(***************************************************************************)
CONSTANTS Callers, Keys, Always, NoKey

VARIABLES
  settings,   \* the keys that are set
  calls,      \* what each caller asks, how far it is, what a read has seen
  calm        \* no open call was disturbed

vars == <<settings, calls, calm>>

Legal == {S \in SUBSET Keys : Always \subseteq S}

Call == [kind : {"get", "set", "delete"}, key : Keys \cup {NoKey},
         state : {"asked", "made", "refused"}, seen : {{}} \cup Legal]

NoCall == [state |-> "none"]

Init ==
  /\ settings \in Legal
  /\ calls = [c \in Callers |-> NoCall]
  /\ calm = TRUE

Ask(c) ==
  /\ calls[c] = NoCall
  /\ calls' \in [Callers -> Call \cup {NoCall}]
  /\ calls' = [calls EXCEPT ![c] = calls'[c]]
  /\ calls'[c].state = "asked" /\ calls'[c].seen = {}
  /\ UNCHANGED settings

Make(c) ==
  /\ calls[c].state = "asked"
  /\ \/ /\ calls[c].kind = "get"
        /\ calls' = [calls EXCEPT ![c].state = "made", ![c].seen = settings]
        /\ UNCHANGED settings
     \/ /\ calls[c].kind # "get"
        /\ calls' = [calls EXCEPT ![c].state = "made"]
        /\ settings' = IF calls[c].kind = "set" THEN settings \cup {calls[c].key}
                       ELSE (settings \ {calls[c].key}) \cup Always

Refuse(c) ==
  /\ calls[c].state = "asked"
  /\ calls' = [calls EXCEPT ![c].state = "refused"]
  /\ UNCHANGED settings

Answer(c) ==
  /\ calls[c].state \in {"made", "refused"}
  /\ calls' = [calls EXCEPT ![c] = NoCall]
  /\ UNCHANGED settings

Kill ==
  /\ calls' = [c \in Callers |-> NoCall]
  /\ UNCHANGED settings

\* the user edits, damages or removes the file while no call is open
Edit ==
  /\ calls = [c \in Callers |-> NoCall]
  /\ settings' \in Legal
  /\ UNCHANGED calls

\* a disturbed call may do anything, until no call is open
Next ==
  \/ /\ calm /\ calm'
     /\ Kill \/ Edit \/ \E c \in Callers : Ask(c) \/ Make(c) \/ Refuse(c) \/ Answer(c)
  \/ calm /\ ~calm'
  \/ ~calm /\ (calm' => calls' = [c \in Callers |-> NoCall])

Spec == Init /\ [][Next]_vars
=============================================================================
