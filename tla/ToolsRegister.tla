--------------------------- MODULE ToolsRegister ----------------------------
(***************************************************************************)
(* What the extension manager promises to those who list tools, whatever   *)
(* it caches: a list asked for while no change is in progress shows the    *)
(* extensions as they were at some moment of the call; one asked for       *)
(* during changes may also show them as they were since those began.       *)
(***************************************************************************)
EXTENDS ExtensionTools

CONSTANT Tasks

VARIABLES
  current,     \* the extensions
  unsettled,   \* tasks whose change is visible and whose call has not returned
  visible,     \* the maps that may still be seen
  may,         \* the maps each open call may show, {} when none is open
  shown        \* the list each task was given, as a set of at most one

vars == <<current, unsettled, visible, may, shown>>

Init ==
  /\ current = NoExtension
  /\ unsettled = {}
  /\ visible = {current}
  /\ may = [t \in Tasks |-> {}]
  /\ shown = [t \in Tasks |-> {}]

Change(t) ==
  /\ t \notin unsettled
  /\ \E m \in Maps :
       /\ current' = m
       /\ visible' = visible \cup {m}
       /\ may' = [s \in Tasks |-> IF may[s] = {} THEN {} ELSE may[s] \cup {m}]
  /\ unsettled' = unsettled \cup {t}
  /\ UNCHANGED shown

Settle(t) ==
  /\ t \in unsettled
  /\ unsettled' = unsettled \ {t}
  /\ visible' = IF unsettled' = {} THEN {current} ELSE visible
  /\ UNCHANGED <<current, may, shown>>

Ask(t) ==
  /\ may[t] = {}
  /\ may' = [may EXCEPT ![t] = visible]
  /\ UNCHANGED <<current, unsettled, visible, shown>>

Answer(t) ==
  /\ \E m \in may[t] : \E l \in Listings(m) : shown' = [shown EXCEPT ![t] = {l}]
  /\ UNCHANGED <<current, unsettled, visible, may>>

Leave(t) ==
  /\ may[t] # {}
  /\ may' = [may EXCEPT ![t] = {}]
  /\ shown' = [shown EXCEPT ![t] = {}]
  /\ UNCHANGED <<current, unsettled, visible>>

Next == \E t \in Tasks : Change(t) \/ Settle(t) \/ Ask(t) \/ Answer(t) \/ Leave(t)

Spec == Init /\ [][Next]_vars
=============================================================================
