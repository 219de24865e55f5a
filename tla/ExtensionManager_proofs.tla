---------------------- MODULE ExtensionManager_proofs -----------------------
(***************************************************************************)
(* For any extensions, tasks and number of changes: the type invariant,    *)
(* that a settled cache is current, that the manager implements            *)
(* ToolsRegister, and that a tool every list shows is not refused.         *)
(*                                                                         *)
(* The argument is about a fetch whose version is still the manager's: the *)
(* map it listed is the map there is, unless some change has inserted and  *)
(* not yet bumped (Fresh), and then that change will clear the cache.      *)
(***************************************************************************)
EXTENDS ExtensionManager, TLAPS

\* the points at which a task has an open call that lists or calls a tool
Open == {"look", "load", "snapshot", "fetch", "store", "have", "owner", "check", "ran", "refused"}

Fetching == {"fetch", "store"}

Histories ==
  /\ extensions \in visible
  /\ \A t \in Tasks : at[t] \in Open => visible \subseteq may[t] /\ may[t] # {}
  /\ \A t \in Tasks : at[t] \notin Open => may[t] = {}
  /\ \A t \in Tasks : at[t] \in Fetching => snapshot[t] \in may[t]
  /\ \A t \in Tasks : at[t] = "store" => \E l \in Listings(snapshot[t]) : got[t] = {l}

\* some change is in the map and not yet in the version
Unannounced == \E s \in Tasks : at[s] = "bump"

Fresh ==
  /\ \A t \in Tasks : at[t] \in Fetching \cup {"snapshot"} => seen[t] <= version
  /\ \A t \in Tasks : at[t] \in Fetching /\ seen[t] = version =>
       snapshot[t] \in visible /\ (snapshot[t] = extensions \/ Unannounced)

Cached == \A l \in cache : \E m \in visible : l \in Listings(m)

IInv == TypeOK /\ Histories /\ Fresh /\ Cached /\ CacheCurrent

-----------------------------------------------------------------------------
LEMMA ListingIsList == \A m \in Maps : Listings(m) \subseteq Lists
PROOF BY DEF Lists

LEMMA NoExtensionIsMap == NoExtension \in Maps
PROOF BY DEF NoExtension, Maps

LEMMA EmptyOrOne ==
  ASSUME NEW S
  PROVE  /\ {} \in AtMostOne(S)
         /\ \A x \in S : {x} \in AtMostOne(S)
         /\ \A y \in AtMostOne(S) : y = {} \/ \E x \in S : y = {x}
PROOF BY DEF AtMostOne

LEMMA TypeInit == Init => TypeOK
PROOF
  <1>1. SUFFICES ASSUME Init PROVE TypeOK OBVIOUS
  <1> QED BY <1>1, NoExtensionIsMap, EmptyOrOne DEF Init, TypeOK, Points

LEMMA TypeStep == TypeOK /\ [Next]_vars => TypeOK'
PROOF
  <1>1. SUFFICES ASSUME TypeOK, [Next]_vars PROVE TypeOK' OBVIOUS
  <1> USE NobodyIsNoTask
  <1>2. CASE UNCHANGED vars BY <1>1, <1>2 DEF TypeOK, vars
  <1>3. ASSUME NEW t \in Tasks, Step(t) PROVE TypeOK'
    <2>1. ASSUME NEW c \in Configs, NEW locked \in BOOLEAN, AddStart(t, c, locked) PROVE TypeOK'
      BY <1>1, <2>1 DEF AddStart, Goto, vars, mapVars, cacheVars, fetchVars, callVars, TypeOK, Points
    <2>2. ASSUME ConnectFails(t) PROVE TypeOK'
      BY <1>1, <2>2 DEF ConnectFails, Goto, vars, mapVars, cacheVars, fetchVars, callVars, Released, TypeOK, Points
    <2>3. ASSUME AddInsert(t) PROVE TypeOK'
      <3>1. extensions' \in Maps BY <1>1, <2>3, ConfigKeys DEF AddInsert, Goto, vars, mapVars, cacheVars, fetchVars, callVars, SetExtensions, TypeOK, Maps
      <3>2. visible' \in SUBSET Maps BY <1>1, <2>3, <3>1 DEF AddInsert, Goto, vars, mapVars, cacheVars, fetchVars, callVars, SetExtensions, TypeOK
      <3>3. may' \in [Tasks -> SUBSET Maps] BY <1>1, <2>3, <3>1 DEF AddInsert, Goto, vars, mapVars, cacheVars, fetchVars, callVars, SetExtensions, TypeOK
      <3> QED BY <1>1, <2>3, <3>1, <3>2, <3>3 DEF AddInsert, Goto, vars, mapVars, cacheVars, fetchVars, callVars, SetExtensions, TypeOK, Points
    <2>4. ASSUME NEW k \in Keys, Remove(t, k) PROVE TypeOK'
      <3>1. extensions' \in Maps BY <1>1, <2>4 DEF Remove, Goto, vars, mapVars, cacheVars, fetchVars, callVars, SetExtensions, TypeOK, Maps
      <3>2. visible' \in SUBSET Maps BY <1>1, <2>4, <3>1 DEF Remove, Goto, vars, mapVars, cacheVars, fetchVars, callVars, SetExtensions, TypeOK
      <3>3. may' \in [Tasks -> SUBSET Maps] BY <1>1, <2>4, <3>1 DEF Remove, Goto, vars, mapVars, cacheVars, fetchVars, callVars, SetExtensions, TypeOK
      <3> QED BY <1>1, <2>4, <3>1, <3>2, <3>3 DEF Remove, Goto, vars, mapVars, cacheVars, fetchVars, callVars, SetExtensions, TypeOK, Points
    <2>5. ASSUME Bump(t) PROVE TypeOK'
      BY <1>1, <2>5 DEF Bump, Goto, vars, mapVars, cacheVars, fetchVars, callVars, TypeOK, Points
    <2>6. ASSUME Clear(t) PROVE TypeOK'
      BY <1>1, <2>6, EmptyOrOne DEF Clear, Goto, vars, mapVars, cacheVars, fetchVars, callVars, Released, ClearedCache, Unsettled, TypeOK, Points
    <2>7. ASSUME Drop(t) PROVE TypeOK'
      BY <1>1, <2>7 DEF Drop, Goto, vars, mapVars, cacheVars, fetchVars, callVars, Released, TypeOK, Points
    <2>8. ASSUME ListStart(t) PROVE TypeOK'
      BY <1>1, <2>8 DEF ListStart, Goto, vars, mapVars, cacheVars, fetchVars, callVars, TypeOK, Points
    <2>9. ASSUME ReadCache(t) PROVE TypeOK'
      BY <1>1, <2>9, EmptyOrOne DEF ReadCache, Goto, vars, mapVars, cacheVars, fetchVars, callVars, Listed, TypeOK, Points
    <2>10. ASSUME LoadVersion(t) PROVE TypeOK'
      BY <1>1, <2>10 DEF LoadVersion, Goto, vars, mapVars, cacheVars, fetchVars, callVars, TypeOK, Points
    <2>11. ASSUME TakeSnapshot(t) PROVE TypeOK'
      BY <1>1, <2>11 DEF TakeSnapshot, Goto, vars, mapVars, cacheVars, fetchVars, callVars, TypeOK, Points
    <2>12. ASSUME Fetch(t) PROVE TypeOK'
      BY <1>1, <2>12, EmptyOrOne, ListingIsList DEF Fetch, Goto, vars, mapVars, cacheVars, fetchVars, callVars, TypeOK, Points
    <2>13. ASSUME Store(t) PROVE TypeOK'
      BY <1>1, <2>13, NoExtensionIsMap DEF Store, Goto, vars, mapVars, cacheVars, fetchVars, callVars, Listed, MayStore, TypeOK, Points
    <2>14. ASSUME NEW x, CallTool(t, x), at[t] = "have" PROVE TypeOK'
      BY <1>1, <2>14 DEF CallTool, Goto, vars, mapVars, cacheVars, fetchVars, callVars, Resolve, TypeOK, Points
    <2>15. ASSUME FindOwner(t) PROVE TypeOK'
      BY <1>1, <2>15 DEF FindOwner, Goto, vars, mapVars, cacheVars, fetchVars, callVars, Resolve, TypeOK, Points
    <2>16. ASSUME CheckAvailable(t) PROVE TypeOK'
      BY <1>1, <2>16 DEF CheckAvailable, Goto, vars, mapVars, cacheVars, fetchVars, callVars, TypeOK, Points
    <2>17. ASSUME Leave(t) PROVE TypeOK'
      BY <1>1, <2>17, EmptyOrOne DEF Leave, Goto, vars, mapVars, cacheVars, fetchVars, callVars, Resolve, TypeOK, Points
    <2> QED BY <1>3, <2>1, <2>2, <2>3, <2>4, <2>5, <2>6, <2>7, <2>8, <2>9, <2>10, <2>11, <2>12, <2>13, <2>14, <2>15, <2>16, <2>17 DEF Step
  <1> QED BY <1>1, <1>2, <1>3 DEF Next

\* In every reachable state the variables have their types, and only a task
\* that is adding an extension holds the container lock: every return gives
\* it back.
THEOREM TypeSafe == Spec => []TypeOK
PROOF
  <1> QED BY TypeInit, TypeStep, PTL DEF Spec
-----------------------------------------------------------------------------
LEMMA HistoriesStep == TypeOK /\ Histories /\ [Next]_vars => Histories'
PROOF
  <1>1. SUFFICES ASSUME TypeOK, Histories, [Next]_vars PROVE Histories' OBVIOUS
  <1>2. CASE UNCHANGED vars BY <1>1, <1>2 DEF Histories, vars, Open, Fetching
  <1>3. ASSUME NEW t \in Tasks, Step(t) PROVE Histories'
    <2>1. ASSUME NEW c \in Configs, NEW locked \in BOOLEAN, AddStart(t, c, locked) PROVE Histories'
      BY <1>1, <2>1 DEF AddStart, Goto, vars, mapVars, cacheVars, fetchVars, callVars, TypeOK, Histories, Open, Fetching
    <2>2. ASSUME ConnectFails(t) PROVE Histories'
      BY <1>1, <2>2 DEF ConnectFails, Goto, vars, mapVars, cacheVars, fetchVars, callVars, Released, TypeOK, Histories, Open, Fetching
    <2>3. ASSUME AddInsert(t) PROVE Histories'
      <3>1. extensions' \in visible' BY <1>1, <2>3 DEF AddInsert, Goto, vars, mapVars, cacheVars, fetchVars, callVars, SetExtensions
      <3>2. \A s \in Tasks : at'[s] \in Open <=> at[s] \in Open BY <1>1, <2>3 DEF AddInsert, Goto, vars, mapVars, cacheVars, fetchVars, callVars, SetExtensions, TypeOK, Open
      <3>3. \A s \in Tasks : may'[s] = IF may[s] = {} THEN {} ELSE may[s] \cup {extensions'} BY <1>1, <2>3 DEF AddInsert, Goto, vars, mapVars, cacheVars, fetchVars, callVars, SetExtensions, TypeOK
      <3>4. visible' = visible \cup {extensions'} BY <1>1, <2>3 DEF AddInsert, Goto, vars, mapVars, cacheVars, fetchVars, callVars, SetExtensions
      <3>5. \A s \in Tasks : at'[s] \in Open => at'[s] = at[s] BY <1>1, <2>3 DEF AddInsert, Goto, vars, mapVars, cacheVars, fetchVars, callVars, SetExtensions, TypeOK, Open
      <3>6. snapshot' = snapshot /\ got' = got BY <1>1, <2>3 DEF AddInsert, Goto, vars, mapVars, cacheVars, fetchVars, callVars, SetExtensions
      <3> QED BY <1>1, <3>1, <3>2, <3>3, <3>4, <3>5, <3>6 DEF Histories, Open, Fetching
    <2>4. ASSUME NEW k \in Keys, Remove(t, k) PROVE Histories'
      <3>1. extensions' \in visible' BY <1>1, <2>4 DEF Remove, Goto, vars, mapVars, cacheVars, fetchVars, callVars, SetExtensions
      <3>2. \A s \in Tasks : at'[s] \in Open <=> at[s] \in Open BY <1>1, <2>4 DEF Remove, Goto, vars, mapVars, cacheVars, fetchVars, callVars, SetExtensions, TypeOK, Open
      <3>3. \A s \in Tasks : may'[s] = IF may[s] = {} THEN {} ELSE may[s] \cup {extensions'} BY <1>1, <2>4 DEF Remove, Goto, vars, mapVars, cacheVars, fetchVars, callVars, SetExtensions, TypeOK
      <3>4. visible' = visible \cup {extensions'} BY <1>1, <2>4 DEF Remove, Goto, vars, mapVars, cacheVars, fetchVars, callVars, SetExtensions
      <3>5. \A s \in Tasks : at'[s] \in Open => at'[s] = at[s] BY <1>1, <2>4 DEF Remove, Goto, vars, mapVars, cacheVars, fetchVars, callVars, SetExtensions, TypeOK, Open
      <3>6. snapshot' = snapshot /\ got' = got BY <1>1, <2>4 DEF Remove, Goto, vars, mapVars, cacheVars, fetchVars, callVars, SetExtensions
      <3> QED BY <1>1, <3>1, <3>2, <3>3, <3>4, <3>5, <3>6 DEF Histories, Open, Fetching
    <2>5. ASSUME Bump(t) PROVE Histories'
      BY <1>1, <2>5 DEF Bump, Goto, vars, mapVars, cacheVars, fetchVars, callVars, TypeOK, Histories, Open, Fetching
    <2>6. ASSUME Clear(t) PROVE Histories'
      BY <1>1, <2>6 DEF Clear, Goto, vars, mapVars, cacheVars, fetchVars, callVars, Released, ClearedCache, Unsettled, TypeOK, Histories, Open, Fetching
    <2>7. ASSUME Drop(t) PROVE Histories'
      BY <1>1, <2>7 DEF Drop, Goto, vars, mapVars, cacheVars, fetchVars, callVars, Released, TypeOK, Histories, Open, Fetching
    <2>8. ASSUME ListStart(t) PROVE Histories'
      BY <1>1, <2>8 DEF ListStart, Goto, vars, mapVars, cacheVars, fetchVars, callVars, TypeOK, Histories, Open, Fetching
    <2>9. ASSUME ReadCache(t) PROVE Histories'
      BY <1>1, <2>9 DEF ReadCache, Goto, vars, mapVars, cacheVars, fetchVars, callVars, Listed, TypeOK, Histories, Open, Fetching
    <2>10. ASSUME LoadVersion(t) PROVE Histories'
      BY <1>1, <2>10 DEF LoadVersion, Goto, vars, mapVars, cacheVars, fetchVars, callVars, TypeOK, Histories, Open, Fetching
    <2>11. ASSUME TakeSnapshot(t) PROVE Histories'
      BY <1>1, <2>11 DEF TakeSnapshot, Goto, vars, mapVars, cacheVars, fetchVars, callVars, TypeOK, Histories, Open, Fetching
    <2>12. ASSUME Fetch(t) PROVE Histories'
      BY <1>1, <2>12 DEF Fetch, Goto, vars, mapVars, cacheVars, fetchVars, callVars, TypeOK, Histories, Open, Fetching
    <2>13. ASSUME Store(t) PROVE Histories'
      BY <1>1, <2>13 DEF Store, Goto, vars, mapVars, cacheVars, fetchVars, callVars, Listed, MayStore, TypeOK, Histories, Open, Fetching
    <2>14. ASSUME NEW x, CallTool(t, x), at[t] = "have" PROVE Histories'
      BY <1>1, <2>14 DEF CallTool, Goto, vars, mapVars, cacheVars, fetchVars, callVars, Resolve, TypeOK, Histories, Open, Fetching
    <2>15. ASSUME FindOwner(t) PROVE Histories'
      BY <1>1, <2>15 DEF FindOwner, Goto, vars, mapVars, cacheVars, fetchVars, callVars, Resolve, TypeOK, Histories, Open, Fetching
    <2>16. ASSUME CheckAvailable(t) PROVE Histories'
      BY <1>1, <2>16 DEF CheckAvailable, Goto, vars, mapVars, cacheVars, fetchVars, callVars, TypeOK, Histories, Open, Fetching
    <2>17. ASSUME Leave(t) PROVE Histories'
      BY <1>1, <2>17 DEF Leave, Goto, vars, mapVars, cacheVars, fetchVars, callVars, Resolve, TypeOK, Histories, Open, Fetching
    <2> QED BY <1>3, <2>1, <2>2, <2>3, <2>4, <2>5, <2>6, <2>7, <2>8, <2>9, <2>10, <2>11, <2>12, <2>13, <2>14, <2>15, <2>16, <2>17 DEF Step
  <1> QED BY <1>1, <1>2, <1>3 DEF Next

LEMMA FreshStep == TypeOK /\ Histories /\ Fresh /\ [Next]_vars => Fresh'
PROOF
  <1>1. SUFFICES ASSUME TypeOK, Histories, Fresh, [Next]_vars PROVE Fresh' OBVIOUS
  <1>2. CASE UNCHANGED vars BY <1>1, <1>2 DEF Fresh, vars, Unannounced
  <1>3. ASSUME NEW t \in Tasks, Step(t) PROVE Fresh'
    <2>1. ASSUME NEW c \in Configs, NEW locked \in BOOLEAN, AddStart(t, c, locked) PROVE Fresh'
      <3>1. \A s \in Tasks : at'[s] \in Fetching \cup {"snapshot"} => at[s] \in Fetching \cup {"snapshot"} BY <1>1, <2>1 DEF AddStart, Goto, vars, mapVars, cacheVars, fetchVars, callVars, TypeOK, Fetching
      <3>2. \A s \in Tasks : at'[s] \in Fetching => at[s] \in Fetching BY <1>1, <2>1 DEF AddStart, Goto, vars, mapVars, cacheVars, fetchVars, callVars, TypeOK, Fetching
      <3>3. Unannounced => Unannounced' BY <1>1, <2>1 DEF AddStart, Goto, vars, mapVars, cacheVars, fetchVars, callVars, TypeOK, Unannounced
      <3>4. version' = version /\ visible' = visible /\ extensions' = extensions BY <1>1, <2>1 DEF AddStart, Goto, vars, mapVars, cacheVars, fetchVars, callVars
      <3>5. \A s \in Tasks : at'[s] \in Fetching \cup {"snapshot"} => seen'[s] = seen[s] /\ snapshot'[s] = snapshot[s]
        BY <1>1, <2>1 DEF AddStart, Goto, vars, mapVars, cacheVars, fetchVars, callVars, TypeOK, Fetching
      <3> QED BY <1>1, <3>1, <3>2, <3>3, <3>4, <3>5 DEF Fresh, Fetching
    <2>2. ASSUME ConnectFails(t) PROVE Fresh'
      <3>1. \A s \in Tasks : at'[s] \in Fetching \cup {"snapshot"} => at[s] \in Fetching \cup {"snapshot"} BY <1>1, <2>2 DEF ConnectFails, Goto, vars, mapVars, cacheVars, fetchVars, callVars, Released, TypeOK, Fetching
      <3>2. \A s \in Tasks : at'[s] \in Fetching => at[s] \in Fetching BY <1>1, <2>2 DEF ConnectFails, Goto, vars, mapVars, cacheVars, fetchVars, callVars, Released, TypeOK, Fetching
      <3>3. Unannounced => Unannounced' BY <1>1, <2>2 DEF ConnectFails, Goto, vars, mapVars, cacheVars, fetchVars, callVars, Released, TypeOK, Unannounced
      <3>4. version' = version /\ visible' = visible /\ extensions' = extensions BY <1>1, <2>2 DEF ConnectFails, Goto, vars, mapVars, cacheVars, fetchVars, callVars, Released
      <3>5. \A s \in Tasks : at'[s] \in Fetching \cup {"snapshot"} => seen'[s] = seen[s] /\ snapshot'[s] = snapshot[s]
        BY <1>1, <2>2 DEF ConnectFails, Goto, vars, mapVars, cacheVars, fetchVars, callVars, Released, TypeOK, Fetching
      <3> QED BY <1>1, <3>1, <3>2, <3>3, <3>4, <3>5 DEF Fresh, Fetching
    <2>3. ASSUME AddInsert(t) PROVE Fresh'
      <3>1. \A s \in Tasks : at'[s] \in Fetching \cup {"snapshot"} => at'[s] = at[s] BY <1>1, <2>3 DEF AddInsert, Goto, vars, mapVars, cacheVars, fetchVars, callVars, SetExtensions, TypeOK, Fetching
      <3>2. Unannounced' BY <1>1, <2>3 DEF AddInsert, Goto, vars, mapVars, cacheVars, fetchVars, callVars, SetExtensions, TypeOK, Unannounced
      <3>3. seen' = seen /\ version' = version /\ snapshot' = snapshot /\ visible \subseteq visible' BY <1>1, <2>3 DEF AddInsert, Goto, vars, mapVars, cacheVars, fetchVars, callVars, SetExtensions
      <3> QED BY <1>1, <3>1, <3>2, <3>3 DEF Fresh, Fetching
    <2>4. ASSUME NEW k \in Keys, Remove(t, k) PROVE Fresh'
      <3>1. \A s \in Tasks : at'[s] \in Fetching \cup {"snapshot"} => at'[s] = at[s] BY <1>1, <2>4 DEF Remove, Goto, vars, mapVars, cacheVars, fetchVars, callVars, SetExtensions, TypeOK, Fetching
      <3>2. Unannounced' BY <1>1, <2>4 DEF Remove, Goto, vars, mapVars, cacheVars, fetchVars, callVars, SetExtensions, TypeOK, Unannounced
      <3>3. seen' = seen /\ version' = version /\ snapshot' = snapshot /\ visible \subseteq visible' BY <1>1, <2>4 DEF Remove, Goto, vars, mapVars, cacheVars, fetchVars, callVars, SetExtensions
      <3> QED BY <1>1, <3>1, <3>2, <3>3 DEF Fresh, Fetching
    <2>5. ASSUME Bump(t) PROVE Fresh'
      <3>1. \A s \in Tasks : at'[s] \in Fetching \cup {"snapshot"} => at'[s] = at[s] BY <1>1, <2>5 DEF Bump, Goto, vars, mapVars, cacheVars, fetchVars, callVars, TypeOK, Fetching
      <3>2. seen' = seen /\ version' = version + 1 BY <1>1, <2>5 DEF Bump, Goto, vars, mapVars, cacheVars, fetchVars, callVars
      <3>3. \A s \in Tasks : at'[s] \in Fetching \cup {"snapshot"} => seen'[s] < version'
        BY <1>1, <3>1, <3>2 DEF Fresh, TypeOK
      <3>4. \A s \in Tasks : seen'[s] \in Nat BY <1>1, <3>2 DEF TypeOK
      <3> QED BY <1>1, <3>2, <3>3, <3>4 DEF Fresh, TypeOK
    <2>6. ASSUME Clear(t) PROVE Fresh'
      <3>1. \A s \in Tasks : at'[s] \in Fetching \cup {"snapshot"} => at'[s] = at[s] BY <1>1, <2>6 DEF Clear, Goto, vars, mapVars, cacheVars, fetchVars, callVars, Released, ClearedCache, Unsettled, TypeOK, Fetching
      <3>2. Unannounced' <=> Unannounced BY <1>1, <2>6 DEF Clear, Goto, vars, mapVars, cacheVars, fetchVars, callVars, Released, ClearedCache, Unsettled, TypeOK, Unannounced
      <3>3. seen' = seen /\ version' = version /\ snapshot' = snapshot /\ extensions' = extensions BY <1>1, <2>6 DEF Clear, Goto, vars, mapVars, cacheVars, fetchVars, callVars, Released, ClearedCache, Unsettled
      <3>4. CASE Unsettled = {t}
        <4>1. ~Unannounced BY <3>4, <2>6 DEF Clear, Unannounced, Unsettled
        <4>2. visible' = {extensions} BY <3>4, <2>6 DEF Clear
        <4> QED BY <1>1, <3>1, <3>2, <3>3, <4>1, <4>2 DEF Fresh, Fetching
      <3>5. CASE Unsettled # {t}
        <4>1. visible' = visible BY <3>5, <2>6 DEF Clear
        <4> QED BY <1>1, <3>1, <3>2, <3>3, <4>1 DEF Fresh, Fetching
      <3> QED BY <3>4, <3>5
    <2>7. ASSUME Drop(t) PROVE Fresh'
      <3>1. \A s \in Tasks : at'[s] \in Fetching \cup {"snapshot"} => at[s] \in Fetching \cup {"snapshot"} BY <1>1, <2>7 DEF Drop, Goto, vars, mapVars, cacheVars, fetchVars, callVars, Released, TypeOK, Fetching
      <3>2. \A s \in Tasks : at'[s] \in Fetching => at[s] \in Fetching BY <1>1, <2>7 DEF Drop, Goto, vars, mapVars, cacheVars, fetchVars, callVars, Released, TypeOK, Fetching
      <3>3. Unannounced => Unannounced' BY <1>1, <2>7 DEF Drop, Goto, vars, mapVars, cacheVars, fetchVars, callVars, Released, TypeOK, Unannounced
      <3>4. version' = version /\ visible' = visible /\ extensions' = extensions BY <1>1, <2>7 DEF Drop, Goto, vars, mapVars, cacheVars, fetchVars, callVars, Released
      <3>5. \A s \in Tasks : at'[s] \in Fetching \cup {"snapshot"} => seen'[s] = seen[s] /\ snapshot'[s] = snapshot[s]
        BY <1>1, <2>7 DEF Drop, Goto, vars, mapVars, cacheVars, fetchVars, callVars, Released, TypeOK, Fetching
      <3> QED BY <1>1, <3>1, <3>2, <3>3, <3>4, <3>5 DEF Fresh, Fetching
    <2>8. ASSUME ListStart(t) PROVE Fresh'
      <3>1. \A s \in Tasks : at'[s] \in Fetching \cup {"snapshot"} => at[s] \in Fetching \cup {"snapshot"} BY <1>1, <2>8 DEF ListStart, Goto, vars, mapVars, cacheVars, fetchVars, callVars, TypeOK, Fetching
      <3>2. \A s \in Tasks : at'[s] \in Fetching => at[s] \in Fetching BY <1>1, <2>8 DEF ListStart, Goto, vars, mapVars, cacheVars, fetchVars, callVars, TypeOK, Fetching
      <3>3. Unannounced => Unannounced' BY <1>1, <2>8 DEF ListStart, Goto, vars, mapVars, cacheVars, fetchVars, callVars, TypeOK, Unannounced
      <3>4. version' = version /\ visible' = visible /\ extensions' = extensions BY <1>1, <2>8 DEF ListStart, Goto, vars, mapVars, cacheVars, fetchVars, callVars
      <3>5. \A s \in Tasks : at'[s] \in Fetching \cup {"snapshot"} => seen'[s] = seen[s] /\ snapshot'[s] = snapshot[s]
        BY <1>1, <2>8 DEF ListStart, Goto, vars, mapVars, cacheVars, fetchVars, callVars, TypeOK, Fetching
      <3> QED BY <1>1, <3>1, <3>2, <3>3, <3>4, <3>5 DEF Fresh, Fetching
    <2>9. ASSUME ReadCache(t) PROVE Fresh'
      <3>1. \A s \in Tasks : at'[s] \in Fetching \cup {"snapshot"} => at[s] \in Fetching \cup {"snapshot"} BY <1>1, <2>9 DEF ReadCache, Goto, vars, mapVars, cacheVars, fetchVars, callVars, Listed, TypeOK, Fetching
      <3>2. \A s \in Tasks : at'[s] \in Fetching => at[s] \in Fetching BY <1>1, <2>9 DEF ReadCache, Goto, vars, mapVars, cacheVars, fetchVars, callVars, Listed, TypeOK, Fetching
      <3>3. Unannounced => Unannounced' BY <1>1, <2>9 DEF ReadCache, Goto, vars, mapVars, cacheVars, fetchVars, callVars, Listed, TypeOK, Unannounced
      <3>4. version' = version /\ visible' = visible /\ extensions' = extensions BY <1>1, <2>9 DEF ReadCache, Goto, vars, mapVars, cacheVars, fetchVars, callVars, Listed
      <3>5. \A s \in Tasks : at'[s] \in Fetching \cup {"snapshot"} => seen'[s] = seen[s] /\ snapshot'[s] = snapshot[s]
        BY <1>1, <2>9 DEF ReadCache, Goto, vars, mapVars, cacheVars, fetchVars, callVars, Listed, TypeOK, Fetching
      <3> QED BY <1>1, <3>1, <3>2, <3>3, <3>4, <3>5 DEF Fresh, Fetching
    <2>10. ASSUME LoadVersion(t) PROVE Fresh'
      <3>1. \A s \in Tasks \ {t} : at'[s] = at[s] /\ seen'[s] = seen[s] BY <1>1, <2>10 DEF LoadVersion, Goto, vars, mapVars, cacheVars, fetchVars, callVars, TypeOK
      <3>2. at'[t] = "snapshot" /\ seen'[t] = version BY <1>1, <2>10 DEF LoadVersion, Goto, vars, mapVars, cacheVars, fetchVars, callVars, TypeOK
      <3>3. Unannounced => Unannounced' BY <1>1, <2>10 DEF LoadVersion, Goto, vars, mapVars, cacheVars, fetchVars, callVars, TypeOK, Unannounced
      <3>4. version' = version /\ visible' = visible /\ extensions' = extensions /\ snapshot' = snapshot BY <1>1, <2>10 DEF LoadVersion, Goto, vars, mapVars, cacheVars, fetchVars, callVars
      <3>5. version <= version BY <1>1 DEF TypeOK
      <3> QED BY <1>1, <3>1, <3>2, <3>3, <3>4, <3>5 DEF Fresh, Fetching
    <2>11. ASSUME TakeSnapshot(t) PROVE Fresh'
      <3>1. \A s \in Tasks : at'[s] \in Fetching \cup {"snapshot"} => s = t \/ at'[s] = at[s] BY <1>1, <2>11 DEF TakeSnapshot, Goto, vars, mapVars, cacheVars, fetchVars, callVars, TypeOK, Fetching
      <3>2. Unannounced' <=> Unannounced BY <1>1, <2>11 DEF TakeSnapshot, Goto, vars, mapVars, cacheVars, fetchVars, callVars, TypeOK, Unannounced
      <3>3. seen' = seen /\ version' = version /\ visible' = visible /\ extensions' = extensions BY <1>1, <2>11 DEF TakeSnapshot, Goto, vars, mapVars, cacheVars, fetchVars, callVars
      <3>4. snapshot'[t] = extensions /\ at[t] = "snapshot" BY <1>1, <2>11 DEF TakeSnapshot, Goto, vars, mapVars, cacheVars, fetchVars, callVars, TypeOK
      <3>5. \A s \in Tasks \ {t} : snapshot'[s] = snapshot[s] BY <1>1, <2>11 DEF TakeSnapshot, Goto, vars, mapVars, cacheVars, fetchVars, callVars, TypeOK
      <3>6. extensions \in visible BY <1>1 DEF Histories
      <3> QED BY <1>1, <3>1, <3>2, <3>3, <3>4, <3>5, <3>6 DEF Fresh, Fetching
    <2>12. ASSUME Fetch(t) PROVE Fresh'
      <3>1. \A s \in Tasks : at'[s] \in Fetching \cup {"snapshot"} => at[s] \in Fetching \cup {"snapshot"} BY <1>1, <2>12 DEF Fetch, Goto, vars, mapVars, cacheVars, fetchVars, callVars, TypeOK, Fetching
      <3>2. \A s \in Tasks : at'[s] \in Fetching => at[s] \in Fetching BY <1>1, <2>12 DEF Fetch, Goto, vars, mapVars, cacheVars, fetchVars, callVars, TypeOK, Fetching
      <3>3. Unannounced => Unannounced' BY <1>1, <2>12 DEF Fetch, Goto, vars, mapVars, cacheVars, fetchVars, callVars, TypeOK, Unannounced
      <3>4. version' = version /\ visible' = visible /\ extensions' = extensions BY <1>1, <2>12 DEF Fetch, Goto, vars, mapVars, cacheVars, fetchVars, callVars
      <3>5. \A s \in Tasks : at'[s] \in Fetching \cup {"snapshot"} => seen'[s] = seen[s] /\ snapshot'[s] = snapshot[s]
        BY <1>1, <2>12 DEF Fetch, Goto, vars, mapVars, cacheVars, fetchVars, callVars, TypeOK, Fetching
      <3> QED BY <1>1, <3>1, <3>2, <3>3, <3>4, <3>5 DEF Fresh, Fetching
    <2>13. ASSUME Store(t) PROVE Fresh'
      <3>1. \A s \in Tasks : at'[s] \in Fetching \cup {"snapshot"} => at[s] \in Fetching \cup {"snapshot"} BY <1>1, <2>13 DEF Store, Goto, vars, mapVars, cacheVars, fetchVars, callVars, Listed, MayStore, TypeOK, Fetching
      <3>2. \A s \in Tasks : at'[s] \in Fetching => at[s] \in Fetching BY <1>1, <2>13 DEF Store, Goto, vars, mapVars, cacheVars, fetchVars, callVars, Listed, MayStore, TypeOK, Fetching
      <3>3. Unannounced => Unannounced' BY <1>1, <2>13 DEF Store, Goto, vars, mapVars, cacheVars, fetchVars, callVars, Listed, MayStore, TypeOK, Unannounced
      <3>4. version' = version /\ visible' = visible /\ extensions' = extensions BY <1>1, <2>13 DEF Store, Goto, vars, mapVars, cacheVars, fetchVars, callVars, Listed, MayStore
      <3>5. \A s \in Tasks : at'[s] \in Fetching \cup {"snapshot"} => seen'[s] = seen[s] /\ snapshot'[s] = snapshot[s]
        BY <1>1, <2>13 DEF Store, Goto, vars, mapVars, cacheVars, fetchVars, callVars, Listed, MayStore, TypeOK, Fetching
      <3> QED BY <1>1, <3>1, <3>2, <3>3, <3>4, <3>5 DEF Fresh, Fetching
    <2>14. ASSUME NEW x, CallTool(t, x), at[t] = "have" PROVE Fresh'
      <3>1. \A s \in Tasks : at'[s] \in Fetching \cup {"snapshot"} => at[s] \in Fetching \cup {"snapshot"} BY <1>1, <2>14 DEF CallTool, Goto, vars, mapVars, cacheVars, fetchVars, callVars, Resolve, TypeOK, Fetching
      <3>2. \A s \in Tasks : at'[s] \in Fetching => at[s] \in Fetching BY <1>1, <2>14 DEF CallTool, Goto, vars, mapVars, cacheVars, fetchVars, callVars, Resolve, TypeOK, Fetching
      <3>3. Unannounced => Unannounced' BY <1>1, <2>14 DEF CallTool, Goto, vars, mapVars, cacheVars, fetchVars, callVars, Resolve, TypeOK, Unannounced
      <3>4. version' = version /\ visible' = visible /\ extensions' = extensions BY <1>1, <2>14 DEF CallTool, Goto, vars, mapVars, cacheVars, fetchVars, callVars, Resolve
      <3>5. \A s \in Tasks : at'[s] \in Fetching \cup {"snapshot"} => seen'[s] = seen[s] /\ snapshot'[s] = snapshot[s]
        BY <1>1, <2>14 DEF CallTool, Goto, vars, mapVars, cacheVars, fetchVars, callVars, Resolve, TypeOK, Fetching
      <3> QED BY <1>1, <3>1, <3>2, <3>3, <3>4, <3>5 DEF Fresh, Fetching
    <2>15. ASSUME FindOwner(t) PROVE Fresh'
      <3>1. \A s \in Tasks : at'[s] \in Fetching \cup {"snapshot"} => at[s] \in Fetching \cup {"snapshot"} BY <1>1, <2>15 DEF FindOwner, Goto, vars, mapVars, cacheVars, fetchVars, callVars, Resolve, TypeOK, Fetching
      <3>2. \A s \in Tasks : at'[s] \in Fetching => at[s] \in Fetching BY <1>1, <2>15 DEF FindOwner, Goto, vars, mapVars, cacheVars, fetchVars, callVars, Resolve, TypeOK, Fetching
      <3>3. Unannounced => Unannounced' BY <1>1, <2>15 DEF FindOwner, Goto, vars, mapVars, cacheVars, fetchVars, callVars, Resolve, TypeOK, Unannounced
      <3>4. version' = version /\ visible' = visible /\ extensions' = extensions BY <1>1, <2>15 DEF FindOwner, Goto, vars, mapVars, cacheVars, fetchVars, callVars, Resolve
      <3>5. \A s \in Tasks : at'[s] \in Fetching \cup {"snapshot"} => seen'[s] = seen[s] /\ snapshot'[s] = snapshot[s]
        BY <1>1, <2>15 DEF FindOwner, Goto, vars, mapVars, cacheVars, fetchVars, callVars, Resolve, TypeOK, Fetching
      <3> QED BY <1>1, <3>1, <3>2, <3>3, <3>4, <3>5 DEF Fresh, Fetching
    <2>16. ASSUME CheckAvailable(t) PROVE Fresh'
      <3>1. \A s \in Tasks : at'[s] \in Fetching \cup {"snapshot"} => at[s] \in Fetching \cup {"snapshot"} BY <1>1, <2>16 DEF CheckAvailable, Goto, vars, mapVars, cacheVars, fetchVars, callVars, TypeOK, Fetching
      <3>2. \A s \in Tasks : at'[s] \in Fetching => at[s] \in Fetching BY <1>1, <2>16 DEF CheckAvailable, Goto, vars, mapVars, cacheVars, fetchVars, callVars, TypeOK, Fetching
      <3>3. Unannounced => Unannounced' BY <1>1, <2>16 DEF CheckAvailable, Goto, vars, mapVars, cacheVars, fetchVars, callVars, TypeOK, Unannounced
      <3>4. version' = version /\ visible' = visible /\ extensions' = extensions BY <1>1, <2>16 DEF CheckAvailable, Goto, vars, mapVars, cacheVars, fetchVars, callVars
      <3>5. \A s \in Tasks : at'[s] \in Fetching \cup {"snapshot"} => seen'[s] = seen[s] /\ snapshot'[s] = snapshot[s]
        BY <1>1, <2>16 DEF CheckAvailable, Goto, vars, mapVars, cacheVars, fetchVars, callVars, TypeOK, Fetching
      <3> QED BY <1>1, <3>1, <3>2, <3>3, <3>4, <3>5 DEF Fresh, Fetching
    <2>17. ASSUME Leave(t) PROVE Fresh'
      <3>1. \A s \in Tasks : at'[s] \in Fetching \cup {"snapshot"} => at[s] \in Fetching \cup {"snapshot"} BY <1>1, <2>17 DEF Leave, Goto, vars, mapVars, cacheVars, fetchVars, callVars, Resolve, TypeOK, Fetching
      <3>2. \A s \in Tasks : at'[s] \in Fetching => at[s] \in Fetching BY <1>1, <2>17 DEF Leave, Goto, vars, mapVars, cacheVars, fetchVars, callVars, Resolve, TypeOK, Fetching
      <3>3. Unannounced => Unannounced' BY <1>1, <2>17 DEF Leave, Goto, vars, mapVars, cacheVars, fetchVars, callVars, Resolve, TypeOK, Unannounced
      <3>4. version' = version /\ visible' = visible /\ extensions' = extensions BY <1>1, <2>17 DEF Leave, Goto, vars, mapVars, cacheVars, fetchVars, callVars, Resolve
      <3>5. \A s \in Tasks : at'[s] \in Fetching \cup {"snapshot"} => seen'[s] = seen[s] /\ snapshot'[s] = snapshot[s]
        BY <1>1, <2>17 DEF Leave, Goto, vars, mapVars, cacheVars, fetchVars, callVars, Resolve, TypeOK, Fetching
      <3> QED BY <1>1, <3>1, <3>2, <3>3, <3>4, <3>5 DEF Fresh, Fetching
    <2> QED BY <1>3, <2>1, <2>2, <2>3, <2>4, <2>5, <2>6, <2>7, <2>8, <2>9, <2>10, <2>11, <2>12, <2>13, <2>14, <2>15, <2>16, <2>17 DEF Step
  <1> QED BY <1>1, <1>2, <1>3 DEF Next

LEMMA CachedStep == TypeOK /\ Histories /\ Fresh /\ Cached /\ [Next]_vars => Cached'
PROOF
  <1>1. SUFFICES ASSUME TypeOK, Histories, Fresh, Cached, [Next]_vars PROVE Cached' OBVIOUS
  <1>2. CASE UNCHANGED vars BY <1>1, <1>2 DEF Cached, vars
  <1>3. ASSUME NEW t \in Tasks, Step(t) PROVE Cached'
    <2>1. ASSUME NEW c \in Configs, NEW locked \in BOOLEAN, AddStart(t, c, locked) PROVE Cached'
      BY <1>1, <2>1 DEF AddStart, Goto, vars, mapVars, cacheVars, fetchVars, callVars, Cached
    <2>2. ASSUME ConnectFails(t) PROVE Cached'
      BY <1>1, <2>2 DEF ConnectFails, Goto, vars, mapVars, cacheVars, fetchVars, callVars, Released, Cached
    <2>3. ASSUME AddInsert(t) PROVE Cached'
      BY <1>1, <2>3 DEF AddInsert, Goto, vars, mapVars, cacheVars, fetchVars, callVars, SetExtensions, Cached
    <2>4. ASSUME NEW k \in Keys, Remove(t, k) PROVE Cached'
      BY <1>1, <2>4 DEF Remove, Goto, vars, mapVars, cacheVars, fetchVars, callVars, SetExtensions, Cached
    <2>5. ASSUME Bump(t) PROVE Cached'
      BY <1>1, <2>5 DEF Bump, Goto, vars, mapVars, cacheVars, fetchVars, callVars, Cached
    <2>6. ASSUME Clear(t) PROVE Cached'
      BY <1>1, <2>6 DEF Clear, Goto, vars, mapVars, cacheVars, fetchVars, callVars, Released, ClearedCache, Unsettled, Cached
    <2>7. ASSUME Drop(t) PROVE Cached'
      BY <1>1, <2>7 DEF Drop, Goto, vars, mapVars, cacheVars, fetchVars, callVars, Released, Cached
    <2>8. ASSUME ListStart(t) PROVE Cached'
      BY <1>1, <2>8 DEF ListStart, Goto, vars, mapVars, cacheVars, fetchVars, callVars, Cached
    <2>9. ASSUME ReadCache(t) PROVE Cached'
      BY <1>1, <2>9 DEF ReadCache, Goto, vars, mapVars, cacheVars, fetchVars, callVars, Listed, Cached
    <2>10. ASSUME LoadVersion(t) PROVE Cached'
      BY <1>1, <2>10 DEF LoadVersion, Goto, vars, mapVars, cacheVars, fetchVars, callVars, Cached
    <2>11. ASSUME TakeSnapshot(t) PROVE Cached'
      BY <1>1, <2>11 DEF TakeSnapshot, Goto, vars, mapVars, cacheVars, fetchVars, callVars, Cached
    <2>12. ASSUME Fetch(t) PROVE Cached'
      BY <1>1, <2>12 DEF Fetch, Goto, vars, mapVars, cacheVars, fetchVars, callVars, Cached
    <2>13. ASSUME Store(t) PROVE Cached'
      <3>1. visible' = visible BY <2>13 DEF Store, Goto, vars, mapVars, cacheVars, fetchVars, callVars, Listed, MayStore
      <3>2. CASE MayStore(t)
        <4>1. snapshot[t] \in visible BY <1>1, <3>2, <2>13 DEF Store, Fresh, Fetching, MayStore
        <4>2. \E l \in Listings(snapshot[t]) : cache' = {l} BY <1>1, <3>2, <2>13 DEF Store, Histories
        <4> QED BY <3>1, <4>1, <4>2 DEF Cached
      <3>3. CASE ~MayStore(t) BY <1>1, <3>1, <3>3, <2>13 DEF Store, Cached
      <3> QED BY <3>2, <3>3
    <2>14. ASSUME NEW x, CallTool(t, x), at[t] = "have" PROVE Cached'
      BY <1>1, <2>14 DEF CallTool, Goto, vars, mapVars, cacheVars, fetchVars, callVars, Resolve, Cached
    <2>15. ASSUME FindOwner(t) PROVE Cached'
      BY <1>1, <2>15 DEF FindOwner, Goto, vars, mapVars, cacheVars, fetchVars, callVars, Resolve, Cached
    <2>16. ASSUME CheckAvailable(t) PROVE Cached'
      BY <1>1, <2>16 DEF CheckAvailable, Goto, vars, mapVars, cacheVars, fetchVars, callVars, Cached
    <2>17. ASSUME Leave(t) PROVE Cached'
      BY <1>1, <2>17 DEF Leave, Goto, vars, mapVars, cacheVars, fetchVars, callVars, Resolve, Cached
    <2> QED BY <1>3, <2>1, <2>2, <2>3, <2>4, <2>5, <2>6, <2>7, <2>8, <2>9, <2>10, <2>11, <2>12, <2>13, <2>14, <2>15, <2>16, <2>17 DEF Step
  <1> QED BY <1>1, <1>2, <1>3 DEF Next

LEMMA CurrentStep == TypeOK /\ Histories /\ Fresh /\ CacheCurrent /\ [Next]_vars => CacheCurrent'
PROOF
  <1>1. SUFFICES ASSUME TypeOK, Histories, Fresh, CacheCurrent, [Next]_vars PROVE CacheCurrent' OBVIOUS
  <1>2. CASE UNCHANGED vars BY <1>1, <1>2 DEF CacheCurrent, vars, Unsettled
  <1>3. ASSUME NEW t \in Tasks, Step(t) PROVE CacheCurrent'
    <2>1. ASSUME NEW c \in Configs, NEW locked \in BOOLEAN, AddStart(t, c, locked) PROVE CacheCurrent'
      <3>1. Unsettled' = Unsettled /\ cache' = cache /\ extensions' = extensions BY <1>1, <2>1 DEF AddStart, Goto, vars, mapVars, cacheVars, fetchVars, callVars, TypeOK, Unsettled
      <3> QED BY <1>1, <3>1 DEF CacheCurrent
    <2>2. ASSUME ConnectFails(t) PROVE CacheCurrent'
      <3>1. Unsettled' = Unsettled /\ cache' = cache /\ extensions' = extensions BY <1>1, <2>2 DEF ConnectFails, Goto, vars, mapVars, cacheVars, fetchVars, callVars, Released, TypeOK, Unsettled
      <3> QED BY <1>1, <3>1 DEF CacheCurrent
    <2>3. ASSUME AddInsert(t) PROVE CacheCurrent'
      <3>1. t \in Unsettled' BY <1>1, <2>3 DEF AddInsert, Goto, vars, mapVars, cacheVars, fetchVars, callVars, SetExtensions, TypeOK, Unsettled
      <3> QED BY <3>1 DEF CacheCurrent
    <2>4. ASSUME NEW k \in Keys, Remove(t, k) PROVE CacheCurrent'
      <3>1. t \in Unsettled' BY <1>1, <2>4 DEF Remove, Goto, vars, mapVars, cacheVars, fetchVars, callVars, SetExtensions, TypeOK, Unsettled
      <3> QED BY <3>1 DEF CacheCurrent
    <2>5. ASSUME Bump(t) PROVE CacheCurrent'
      <3>1. Unsettled' = Unsettled /\ cache' = cache /\ extensions' = extensions BY <1>1, <2>5 DEF Bump, Goto, vars, mapVars, cacheVars, fetchVars, callVars, TypeOK, Unsettled
      <3> QED BY <1>1, <3>1 DEF CacheCurrent
    <2>6. ASSUME Clear(t) PROVE CacheCurrent'
      BY <2>6 DEF Clear, ClearedCache, CacheCurrent
    <2>7. ASSUME Drop(t) PROVE CacheCurrent'
      <3>1. Unsettled' = Unsettled /\ cache' = cache /\ extensions' = extensions BY <1>1, <2>7 DEF Drop, Goto, vars, mapVars, cacheVars, fetchVars, callVars, Released, TypeOK, Unsettled
      <3> QED BY <1>1, <3>1 DEF CacheCurrent
    <2>8. ASSUME ListStart(t) PROVE CacheCurrent'
      <3>1. Unsettled' = Unsettled /\ cache' = cache /\ extensions' = extensions BY <1>1, <2>8 DEF ListStart, Goto, vars, mapVars, cacheVars, fetchVars, callVars, TypeOK, Unsettled
      <3> QED BY <1>1, <3>1 DEF CacheCurrent
    <2>9. ASSUME ReadCache(t) PROVE CacheCurrent'
      <3>1. Unsettled' = Unsettled /\ cache' = cache /\ extensions' = extensions BY <1>1, <2>9 DEF ReadCache, Goto, vars, mapVars, cacheVars, fetchVars, callVars, Listed, TypeOK, Unsettled
      <3> QED BY <1>1, <3>1 DEF CacheCurrent
    <2>10. ASSUME LoadVersion(t) PROVE CacheCurrent'
      <3>1. Unsettled' = Unsettled /\ cache' = cache /\ extensions' = extensions BY <1>1, <2>10 DEF LoadVersion, Goto, vars, mapVars, cacheVars, fetchVars, callVars, TypeOK, Unsettled
      <3> QED BY <1>1, <3>1 DEF CacheCurrent
    <2>11. ASSUME TakeSnapshot(t) PROVE CacheCurrent'
      <3>1. Unsettled' = Unsettled /\ cache' = cache /\ extensions' = extensions BY <1>1, <2>11 DEF TakeSnapshot, Goto, vars, mapVars, cacheVars, fetchVars, callVars, TypeOK, Unsettled
      <3> QED BY <1>1, <3>1 DEF CacheCurrent
    <2>12. ASSUME Fetch(t) PROVE CacheCurrent'
      <3>1. Unsettled' = Unsettled /\ cache' = cache /\ extensions' = extensions BY <1>1, <2>12 DEF Fetch, Goto, vars, mapVars, cacheVars, fetchVars, callVars, TypeOK, Unsettled
      <3> QED BY <1>1, <3>1 DEF CacheCurrent
    <2>13. ASSUME Store(t) PROVE CacheCurrent'
      <3>1. Unsettled' = Unsettled /\ extensions' = extensions BY <1>1, <2>13 DEF Store, Goto, vars, mapVars, cacheVars, fetchVars, callVars, Listed, MayStore, TypeOK, Unsettled
      <3>2. CASE Unsettled = {} /\ MayStore(t)
        <4>1. ~Unannounced BY <3>2 DEF Unannounced, Unsettled
        <4>2. snapshot[t] = extensions BY <1>1, <3>2, <4>1, <2>13 DEF Store, Fresh, Fetching, MayStore
        <4>3. \E l \in Listings(snapshot[t]) : cache' = {l} BY <1>1, <3>2, <2>13 DEF Store, Histories
        <4> QED BY <3>1, <4>2, <4>3 DEF CacheCurrent
      <3>3. CASE Unsettled # {} BY <3>1, <3>3 DEF CacheCurrent
      <3>4. CASE ~MayStore(t) BY <1>1, <3>1, <3>4, <2>13 DEF Store, CacheCurrent
      <3> QED BY <3>2, <3>3, <3>4
    <2>14. ASSUME NEW x, CallTool(t, x), at[t] = "have" PROVE CacheCurrent'
      <3>1. Unsettled' = Unsettled /\ cache' = cache /\ extensions' = extensions BY <1>1, <2>14 DEF CallTool, Goto, vars, mapVars, cacheVars, fetchVars, callVars, Resolve, TypeOK, Unsettled
      <3> QED BY <1>1, <3>1 DEF CacheCurrent
    <2>15. ASSUME FindOwner(t) PROVE CacheCurrent'
      <3>1. Unsettled' = Unsettled /\ cache' = cache /\ extensions' = extensions BY <1>1, <2>15 DEF FindOwner, Goto, vars, mapVars, cacheVars, fetchVars, callVars, Resolve, TypeOK, Unsettled
      <3> QED BY <1>1, <3>1 DEF CacheCurrent
    <2>16. ASSUME CheckAvailable(t) PROVE CacheCurrent'
      <3>1. Unsettled' = Unsettled /\ cache' = cache /\ extensions' = extensions BY <1>1, <2>16 DEF CheckAvailable, Goto, vars, mapVars, cacheVars, fetchVars, callVars, TypeOK, Unsettled
      <3> QED BY <1>1, <3>1 DEF CacheCurrent
    <2>17. ASSUME Leave(t) PROVE CacheCurrent'
      <3>1. Unsettled' = Unsettled /\ cache' = cache /\ extensions' = extensions BY <1>1, <2>17 DEF Leave, Goto, vars, mapVars, cacheVars, fetchVars, callVars, Resolve, TypeOK, Unsettled
      <3> QED BY <1>1, <3>1 DEF CacheCurrent
    <2> QED BY <1>3, <2>1, <2>2, <2>3, <2>4, <2>5, <2>6, <2>7, <2>8, <2>9, <2>10, <2>11, <2>12, <2>13, <2>14, <2>15, <2>16, <2>17 DEF Step
  <1> QED BY <1>1, <1>2, <1>3 DEF Next

LEMMA IInit == Init => IInv
PROOF
  <1>1. SUFFICES ASSUME Init PROVE IInv OBVIOUS
  <1>2. TypeOK BY <1>1, TypeInit
  <1>3. Histories BY <1>1 DEF Init, Histories, Open, Fetching
  <1>4. Fresh BY <1>1 DEF Init, Fresh, Fetching
  <1>5. Cached /\ CacheCurrent BY <1>1 DEF Init, Cached, CacheCurrent
  <1> QED BY <1>2, <1>3, <1>4, <1>5 DEF IInv

LEMMA IStep == IInv /\ [Next]_vars => IInv'
PROOF BY TypeStep, HistoriesStep, FreshStep, CachedStep, CurrentStep DEF IInv

LEMMA Inductive == Spec => []IInv
PROOF
  <1> QED BY IInit, IStep, PTL DEF Spec

\* Whatever tasks list, add and remove, and at whatever point a caller goes
\* away: once every change has returned, the cached list is a list of the
\* extensions there are.
THEOREM CacheIsCurrent == Spec => []CacheCurrent
PROOF
  <1>1. IInv => CacheCurrent BY DEF IInv
  <1> QED BY <1>1, Inductive, PTL
-----------------------------------------------------------------------------
LEMMA SameMaps == Register!Maps = Maps /\ Register!NoExtension = NoExtension
PROOF BY DEF Maps, Register!Maps, NoExtension, Register!NoExtension

LEMMA SameListings == \A m : Register!Listings(m) = Listings(m)
PROOF
  <1>1. \A c : Register!Offered(c) = Offered(c) BY DEF Offered, Register!Offered
  <1>2. \A m : Register!Present(m) = Present(m) BY DEF Present, Register!Present
  <1>3. \A S : Register!Deduplicated(S) = Deduplicated(S)
    BY DEF Deduplicated, Register!Deduplicated, SameName, Register!SameName
  <1> QED BY <1>1, <1>2, <1>3 DEF Listings, Register!Listings

LEMMA RegisterInit == Init => Register!Init
PROOF BY SameMaps DEF Init, Register!Init, Unsettled

LEMMA RegisterStep == IInv /\ IInv' /\ [Next]_vars => [Register!Next]_Register!vars
PROOF
  <1>1. SUFFICES ASSUME IInv, IInv', [Next]_vars PROVE [Register!Next]_Register!vars OBVIOUS
  <1> DEFINE Still == UNCHANGED <<extensions, Unsettled, visible, may, got>>
  <1>a. Still => UNCHANGED Register!vars BY DEF Register!vars
  <1>2. CASE UNCHANGED vars BY <1>2, <1>a DEF vars, Unsettled
  <1>3. ASSUME NEW t \in Tasks, Step(t) PROVE [Register!Next]_Register!vars
    <2>1. ASSUME NEW c \in Configs, NEW locked \in BOOLEAN, AddStart(t, c, locked) PROVE [Register!Next]_Register!vars
      <3>1. Still BY <1>1, <2>1 DEF AddStart, Goto, vars, mapVars, cacheVars, fetchVars, callVars, IInv, TypeOK, Unsettled
      <3> QED BY <1>a, <3>1
    <2>2. ASSUME ConnectFails(t) PROVE [Register!Next]_Register!vars
      <3>1. Still BY <1>1, <2>2 DEF ConnectFails, Goto, vars, mapVars, cacheVars, fetchVars, callVars, Released, IInv, TypeOK, Unsettled
      <3> QED BY <1>a, <3>1
    <2>3. ASSUME AddInsert(t) PROVE [Register!Next]_Register!vars
      <3>1. t \notin Unsettled /\ Unsettled' = Unsettled \cup {t} BY <1>1, <2>3 DEF AddInsert, Goto, vars, mapVars, cacheVars, fetchVars, callVars, SetExtensions, IInv, TypeOK, Unsettled
      <3>2. extensions' \in Maps BY <1>1 DEF IInv, TypeOK
      <3>3. Register!Change(t) BY <3>1, <3>2, SameMaps, <2>3 DEF AddInsert, Goto, vars, mapVars, cacheVars, fetchVars, callVars, SetExtensions, Register!Change
      <3> QED BY <3>3 DEF Register!Next
    <2>4. ASSUME NEW k \in Keys, Remove(t, k) PROVE [Register!Next]_Register!vars
      <3>1. t \notin Unsettled /\ Unsettled' = Unsettled \cup {t} BY <1>1, <2>4 DEF Remove, Goto, vars, mapVars, cacheVars, fetchVars, callVars, SetExtensions, IInv, TypeOK, Unsettled
      <3>2. extensions' \in Maps BY <1>1 DEF IInv, TypeOK
      <3>3. Register!Change(t) BY <3>1, <3>2, SameMaps, <2>4 DEF Remove, Goto, vars, mapVars, cacheVars, fetchVars, callVars, SetExtensions, Register!Change
      <3> QED BY <3>3 DEF Register!Next
    <2>5. ASSUME Bump(t) PROVE [Register!Next]_Register!vars
      <3>1. Still BY <1>1, <2>5 DEF Bump, Goto, vars, mapVars, cacheVars, fetchVars, callVars, IInv, TypeOK, Unsettled
      <3> QED BY <1>a, <3>1
    <2>6. ASSUME Clear(t) PROVE [Register!Next]_Register!vars
      <3>1. t \in Unsettled /\ Unsettled' = Unsettled \ {t} BY <1>1, <2>6 DEF Clear, Goto, IInv, TypeOK, Unsettled
      <3>2. Unsettled = {t} <=> Unsettled' = {} BY <3>1
      <3>3. Register!Settle(t) BY <3>1, <3>2, <2>6 DEF Clear, fetchVars, Register!Settle
      <3> QED BY <3>3 DEF Register!Next
    <2>7. ASSUME Drop(t) PROVE [Register!Next]_Register!vars
      <3>1. Still BY <1>1, <2>7 DEF Drop, Goto, vars, mapVars, cacheVars, fetchVars, callVars, Released, IInv, TypeOK, Unsettled
      <3> QED BY <1>a, <3>1
    <2>8. ASSUME ListStart(t) PROVE [Register!Next]_Register!vars
      <3>1. Unsettled' = Unsettled BY <1>1, <2>8 DEF ListStart, Goto, IInv, TypeOK, Unsettled
      <3>2. may[t] = {} BY <1>1, <2>8 DEF ListStart, IInv, Histories, Open
      <3>3. Register!Ask(t) BY <3>1, <3>2, <2>8 DEF ListStart, mapVars, fetchVars, Register!Ask
      <3> QED BY <3>3 DEF Register!Next
    <2>9. ASSUME ReadCache(t) PROVE [Register!Next]_Register!vars
      <3>1. Unsettled' = Unsettled BY <1>1, <2>9 DEF ReadCache, Listed, Goto, IInv, TypeOK, Unsettled
      <3>2. CASE cache = {}
        <4>1. Still BY <3>1, <3>2, <2>9 DEF ReadCache, mapVars
        <4> QED BY <1>a, <4>1
      <3>3. CASE cache # {}
        <4>1. PICK l : cache = {l} BY <1>1, <3>3, EmptyOrOne DEF IInv, TypeOK
        <4>2. PICK m \in visible : l \in Listings(m) BY <1>1, <4>1 DEF IInv, Cached
        <4>3. m \in may[t] BY <1>1, <4>2, <2>9 DEF ReadCache, IInv, Histories, Open
        <4>4. got' = [got EXCEPT ![t] = {l}] BY <3>3, <4>1, <2>9 DEF ReadCache
        <4>5. Register!Answer(t) BY SameListings, <3>1, <4>2, <4>3, <4>4, <2>9 DEF ReadCache, mapVars, Register!Answer
        <4> QED BY <4>5 DEF Register!Next
      <3> QED BY <3>2, <3>3
    <2>10. ASSUME LoadVersion(t) PROVE [Register!Next]_Register!vars
      <3>1. Still BY <1>1, <2>10 DEF LoadVersion, Goto, vars, mapVars, cacheVars, fetchVars, callVars, IInv, TypeOK, Unsettled
      <3> QED BY <1>a, <3>1
    <2>11. ASSUME TakeSnapshot(t) PROVE [Register!Next]_Register!vars
      <3>1. Still BY <1>1, <2>11 DEF TakeSnapshot, Goto, vars, mapVars, cacheVars, fetchVars, callVars, IInv, TypeOK, Unsettled
      <3> QED BY <1>a, <3>1
    <2>12. ASSUME Fetch(t) PROVE [Register!Next]_Register!vars
      <3>1. Unsettled' = Unsettled BY <1>1, <2>12 DEF Fetch, Goto, IInv, TypeOK, Unsettled
      <3>2. snapshot[t] \in may[t] BY <1>1, <2>12 DEF Fetch, IInv, Histories, Fetching
      <3>3. Register!Answer(t) BY SameListings, <3>1, <3>2, <2>12 DEF Fetch, mapVars, Register!Answer
      <3> QED BY <3>3 DEF Register!Next
    <2>13. ASSUME Store(t) PROVE [Register!Next]_Register!vars
      <3>1. Still BY <1>1, <2>13 DEF Store, Goto, vars, mapVars, cacheVars, fetchVars, callVars, Listed, MayStore, IInv, TypeOK, Unsettled
      <3> QED BY <1>a, <3>1
    <2>14. ASSUME NEW x, CallTool(t, x), at[t] = "have" PROVE [Register!Next]_Register!vars
      <3>1. Still BY <1>1, <2>14 DEF CallTool, Goto, vars, mapVars, cacheVars, fetchVars, callVars, Resolve, IInv, TypeOK, Unsettled
      <3> QED BY <1>a, <3>1
    <2>15. ASSUME FindOwner(t) PROVE [Register!Next]_Register!vars
      <3>1. Still BY <1>1, <2>15 DEF FindOwner, Goto, vars, mapVars, cacheVars, fetchVars, callVars, Resolve, IInv, TypeOK, Unsettled
      <3> QED BY <1>a, <3>1
    <2>16. ASSUME CheckAvailable(t) PROVE [Register!Next]_Register!vars
      <3>1. Still BY <1>1, <2>16 DEF CheckAvailable, Goto, vars, mapVars, cacheVars, fetchVars, callVars, IInv, TypeOK, Unsettled
      <3> QED BY <1>a, <3>1
    <2>17. ASSUME Leave(t) PROVE [Register!Next]_Register!vars
      <3>1. Unsettled' = Unsettled BY <1>1, <2>17 DEF Leave, Goto, IInv, TypeOK, Unsettled
      <3>2. may[t] # {} BY <1>1, <2>17 DEF Leave, IInv, Histories, Open
      <3>3. Register!Leave(t) BY <3>1, <3>2, <2>17 DEF Leave, mapVars, Register!Leave
      <3> QED BY <3>3 DEF Register!Next
    <2> QED BY <1>3, <2>1, <2>2, <2>3, <2>4, <2>5, <2>6, <2>7, <2>8, <2>9, <2>10, <2>11, <2>12, <2>13, <2>14, <2>15, <2>16, <2>17 DEF Step
  <1> QED BY <1>1, <1>2, <1>3 DEF Next

\* The manager implements the register: every list it hands out shows the
\* extensions as they were at some moment of the call, or since the oldest
\* change that had not returned when the call began.
THEOREM ImplementsRegister == Spec => Listing
PROOF
  <1> QED BY Inductive, RegisterInit, RegisterStep, PTL DEF Spec, Listing, Register!Spec
-----------------------------------------------------------------------------
(***************************************************************************)
(* Calls.  A task that may have been shown one map only, m, has seen no    *)
(* change since it asked: the extensions are still m, its list is a list   *)
(* of m, and a client found by the prefix or by the list is the one m      *)
(* stores under that key.                                                  *)
(***************************************************************************)
\* an extension is stored under its own name
Keyed(m) == \A k \in Keys : m[k] # None => m[k].key = k

\* the client t has found offers the called tool, and m stores it
ServedBy(t, m) ==
  /\ client[t] # None
  /\ client[t].key \in Keys
  /\ m[client[t].key] = client[t]
  /\ want[t].name \in client[t].available

Served ==
  /\ DOMAIN want = Tasks /\ DOMAIN client = Tasks
  /\ \A m \in visible : Keyed(m)
  /\ \A t \in Tasks : \A m \in may[t] : Keyed(m)
  /\ \A t \in Tasks : \A l \in got[t] : \E m \in may[t] : l \in Listings(m)
  /\ \A t \in Tasks : at[t] = "owner" => got[t] # {}
  /\ \A t \in Tasks : \A m \in may[t] : at[t] = "check" /\ may[t] = {m} => ServedBy(t, m)
  /\ ShownToolRuns

\* A listed tool is offered by an extension of the map, stored under the
\* owner kept in the tool's metadata; its prefix, if any, is that key.
LEMMA ListedIsOffered ==
  ASSUME NEW m \in Maps, Keyed(m), NEW l \in Listings(m), NEW y \in l
  PROVE  /\ y.owner \in Keys
         /\ m[y.owner] # None
         /\ m[y.owner].key = y.owner
         /\ y.name \in m[y.owner].available
         /\ y.prefix # None => y.prefix = y.owner
PROOF
  <1>1. PICK S \in SUBSET UNION {Offered(c) : c \in Present(m)} : l \in Deduplicated(S)
    BY DEF Listings
  <1>2. y \in S BY <1>1 DEF Deduplicated
  <1>3. PICK c \in Present(m) : y \in Offered(c) BY <1>1, <1>2
  <1>4. PICK k \in Keys : m[k] = c /\ c # None BY <1>3 DEF Present
  <1>5. c.key = k BY <1>4 DEF Keyed
  <1>6. PICK n \in c.tools \cap c.available :
          y = [prefix |-> IF c.prefixed THEN c.key ELSE None, name |-> n, owner |-> c.key]
    BY <1>3 DEF Offered
  <1>7. y.owner = c.key /\ y.name = n /\ (y.prefix # None => y.prefix = c.key) BY <1>6
  <1> QED BY <1>4, <1>5, <1>6, <1>7

\* A step that leaves every list and every call as it is
LEMMA ServedBeside ==
  ASSUME Served, UNCHANGED <<visible, may, got, want, client>>,
         \A s \in Tasks : at'[s] \in {"owner", "check", "refused"} => at'[s] = at[s]
  PROVE  Served'
PROOF BY DEF Served, ServedBy, ShownToolRuns, Keyed

\* A change: a task to which only one map had been shown now has two, unless
\* the change put back what was there
LEMMA ServedChange ==
  ASSUME Served, Histories, NEW m, SetExtensions(m), Keyed(m), UNCHANGED <<got, want, client>>,
         may \in [Tasks -> SUBSET Maps],
         \A s \in Tasks : at'[s] \in {"owner", "check", "refused"} => at'[s] = at[s]
  PROVE  Served'
PROOF
  <1>1. /\ visible' = visible \cup {m}
        /\ \A s \in Tasks : may'[s] = IF may[s] = {} THEN {} ELSE may[s] \cup {m}
    BY DEF SetExtensions
  <1>2. \A n \in visible' : Keyed(n) BY <1>1 DEF Served
  <1>3. \A s \in Tasks : \A n \in may'[s] : Keyed(n)
    <2>1. \A s \in Tasks : \A n \in may'[s] : n \in may[s] \/ n = m BY <1>1
    <2>2. \A s \in Tasks : \A n \in may[s] : Keyed(n) BY DEF Served
    <2> HIDE DEF Keyed
    <2> QED BY <2>1, <2>2
  <1>4. \A s \in Tasks : \A l \in got'[s] : \E n \in may'[s] : l \in Listings(n) BY <1>1 DEF Served
  <1>5. \A s \in Tasks : at'[s] = "owner" => got'[s] # {} BY DEF Served
  <1>6. \A s \in Tasks : \A n : may'[s] = {n} => may[s] = {n} BY <1>1
  <1>7. \A s \in Tasks : \A n \in may'[s] : at'[s] = "check" /\ may'[s] = {n} => ServedBy(s, n)'
    BY <1>6 DEF Served, ServedBy
  <1>8. \A s \in Tasks : \A n \in may'[s] : at'[s] = "refused" /\ may'[s] = {n}
                                             => \E l \in Listings(n) : want'[s] \notin l
    BY <1>6 DEF Served, ShownToolRuns
  <1> QED BY <1>2, <1>3, <1>4, <1>5, <1>7, <1>8 DEF Served, ShownToolRuns, Keyed

LEMMA ServedStep == IInv /\ Served /\ [Next]_vars => Served'
PROOF
  <1>1. SUFFICES ASSUME IInv, Served, [Next]_vars PROVE Served' OBVIOUS
  <1> USE DEF Goto, mapVars, cacheVars, fetchVars, callVars
  <1>2. CASE UNCHANGED vars BY <1>1, <1>2, ServedBeside DEF vars
  <1>3. ASSUME NEW t \in Tasks, Step(t) PROVE Served'
    <2>0. at \in [Tasks -> Points] /\ got \in [Tasks -> AtMostOne(Lists)] /\ extensions \in Maps
          /\ may \in [Tasks -> SUBSET Maps] /\ visible \in SUBSET Maps /\ cache \in AtMostOne(Lists)
      BY <1>1 DEF IInv, TypeOK
    <2>a. extensions \in visible /\ (at[t] \in Open => visible \subseteq may[t]) /\ Histories
      BY <1>1 DEF IInv, Histories
    <2>b. \A m \in may[t] : may[t] = {m} /\ at[t] \in Open => extensions = m BY <2>a
    <2>1. ASSUME NEW c \in Configs, NEW locked \in BOOLEAN, AddStart(t, c, locked) PROVE Served'
      BY <1>1, <2>0, <2>1, ServedBeside DEF AddStart
    <2>2. ASSUME ConnectFails(t) PROVE Served' BY <1>1, <2>0, <2>2, ServedBeside DEF ConnectFails
    <2>3. ASSUME AddInsert(t) PROVE Served'
      <3> DEFINE m == [extensions EXCEPT ![config[t].key] = config[t]]
      <3>1. Keyed(extensions) BY <1>1, <2>a DEF Served
      <3>2. Keyed(m) BY <2>0, <3>1 DEF Keyed, Maps
      <3> QED BY <1>1, <2>0, <2>3, <2>a, <3>2, ServedChange DEF AddInsert
    <2>4. ASSUME NEW k \in Keys, Remove(t, k) PROVE Served'
      <3> DEFINE m == [extensions EXCEPT ![k] = None]
      <3>1. Keyed(extensions) BY <1>1, <2>a DEF Served
      <3>2. Keyed(m) BY <2>0, <3>1 DEF Keyed, Maps
      <3> QED BY <1>1, <2>0, <2>4, <2>a, <3>2, ServedChange DEF Remove
    <2>5. ASSUME Bump(t) PROVE Served' BY <1>1, <2>0, <2>5, ServedBeside DEF Bump
    <2>6. ASSUME Clear(t) PROVE Served'
      BY <1>1, <2>0, <2>6, <2>a DEF Clear, Served, ServedBy, ShownToolRuns, Keyed
    <2>7. ASSUME Drop(t) PROVE Served' BY <1>1, <2>0, <2>7, ServedBeside DEF Drop
    <2>8. ASSUME ListStart(t) PROVE Served'
      <3>1. may[t] = {} BY <1>1, <2>8 DEF ListStart, IInv, Histories, Open
      <3>2. got[t] = {} BY <1>1, <3>1 DEF Served
      <3> QED BY <1>1, <2>0, <2>8, <3>2 DEF ListStart, Served, ServedBy, ShownToolRuns, Keyed
    <2>9. ASSUME ReadCache(t) PROVE Served'
      <3>1. CASE cache = {} BY <1>1, <2>0, <2>9, <3>1, ServedBeside DEF ReadCache
      <3>2. CASE cache # {}
        <4>1. \A l \in cache : \E m \in may[t] : l \in Listings(m)
          BY <1>1, <2>9, <2>a DEF ReadCache, IInv, Cached, Open
        <4>2. at' = [at EXCEPT ![t] = Listed(t)] /\ got' = [got EXCEPT ![t] = cache]
          BY <2>9, <3>2 DEF ReadCache
        <4>3. Listed(t) \in {"have", "owner"} BY DEF Listed
        <4>4. UNCHANGED <<visible, may, want, client>> BY <2>9 DEF ReadCache
        <4> QED BY <1>1, <2>0, <3>2, <4>1, <4>2, <4>3, <4>4 DEF Served, ServedBy, ShownToolRuns, Keyed
      <3> QED BY <3>1, <3>2
    <2>10. ASSUME LoadVersion(t) PROVE Served' BY <1>1, <2>0, <2>10, ServedBeside DEF LoadVersion
    <2>11. ASSUME TakeSnapshot(t) PROVE Served' BY <1>1, <2>0, <2>11, ServedBeside DEF TakeSnapshot
    <2>12. ASSUME Fetch(t) PROVE Served'
      <3>1. snapshot[t] \in may[t] BY <1>1, <2>12 DEF Fetch, IInv, Histories, Fetching
      <3> QED BY <1>1, <2>0, <2>12, <3>1 DEF Fetch, Served, ServedBy, ShownToolRuns, Keyed
    <2>13. ASSUME Store(t) PROVE Served'
      <3>1. got[t] # {} BY <1>1, <2>13 DEF Store, IInv, Histories
      <3>2. Listed(t) \in {"have", "owner"} BY DEF Listed
      <3> QED BY <1>1, <2>0, <2>13, <3>1, <3>2 DEF Store, Served, ServedBy, ShownToolRuns, Keyed
    <2>14. ASSUME at[t] = "have", NEW x \in UNION got[t], CallTool(t, x) PROVE Served'
      <3>1. PICK l \in got[t] : x \in l OBVIOUS
      <3>2. PICK n \in may[t] : l \in Listings(n) BY <1>1, <3>1 DEF Served
      <3> DEFINE c == IF x.prefix = None THEN None ELSE extensions[x.prefix]
      <3>3. /\ want' = [want EXCEPT ![t] = x]
            /\ client' = [client EXCEPT ![t] = c]
            /\ at' = [at EXCEPT ![t] = IF c = None THEN "look" ELSE "check"]
            /\ UNCHANGED <<visible, may, got>>
        BY <2>14 DEF CallTool, Resolve
      <3>4. ASSUME NEW m \in may[t], at'[t] = "check", may[t] = {m} PROVE ServedBy(t, m)'
        <4>1. m = n /\ m = extensions BY <2>14, <2>b, <3>2, <3>4 DEF Open
        <4>2. m \in Maps /\ Keyed(m) BY <1>1, <2>0 DEF Served
        <4>3. x.owner \in Keys /\ m[x.owner] # None /\ m[x.owner].key = x.owner
              /\ x.name \in m[x.owner].available /\ (x.prefix # None => x.prefix = x.owner)
          BY <3>1, <3>2, <4>1, <4>2, ListedIsOffered
        <4>4. x.prefix # None /\ c # None BY <2>0, <3>3, <3>4
        <4>5. client'[t] = m[x.owner] /\ want'[t] = x BY <1>1, <3>3, <4>1, <4>3, <4>4 DEF Served
        <4> QED BY <4>3, <4>5 DEF ServedBy
      <3>5. \A s \in Tasks \ {t} : at'[s] = at[s] /\ want'[s] = want[s] /\ client'[s] = client[s]
        BY <1>1, <2>0, <3>3 DEF Served
      <3>6. at'[t] \in {"look", "check"} BY <2>0, <3>3
      <3>7. DOMAIN want' = Tasks /\ DOMAIN client' = Tasks BY <1>1, <3>3 DEF Served
      <3>8. \A s \in Tasks : \A m \in may'[s] : at'[s] = "check" /\ may'[s] = {m} => ServedBy(s, m)'
        BY <1>1, <3>3, <3>4, <3>5 DEF Served, ServedBy
      <3> HIDE DEF c
      <3> QED BY <1>1, <3>3, <3>5, <3>6, <3>7, <3>8 DEF Served, ShownToolRuns, Keyed
    <2>15. ASSUME FindOwner(t) PROVE Served'
      <3> DEFINE owners == {extensions[y.owner] : y \in {z \in UNION got[t] : SameName(z, want[t])}}
      <3>1. /\ at[t] = "owner"
            /\ UNCHANGED <<visible, may, got>>
            /\ \/ /\ owners \subseteq {None}
                  /\ at' = [at EXCEPT ![t] = "refused"]
                  /\ UNCHANGED <<want, client>>
               \/ \E c \in owners \ {None} :
                    /\ want' = [want EXCEPT ![t] = want[t]]
                    /\ client' = [client EXCEPT ![t] = c]
                    /\ at' = [at EXCEPT ![t] = "check"]
        BY <2>15 DEF FindOwner, Resolve
      <3>2. PICK l : got[t] = {l} BY <1>1, <2>0, <3>1, EmptyOrOne DEF Served
      <3>3. PICK n \in may[t] : l \in Listings(n) BY <1>1, <3>2 DEF Served
      <3>4. ASSUME may[t] = {n}
            PROVE  \A y \in l : /\ y.owner \in Keys
                                /\ extensions[y.owner] # None
                                /\ extensions[y.owner].key = y.owner
                                /\ y.name \in extensions[y.owner].available
        <4>1. extensions = n BY <2>b, <3>1, <3>4 DEF Open
        <4>2. n \in Maps /\ Keyed(n) BY <1>1, <2>0 DEF Served
        <4> QED BY <3>3, <4>1, <4>2, ListedIsOffered
      <3>5. CASE owners \subseteq {None} /\ at' = [at EXCEPT ![t] = "refused"] /\ UNCHANGED <<want, client>>
        <4>1. may[t] = {n} => want[t] \notin l BY <3>2, <3>4, <3>5 DEF SameName
        <4>2. \A m \in may[t] : may[t] = {m} => \E k \in Listings(m) : want[t] \notin k BY <3>3, <4>1
        <4> HIDE DEF owners
        <4> QED BY <1>1, <2>0, <3>1, <3>5, <4>2 DEF Served, ServedBy, ShownToolRuns, Keyed
      <3>6. ASSUME NEW c \in owners \ {None}, want' = [want EXCEPT ![t] = want[t]],
                   client' = [client EXCEPT ![t] = c], at' = [at EXCEPT ![t] = "check"]
            PROVE  Served'
        <4>1. PICK y \in l : SameName(y, want[t]) /\ c = extensions[y.owner] BY <3>2, <3>6
        <4>2. /\ \A s \in Tasks : want'[s] = want[s]
              /\ client'[t] = c
              /\ DOMAIN want' = Tasks /\ DOMAIN client' = Tasks
          BY <1>1, <3>6 DEF Served
        <4>3. \A m \in may[t] : may[t] = {m} => ServedBy(t, m)'
          <5> SUFFICES ASSUME NEW m \in may[t], may[t] = {m} PROVE ServedBy(t, m)' OBVIOUS
          <5>1. m = n /\ extensions = m BY <2>b, <3>1, <3>3 DEF Open
          <5> QED BY <3>4, <4>1, <4>2, <5>1 DEF ServedBy, SameName
        <4>4. \A s \in Tasks \ {t} : at'[s] = at[s] /\ client'[s] = client[s]
          BY <1>1, <2>0, <3>6 DEF Served
        <4>5. \A s \in Tasks : \A m \in may'[s] : at'[s] = "check" /\ may'[s] = {m} => ServedBy(s, m)'
          BY <1>1, <3>1, <4>2, <4>3, <4>4 DEF Served, ServedBy
        <4>6. at'[t] = "check" BY <2>0, <3>6
        <4> HIDE DEF owners
        <4> QED BY <1>1, <3>1, <4>2, <4>4, <4>5, <4>6 DEF Served, ShownToolRuns, Keyed
      <3> QED BY <3>1, <3>5, <3>6
    <2>16. ASSUME CheckAvailable(t) PROVE Served'
      <3>1. at[t] = "check" /\ UNCHANGED <<visible, may, got, want, client>> BY <2>16 DEF CheckAvailable
      <3>2. \A m \in may[t] : at'[t] = "refused" => may[t] # {m}
        BY <1>1, <2>0, <2>16, <2>b, <3>1 DEF CheckAvailable, Served, ServedBy, Open
      <3>3. at'[t] \in {"refused", "ran"} /\ \A s \in Tasks \ {t} : at'[s] = at[s]
        BY <2>0, <2>16 DEF CheckAvailable
      <3> QED BY <1>1, <3>1, <3>2, <3>3 DEF Served, ServedBy, ShownToolRuns, Keyed
    <2>17. ASSUME Leave(t) PROVE Served'
      BY <1>1, <2>0, <2>17 DEF Leave, Resolve, Served, ServedBy, ShownToolRuns, Keyed
    <2> QED BY <1>3, <2>1, <2>2, <2>3, <2>4, <2>5, <2>6, <2>7, <2>8, <2>9, <2>10, <2>11, <2>12, <2>13, <2>14, <2>15, <2>16, <2>17 DEF Step
  <1> QED BY <1>1, <1>2, <1>3 DEF Next

\* Whatever else is added, removed and listed meanwhile: a call is refused
\* only if some list of the extensions lacks the tool, or the extensions have
\* changed since the task asked for the list.
THEOREM ShownRuns == Spec => []ShownToolRuns
PROOF
  <1>1. Init => Served BY DEF Init, Served, NoExtension, Keyed, ShownToolRuns
  <1>2. Served => ShownToolRuns BY DEF Served
  <1> QED BY <1>1, <1>2, Inductive, ServedStep, PTL DEF Spec
=============================================================================
