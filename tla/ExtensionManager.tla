-------------------------- MODULE ExtensionManager --------------------------
(***************************************************************************)
(* The extensions of an agent, the cached list of their tools and the      *)
(* resolution of a tool call: crates/goose/src/agents/extension_manager.rs *)
(* and the part of agents/agent.rs that holds the container lock.          *)
(*                                                                         *)
(* Every access to the map, to the cache and to the version is a step of   *)
(* its own.  Tasks are whatever runs concurrently on one agent: requests   *)
(* of a front end, replies, tools.  Each adds or removes an extension, or  *)
(* lists the tools and then calls one it was shown.                        *)
(***************************************************************************)
EXTENDS ExtensionTools

CONSTANTS
  Tasks,
  Nobody,       \* the container lock when it is free
  MaxChanges    \* bound on insertions and removals

ASSUME NobodyIsNoTask == Nobody \notin Tasks
ASSUME MaxChangesNat == MaxChanges \in Nat

VARIABLES
  extensions,   \* key -> configuration, or None
  cache,        \* tools_cache: the list it holds, as a set of at most one
  version,      \* tools_cache_version
  container,    \* the task that holds the agent's container lock
  at,           \* where each task is
  config,       \* the configuration a task adds
  seen,         \* version_before of a fetch
  snapshot,     \* the clients a fetch lists
  got,          \* the list a task has, as a set of at most one
  want,         \* the tool a task calls
  client,       \* the client a call has been resolved to
  visible, may  \* history, read by no step: see ToolsRegister

mapVars == <<extensions, visible>>
cacheVars == <<cache, version>>
fetchVars == <<seen, snapshot, got>>
callVars == <<want, client>>
vars == <<extensions, cache, version, container, at, config, seen, snapshot,
          got, want, client, visible, may>>

Points == {"idle", "connect", "bump", "clear", "dropped", "look", "load", "snapshot",
           "fetch", "store", "have", "owner", "check", "ran", "refused"}

\* changes made to the map whose calls have not returned
Unsettled == {t \in Tasks : at[t] \in {"bump", "clear", "dropped"}}

Goto(t, point) == at' = [at EXCEPT ![t] = point]

Init ==
  /\ extensions = NoExtension
  /\ cache = {}
  /\ version = 0
  /\ container = Nobody
  /\ at = [t \in Tasks |-> "idle"]
  /\ config = [t \in Tasks |-> None]
  /\ seen = [t \in Tasks |-> 0]
  /\ snapshot = [t \in Tasks |-> NoExtension]
  /\ got = [t \in Tasks |-> {}]
  /\ want = [t \in Tasks |-> None]
  /\ client = [t \in Tasks |-> None]
  /\ visible = {NoExtension}
  /\ may = [t \in Tasks |-> {}]

-----------------------------------------------------------------------------
\* Adding and removing

\* The key must be free.  An agent's own add holds the container lock to the
\* end; the tool that enables an extension calls the manager without it.
AddStart(t, c, locked) ==
  /\ at[t] = "idle"
  /\ extensions[c.key] = None
  /\ locked => container = Nobody
  /\ container' = IF locked THEN t ELSE container
  /\ config' = [config EXCEPT ![t] = c]
  /\ Goto(t, "connect")
  /\ UNCHANGED <<mapVars, cacheVars, fetchVars, callVars, may>>

ReleasedNever(t) == container
Released(t) == IF container = t THEN Nobody ELSE container

\* the client could not be built, or the caller went away meanwhile
ConnectFails(t) ==
  /\ at[t] = "connect"
  /\ container' = Released(t)
  /\ config' = [config EXCEPT ![t] = None]
  /\ Goto(t, "idle")
  /\ UNCHANGED <<mapVars, cacheVars, fetchVars, callVars, may>>

\* the map becomes m; whoever is listing or calling may notice
SetExtensions(m) ==
  /\ version + Cardinality(Unsettled) < MaxChanges
  /\ extensions' = m
  /\ visible' = visible \cup {m}
  /\ may' = [s \in Tasks |-> IF may[s] = {} THEN {} ELSE may[s] \cup {m}]

AddInsert(t) ==
  /\ at[t] = "connect"
  /\ SetExtensions([extensions EXCEPT ![config[t].key] = config[t]])
  /\ config' = [config EXCEPT ![t] = None]
  /\ Goto(t, "bump")
  /\ UNCHANGED <<cacheVars, container, fetchVars, callVars>>

Remove(t, k) ==
  /\ at[t] = "idle"
  /\ SetExtensions([extensions EXCEPT ![k] = None])
  /\ Goto(t, "bump")
  /\ UNCHANGED <<cacheVars, container, config, fetchVars, callVars>>

Bump(t) ==
  /\ at[t] = "bump"
  /\ version' = version + 1
  /\ Goto(t, "clear")
  /\ UNCHANGED <<mapVars, cache, container, config, fetchVars, callVars, may>>

ClearedCacheKept == cache
ClearedCache == {}

Clear(t) ==
  /\ at[t] = "clear"
  /\ cache' = ClearedCache
  /\ container' = Released(t)
  /\ Goto(t, "idle")
  /\ visible' = IF Unsettled = {t} THEN {extensions} ELSE visible
  /\ UNCHANGED <<extensions, version, config, fetchVars, callVars, may>>

\* A caller that goes away while its change waits for the cache's lock leaves
\* the old list in it; the lock of the container is given back.
Drop(t) ==
  /\ at[t] = "clear"
  /\ container' = Released(t)
  /\ Goto(t, "dropped")
  /\ UNCHANGED <<mapVars, cacheVars, config, fetchVars, callVars, may>>

-----------------------------------------------------------------------------
\* Listing the tools

ListStart(t) ==
  /\ at[t] = "idle"
  /\ may' = [may EXCEPT ![t] = visible]
  /\ Goto(t, "look")
  /\ UNCHANGED <<mapVars, cacheVars, container, config, fetchVars, callVars>>

\* a list is wanted to show the model, or to find the owner of a called tool
Listed(t) == IF want[t] = None THEN "have" ELSE "owner"

ReadCache(t) ==
  /\ at[t] = "look"
  /\ IF cache = {}
       THEN Goto(t, "load") /\ UNCHANGED got
       ELSE Goto(t, Listed(t)) /\ got' = [got EXCEPT ![t] = cache]
  /\ UNCHANGED <<mapVars, cacheVars, container, config, seen, snapshot, callVars, may>>

LoadVersion(t) ==
  /\ at[t] = "load"
  /\ seen' = [seen EXCEPT ![t] = version]
  /\ Goto(t, "snapshot")
  /\ UNCHANGED <<mapVars, cacheVars, container, config, snapshot, got, callVars, may>>

TakeSnapshot(t) ==
  /\ at[t] = "snapshot"
  /\ snapshot' = [snapshot EXCEPT ![t] = extensions]
  /\ Goto(t, "fetch")
  /\ UNCHANGED <<mapVars, cacheVars, container, config, seen, got, callVars, may>>

Fetch(t) ==
  /\ at[t] = "fetch"
  /\ \E l \in Listings(snapshot[t]) : got' = [got EXCEPT ![t] = {l}]
  /\ Goto(t, "store")
  /\ UNCHANGED <<mapVars, cacheVars, container, config, seen, snapshot, callVars, may>>

MayStoreIfEmpty(t) == cache = {}
MayStore(t) == version = seen[t] /\ cache = {}

Store(t) ==
  /\ at[t] = "store"
  /\ cache' = IF MayStore(t) THEN got[t] ELSE cache
  /\ seen' = [seen EXCEPT ![t] = 0]
  /\ snapshot' = [snapshot EXCEPT ![t] = NoExtension]
  /\ Goto(t, Listed(t))
  /\ UNCHANGED <<mapVars, version, container, config, got, callVars, may>>

-----------------------------------------------------------------------------
\* Calling a tool that was shown

Resolve(t, x, c) ==
  /\ want' = [want EXCEPT ![t] = x]
  /\ client' = [client EXCEPT ![t] = c]

\* by the prefix, when an extension of that name is there; else by the list
CallTool(t, x) ==
  /\ LET c == IF x.prefix = None THEN None ELSE extensions[x.prefix]
     IN  /\ Resolve(t, x, c)
         /\ Goto(t, IF c = None THEN "look" ELSE "check")
  /\ UNCHANGED <<mapVars, cacheVars, container, config, fetchVars, may>>

FindOwner(t) ==
  /\ at[t] = "owner"
  /\ LET owners == {extensions[y.owner] : y \in {z \in UNION got[t] : SameName(z, want[t])}}
     IN  IF owners \subseteq {None}
           THEN Goto(t, "refused") /\ UNCHANGED callVars
           ELSE /\ \E c \in owners \ {None} : Resolve(t, want[t], c)
                /\ Goto(t, "check")
  /\ UNCHANGED <<mapVars, cacheVars, container, config, fetchVars, may>>

\* is_tool_available is asked of the configuration now stored under the key;
\* the client is the one that was found
CheckAvailable(t) ==
  /\ at[t] = "check"
  /\ LET c == extensions[client[t].key]
     IN  Goto(t, IF c # None /\ want[t].name \notin c.available THEN "refused" ELSE "ran")
  /\ UNCHANGED <<mapVars, cacheVars, container, config, fetchVars, callVars, may>>

Leave(t) ==
  /\ at[t] \in {"have", "ran", "refused"}
  /\ Goto(t, "idle")
  /\ got' = [got EXCEPT ![t] = {}]
  /\ Resolve(t, None, None)
  /\ may' = [may EXCEPT ![t] = {}]
  /\ UNCHANGED <<mapVars, cacheVars, container, config, seen, snapshot>>

-----------------------------------------------------------------------------
Step(t) ==
  \/ \E c \in Configs, locked \in BOOLEAN : AddStart(t, c, locked)
  \/ ConnectFails(t) \/ AddInsert(t)
  \/ \E k \in Keys : Remove(t, k)
  \/ Bump(t) \/ Clear(t) \/ Drop(t)
  \/ ListStart(t) \/ ReadCache(t) \/ LoadVersion(t) \/ TakeSnapshot(t) \/ Fetch(t) \/ Store(t)
  \/ at[t] = "have" /\ \E x \in UNION got[t] : CallTool(t, x)
  \/ FindOwner(t) \/ CheckAvailable(t) \/ Leave(t)

Next == \E t \in Tasks : Step(t)

Spec == Init /\ [][Next]_vars

-----------------------------------------------------------------------------
Lists == UNION {Listings(m) : m \in Maps}

AtMostOne(S) == {{}} \cup {{x} : x \in S}

\* Every variable holds a value of its type, and the container lock is held
\* only by a task that is adding an extension.
TypeOK ==
  /\ extensions \in Maps
  /\ cache \in AtMostOne(Lists)
  /\ version \in Nat
  /\ container \in Tasks \cup {Nobody}
  /\ container # Nobody => at[container] \in {"connect", "bump", "clear"}
  /\ at \in [Tasks -> Points]
  /\ config \in [Tasks -> Configs \cup {None}]
  /\ seen \in [Tasks -> Nat]
  /\ snapshot \in [Tasks -> Maps]
  /\ got \in [Tasks -> AtMostOne(Lists)]
  /\ visible \in SUBSET Maps
  /\ may \in [Tasks -> SUBSET Maps]

\* Once every change has returned, a cached list is a list of the extensions
\* there are: get_all_tools_cached stores what it fetched without a lock, and
\* only the version keeps a list older than a change out of the cache.
CacheCurrent == Unsettled = {} => cache \subseteq Listings(extensions)

\* A tool that every listing shows is not refused while the extensions stay
\* as they are: neither resolve_tool nor dispatch_tool_call may lose a tool
\* the model was just shown.
ShownToolRuns ==
  \A t \in Tasks : \A m \in may[t] :
    at[t] = "refused" /\ may[t] = {m} => \E l \in Listings(m) : want[t] \notin l

\* Every list handed out is one ToolsRegister allows.
Register == INSTANCE ToolsRegister WITH
  current <- extensions, unsettled <- Unsettled, shown <- got

\* The manager implements the register: a list asked for after a change has
\* returned shows that change.
Listing == Register!Spec
=============================================================================
