--------------------------- MODULE ExtensionTools ---------------------------
(***************************************************************************)
(* The tools of a set of extensions, as the model is shown them: the pure  *)
(* part of fetch_all_tools in agents/extension_manager.rs.                 *)
(*                                                                         *)
(* A configuration is a record: key is the name it is stored under, tools  *)
(* what its client serves, available what its available_tools let through, *)
(* prefixed whether the names carry the key, flaky whether its client may  *)
(* fail to list.  A map of extensions gives each key a configuration or    *)
(* None.                                                                   *)
(***************************************************************************)
EXTENDS Naturals, FiniteSets

CONSTANTS Keys, Configs, None

ASSUME NoneIsNoConfig == None \notin Configs

ASSUME ConfigKeys == \A c \in Configs : c.key \in Keys

Maps == [Keys -> Configs \cup {None}]

NoExtension == [k \in Keys |-> None]

\* public_name and the owner kept in the tool's metadata
Offered(c) ==
  {[prefix |-> IF c.prefixed THEN c.key ELSE None, name |-> n, owner |-> c.key] :
     n \in c.tools \cap c.available}

SameName(x, y) == x.prefix = y.prefix /\ x.name = y.name

Present(m) == {m[k] : k \in Keys} \ {None}

\* seen_names: of several tools with one public name the first is kept, in
\* the order of a hash map
Deduplicated(S) ==
  {T \in SUBSET S : /\ \A x, y \in T : SameName(x, y) => x = y
                    /\ \A x \in S : \E y \in T : SameName(x, y)}

\* What listing the clients of m may give.  A client that fails, at first or
\* at a later page, contributes what it gave before.
Listings(m) ==
  LET all  == UNION {Offered(c) : c \in Present(m)}
      sure == UNION {Offered(c) : c \in {d \in Present(m) : ~d.flaky}}
  IN  UNION {Deduplicated(S) : S \in {T \in SUBSET all : sure \subseteq T}}
=============================================================================
