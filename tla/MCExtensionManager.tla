------------------------- MODULE MCExtensionManager -------------------------
(***************************************************************************)
(* Two keys.  "dev" may be a server that lists reliably, or a platform      *)
(* extension of two tools of which one is available, offered without a     *)
(* prefix, that may fail to list; "todo" offers a tool of the same public  *)
(* name.                                                                   *)
(***************************************************************************)
EXTENDS ExtensionManager, TLC

Config(key, tools, available, prefixed, flaky) ==
  [key |-> key, tools |-> tools, available |-> available,
   prefixed |-> prefixed, flaky |-> flaky]

MCKeys == {"dev", "todo"}

MCConfigs == {Config("dev", {"shell"}, {"shell"}, TRUE, FALSE),
              Config("dev", {"shell", "edit"}, {"edit"}, FALSE, TRUE),
              Config("todo", {"edit"}, {"edit"}, FALSE, FALSE)}

Perms == Permutations(Tasks)
=============================================================================
