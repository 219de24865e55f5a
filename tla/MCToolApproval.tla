--------------------------- MODULE MCToolApproval ---------------------------
(***************************************************************************)
(* One tool of each kind: "shell" is dangerous, "read" is read-only,       *)
(* "plan" is executed at dispatch, "bad" could not be parsed.  The users   *)
(* differ in what they stored for the shell.                               *)
(***************************************************************************)
EXTENDS ToolApproval, TLC

MCLevels ==
  {[t \in Tools |-> IF t \in Dangerous THEN l ELSE "Unset"] : l \in {"Unset", "NeverAllow"}}

\* Replies are interchangeable
Symmetry == Permutations(Replies)
=============================================================================
