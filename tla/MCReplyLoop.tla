---------------------------- MODULE MCReplyLoop ----------------------------
(***************************************************************************)
(* Two prompts, two calls, two turns for each prompt: enough for a reply   *)
(* that is dropped or cancelled between its calls, a second one that loads *)
(* what the first left, a compaction in either, and the summary of the     *)
(* first call when there is a second.                                      *)
(***************************************************************************)
EXTENDS ReplyLoop

MCFinals == {"absent", "unset"}

NoFinals == {"absent"}
=============================================================================
