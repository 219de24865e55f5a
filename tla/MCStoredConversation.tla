------------------------ MODULE MCStoredConversation ------------------------
(***************************************************************************)
(* Two calls; the user's side sends words, white space or any of the       *)
(* responses, in any order and any number of times.                        *)
(***************************************************************************)
EXTENDS StoredConversation

MCCalls == {1, 2}

MCSaid ==
  {<<Text("text")>>, <<Response(1), Response(2)>>}
    \cup {<<Response(i)>> : i \in MCCalls}

MCTold == {<<Text("text")>>, <<Text("blank")>>, <<Thinking>>}
=============================================================================
