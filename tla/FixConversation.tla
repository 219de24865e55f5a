--------------------------- MODULE FixConversation ---------------------------
(***************************************************************************)
(* fix_conversation of crates/goose/src/conversation/mod.rs: what is done  *)
(* to a conversation before it is sent to a model.                         *)
(*                                                                         *)
(* A message has a role, a flag telling whether the model sees it, and a   *)
(* sequence of content items.  Text is kept to what the passes tell apart: *)
(* "text", "blank" (only white space) and "empty".  Tool requests and      *)
(* responses carry the id of their call; other items have NoId.            *)
(***************************************************************************)
EXTENDS Naturals, Sequences, SequencesExt

NoId == 0

Texts == {"text", "blank", "empty"}

Kinds == Texts \cup {"thinking", "request", "response", "elicitation"}

\* What a message may hold (MessageContent)
Content == [kind : Kinds, id : Nat]

Text(t) == [kind |-> t, id |-> NoId]
Thinking == [kind |-> "thinking", id |-> NoId]
Request(i) == [kind |-> "request", id |-> i]
Response(i) == [kind |-> "response", id |-> i]

Msg(role, items) == [role |-> role, visible |-> TRUE, items |-> items]

IsText(item) == item.kind \in Texts

\* The elements of s at the places in K, in their order
Picked(s, K) ==
  LET upTo[n \in 0 .. Len(s)] ==
        IF n = 0 THEN <<>> ELSE IF n \in K THEN Append(upTo[n - 1], s[n]) ELSE upTo[n - 1]
  IN upTo[Len(s)]

Keep(s, Wanted(_)) == Picked(s, {n \in DOMAIN s : Wanted(s[n])})

WithItems(msg, items) == [msg EXCEPT !.items = items]

MapSeq(Op(_), s) == [n \in DOMAIN s |-> Op(s[n])]
-----------------------------------------------------------------------------
\* merge_text_content_items: neighbouring texts of an assistant message
Joined(a, b) == IF "text" \in {a, b} THEN "text" ELSE IF "blank" \in {a, b} THEN "blank" ELSE "empty"

JoinItem(done, item) ==
  IF done # <<>> /\ IsText(item) /\ IsText(Last(done))
  THEN Append(Front(done), Text(Joined(Last(done).kind, item.kind)))
  ELSE Append(done, item)

JoinedItems(items) == FoldLeft(JoinItem, <<>>, items)

MergeTextContent(msg) ==
  IF msg.role = "assistant" THEN WithItems(msg, JoinedItems(msg.items)) ELSE msg

\* trim_assistant_text_whitespace
TrimWhitespace(msg) ==
  LET Trim(item) == IF item.kind = "blank" THEN Text("empty") ELSE item
  IN IF msg.role = "assistant" THEN WithItems(msg, MapSeq(Trim, msg.items)) ELSE msg

\* remove_empty_messages
IsEmptyMessage(msg) == \A n \in DOMAIN msg.items : msg.items[n].kind = "empty"

RemoveEmptyMessages(msgs) == Keep(msgs, LAMBDA msg : ~IsEmptyMessage(msg))

(***************************************************************************)
(* fix_tool_calling.  One pass over the messages keeps the set of calls    *)
(* still waiting for a response and removes what its message may not hold; *)
(* the requests left waiting at the end are removed after it.              *)
(***************************************************************************)
Misplaced(role, item) ==
  \/ role = "user" /\ item.kind \in {"request", "thinking"}
  \/ role = "assistant" /\ item.kind = "response"

Asked(msg) == {msg.items[n].id : n \in {k \in DOMAIN msg.items : msg.items[k].kind = "request"}}

\* Fault: an answered call goes on waiting, and accepts a second response
AnswerItemAgain(acc, item) ==
  IF Misplaced("user", item) \/ (item.kind = "response" /\ item.id \notin acc.pending)
  THEN acc
  ELSE [acc EXCEPT !.items = Append(@, item)]

\* The items of a user message one by one: a response nobody waits for goes
AnswerItem(acc, item) ==
  IF Misplaced("user", item) \/ (item.kind = "response" /\ item.id \notin acc.pending)
  THEN acc
  ELSE [pending |-> IF item.kind = "response" THEN acc.pending \ {item.id} ELSE acc.pending,
        items |-> Append(acc.items, item)]

AnswerItems(pending, items) ==
  FoldLeft(AnswerItem, [pending |-> pending, items |-> <<>>], items)

CallingPass(acc, msg) ==
  IF msg.role = "user"
  THEN LET res == AnswerItems(acc.pending, msg.items)
       IN [pending |-> res.pending, msgs |-> Append(acc.msgs, WithItems(msg, res.items))]
  ELSE [pending |-> acc.pending \cup Asked(msg),
        msgs |-> Append(acc.msgs,
                   WithItems(msg, Keep(msg.items, LAMBDA it : ~Misplaced("assistant", it))))]

\* Fault: requests nobody answered stay
KeepsRequest(pending, item) == TRUE

RequestAnswered(pending, item) == item.kind = "request" => item.id \notin pending

Close(pass, msg) ==
  IF msg.role = "assistant"
  THEN WithItems(msg, Keep(msg.items, LAMBDA it : RequestAnswered(pass.pending, it)))
  ELSE msg

Passed(msgs) == FoldLeft(CallingPass, [pending |-> {}, msgs |-> <<>>], msgs)

CallingDone(msgs) ==
  LET pass == Passed(msgs)
  IN MapSeq(LAMBDA msg : Close(pass, msg), pass.msgs)

\* Fault: a message that lost all it held stays
FixToolCallingOnly(msgs) == CallingDone(msgs)

FixToolCalling(msgs) == RemoveEmptyMessages(CallingDone(msgs))

\* merge_consecutive_messages, by effective_role: a user message with a tool
\* response counts as "tool"
EffectiveRole(msg) ==
  IF msg.role = "user" /\ \E n \in DOMAIN msg.items : msg.items[n].kind = "response"
  THEN "tool" ELSE msg.role

MergeMessage(done, msg) ==
  IF done # <<>> /\ EffectiveRole(Last(done)) = EffectiveRole(msg)
  THEN Append(Front(done), WithItems(Last(done), Last(done).items \o msg.items))
  ELSE Append(done, msg)

MergeConsecutive(msgs) == FoldLeft(MergeMessage, <<>>, msgs)

\* fix_lead_trail: at most one message at each end
DropLeading(msgs) == IF msgs # <<>> /\ Head(msgs).role = "assistant" THEN Tail(msgs) ELSE msgs

\* Fault: the last message may be the assistant's
KeepTrailing(msgs) == msgs

DropTrailing(msgs) == IF msgs # <<>> /\ Last(msgs).role = "assistant" THEN Front(msgs) ELSE msgs

FixLeadTrail(msgs) == DropTrailing(DropLeading(msgs))

\* populate_if_empty
PopulateIfEmpty(msgs) == IF msgs = <<>> THEN <<Msg("user", <<Text("text")>>)>> ELSE msgs

FixMessages(msgs) ==
  PopulateIfEmpty(FixLeadTrail(MergeConsecutive(FixToolCalling(RemoveEmptyMessages(
    MapSeq(TrimWhitespace, MapSeq(MergeTextContent, msgs)))))))

Visible(msgs) == Keep(msgs, LAMBDA msg : msg.visible)

(***************************************************************************)
(* Only the messages the model sees are fixed.  The n-th of them gives its *)
(* place to the n-th fixed message; the places left over are dropped, and  *)
(* a fixed message without a place is lost.                                *)
(***************************************************************************)
PlaceFixed(fixed, acc, msg) ==
  LET idx == acc.idx + 1
  IN IF ~msg.visible THEN [acc EXCEPT !.msgs = Append(@, msg)]
     ELSE IF idx \in DOMAIN fixed THEN [idx |-> idx, msgs |-> Append(acc.msgs, fixed[idx])]
     ELSE [acc EXCEPT !.idx = idx]

Placed(fixed, msgs) ==
  LET Place(acc, msg) == PlaceFixed(fixed, acc, msg)
  IN FoldLeft(Place, [idx |-> 0, msgs |-> <<>>], msgs)

Fixed(msgs) == Placed(FixMessages(Visible(msgs)), msgs).msgs
=============================================================================
