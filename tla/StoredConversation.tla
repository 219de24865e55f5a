------------------------- MODULE StoredConversation -------------------------
(***************************************************************************)
(* The conversations fix_conversation is given: what a session's store can *)
(* hold after replies that were cut short, tools that were cancelled,      *)
(* imported and truncated sessions, summaries that hide messages.  Calls   *)
(* have ids of their own; everything else may come in any order.           *)
(***************************************************************************)
EXTENDS FixConversation

CONSTANTS
  Calls,        \* ids of tool calls
  Said,         \* what a message of the user's side may hold: sequences of items
  Told,         \* what a message of the model without a request may hold
  MaxMessages   \* bound on the conversation

\* Who says what: results come from the user's side, requests have ids
ASSUME ConversationConstants ==
  /\ Calls \subseteq Nat
  /\ Said \cup Told \subseteq Seq(Content)
  /\ \A items \in Told : \A n \in DOMAIN items : items[n].kind # "request"

VARIABLE conv

StoredInit == conv = <<>>

IdsAsked == UNION {Asked(conv[n]) : n \in DOMAIN conv}

\* Conversation::push of a message with no request, from either side
Say(role, items) == conv' = Append(conv, Msg(role, items))

\* A request of the model, with or without text beside it
Ask(i, items) ==
  /\ i \notin IdsAsked
  /\ conv' = Append(conv, Msg("assistant", Append(items, Request(i))))

\* with_agent_invisible, by compaction or by the summary of a tool pair
Hide(n) ==
  /\ conv[n].visible
  /\ conv' = [conv EXCEPT ![n].visible = FALSE]

StoredNext ==
  \/ /\ Len(conv) < MaxMessages
     /\ \/ \E items \in Said : Say("user", items)
        \/ \E items \in Told : Say("assistant", items)
        \/ \E i \in Calls, items \in {<<>>, <<Text("text")>>} : Ask(i, items)
  \/ \E n \in DOMAIN conv : Hide(n)

StoredSpec == StoredInit /\ [][StoredNext]_conv
-----------------------------------------------------------------------------
Sent == Visible(Fixed(conv))

\* What the model sees begins with words of the user's, as it does from the
\* first prompt of a session or from the summary of a compaction onwards
IsWords(item) == item.kind \in {"text", "blank"}

StartsWithUser ==
  LET seen == Visible(conv)
  IN /\ seen # <<>>
     /\ Head(seen).role = "user"
     /\ \E n \in DOMAIN Head(seen).items : IsWords(Head(seen).items[n])

Occurrences(msgs, item) ==
  UNION {{<<m, k>> : k \in {l \in DOMAIN msgs[m].items : msgs[m].items[l] = item}} : m \in DOMAIN msgs}

\* A conversation that was fixed needs no further fixing, whatever the store
\* held, save that the texts of joined messages are joined by the second fix:
\* the agent fixes what it reloads, and what it sends, time and again
FixedOnce ==
  StartsWithUser =>
    LET once == Fixed(conv)
        JoinTexts(msg) == IF msg.visible THEN MergeTextContent(msg) ELSE msg
    IN Fixed(once) = MapSeq(JoinTexts, once)

\* The model never sees a call without its one result or a result without its
\* call before it, whatever was cut, cancelled, hidden or said twice
CallsPaired ==
  StartsWithUser =>
    LET sent == Sent
    IN \A i \in Calls :
         LET asks == Occurrences(sent, Request(i))
             answers == Occurrences(sent, Response(i))
         IN \/ asks = {} /\ answers = {}
            \/ \E m, n \in DOMAIN sent :
                 \E k \in DOMAIN sent[m].items, l \in DOMAIN sent[n].items :
                   m < n /\ asks = {<<m, k>>} /\ answers = {<<n, l>>}

\* "the first and last messages should always be from the user", and roles alternate
UserAtBothEnds ==
  StartsWithUser =>
    LET sent == Sent
    IN /\ sent # <<>> /\ Head(sent).role = "user" /\ Last(sent).role = "user"
       /\ \A n \in 1 .. Len(sent) - 1 : EffectiveRole(sent[n]) # EffectiveRole(sent[n + 1])
=============================================================================
